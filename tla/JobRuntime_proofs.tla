------------------------ MODULE JobRuntime_proofs --------------------------
(***************************************************************************)
(* Proofs about JobRuntime for every plan, mode, set of operations and     *)
(* bound.  First the types; then every action is reduced to its effect on  *)
(* the steps and on the stored job, and the invariants are proved effect   *)
(* by effect: attempts, the lock, decisions, replays; and, under named     *)
(* hypotheses on the clients, the transition table, the wakeups, the       *)
(* release of the lock, read-only modes and what completion means.         *)
(***************************************************************************)
EXTENDS JobRuntime, WellFoundedInduction, TLAPS

-----------------------------------------------------------------------------
(* Helper operators.                                                       *)

\* What a selector picks is one of those it chose from.
LEMMA LeastIsIn ==
  ASSUME NEW S \in SUBSET Nat, S # {}
  PROVE  Least(S) \in S
<1> DEFINE R == OpToRel(<, Nat)
<1>1. IsWellFoundedOn(R, Nat)
  BY NatLessThanWellFounded
<1>2. S \subseteq Nat
  OBVIOUS
<1> HIDE DEF R
<1>3. PICK x \in S : \A y \in S : ~ (<<y, x>> \in R)
  BY <1>1, <1>2, WFMin
<1>4. ASSUME NEW y \in S, y < x PROVE FALSE
  <2>1. <<y, x>> \in Nat \X Nat
    BY <1>2
  <2>2. <<y, x>>[1] < <<y, x>>[2]
    BY <1>4
  <2>3. <<y, x>> \in R
    BY ONLY <2>1, <2>2, Zenon DEF R, OpToRel
  <2> QED
    BY <1>3, <2>3
<1>5. \A y \in S : x <= y
  BY <1>2, <1>4
<1> QED
  BY <1>5 DEF Least

\* select_next_step and select_next_mutation_step answer a step or none.
LEMMA SelectedSteps ==
  /\ NextStep \in RunnableSteps(step, phase) \cup {NoStep}
  /\ NextMutationStep \in MutableSteps(step, phase) \cup {NoStep}
  /\ RunnableSteps(step, phase) \subseteq Steps
  /\ MutableSteps(step, phase) \subseteq Steps
<1>1. RunnableSteps(step, phase) \subseteq Steps /\ MutableSteps(step, phase) \subseteq Steps
  BY DEF RunnableSteps, MutableSteps
<1>2. RunnableSteps(step, phase) \subseteq Nat /\ MutableSteps(step, phase) \subseteq Nat
  BY <1>1 DEF Steps
<1> QED
  BY <1>1, <1>2, LeastIsIn DEF NextStep, NextMutationStep, SelectNextStep,
     SelectNextMutationStep, LeastOrNone

\* None is not a step.
LEMMA NoStepIsNoStep == NoStep \notin Steps
  BY DEF NoStep, Steps

\* The transition table leads from job states to job states.
LEMMA TransitionTyped ==
  ASSUME TypeOK, NEW st, Transition(st)
  PROVE  job' \in JobCopy /\ st \in JobState
<1>1. wk.job \in JobCopy
  BY DEF TypeOK, WorkerRecord
<1>2. wk.job.state \in JobState
  BY <1>1 DEF JobCopy
<1>3. AllowedTransitions[wk.job.state] \subseteq JobState
  BY <1>2 DEF AllowedTransitions, JobState
<1>4. st \in JobState
  BY <1>3 DEF Transition, TransitionAllowed
<1> QED
  BY <1>1, <1>4 DEF Transition, InState, JobCopy

\* The records a turn or a request starts with are typed.
LEMMA FreshTyped ==
  /\ NewJob \in JobCopy
  /\ NewStep \in StepRecord
  /\ \A pc \in OwnPcs : At(pc) \in WorkerRecord
<1>1. NewJob \in JobCopy
  BY DEF NewJob, JobCopy, JobState
<1>2. NewStep \in StepRecord
  BY DEF NewStep, StepRecord, StepState, DryStatus
<1>3. OwnPcs \cap StepPcs = {}
  BY DEF OwnPcs, DownPcs, StepPcs
<1> QED
  BY <1>1, <1>2, <1>3 DEF At, WorkerRecord

\* Ending a turn leaves an idle worker, or one that puts the job back.
LEMMA EndTurnTyped ==
  ASSUME TypeOK, NEW requeue \in BOOLEAN, EndTurn(requeue)
  PROVE  wk' \in WorkerRecord /\ UNCHANGED deque
  BY FreshTyped DEF TypeOK, EndTurn, OwnPcs

\* An enqueue keeps the deque typed.
LEMMA EnqueueTyped ==
  ASSUME TypeOK, Enqueue
  PROVE  entries' \in Nat /\ noted' \in BOOLEAN /\ overtaken' \in BOOLEAN
  BY DEF TypeOK, Enqueue

\* A decision about a step keeps the worker typed.
LEMMA DecideOnTyped ==
  ASSUME TypeOK, NEW s \in Steps, NEW r \in StepRecord, DecideOn(s, r)
  PROVE  wk' \in WorkerRecord /\ UNCHANGED deque
  BY DEF TypeOK, DecideOn, WorkerRecord, StepPcs

\* A position without a step in hand may carry any copy of the job.
LEMMA CarriesTyped ==
  ASSUME NEW pc \in OwnPcs, NEW j \in JobCopy
  PROVE  /\ [At(pc) EXCEPT !.job = j] \in WorkerRecord
         /\ [At(pc) EXCEPT !.job = j].pc = pc
         /\ [At(pc) EXCEPT !.job = j].job = j
<1>1. pc \notin StepPcs
  BY DEF OwnPcs, DownPcs, StepPcs
<1> QED
  BY <1>1, FreshTyped DEF At, WorkerRecord

\* So a turn that goes on keeps the worker typed, and so does a decision about
\* the job.
LEMMA GoOnTyped ==
  ASSUME TypeOK
  PROVE  /\ \A pc \in OwnPcs : GoOn(pc) => wk' \in WorkerRecord /\ UNCHANGED deque
         /\ DecideOnJob => wk' \in WorkerRecord /\ UNCHANGED deque
<1>1. wk.job \in JobCopy
  BY DEF TypeOK, WorkerRecord
<1>2. \A pc \in OwnPcs : GoOn(pc) => wk' \in WorkerRecord /\ UNCHANGED deque
  BY <1>1, CarriesTyped DEF TypeOK, GoOn
<1> QED
  BY <1>2 DEF DecideOnJob, OwnPcs

\* Saving a step record keeps the stored steps typed.
LEMMA SetStepTyped ==
  ASSUME TypeOK, NEW s \in Steps, NEW r \in StepRecord, SetStep(s, r)
  PROVE  step' \in [Steps -> StepRecord]
  BY DEF TypeOK, SetStep

\* Counting an attempt gives a step record.
LEMMA AttemptTyped ==
  ASSUME NEW r \in StepRecord, NEW st \in StepState
  PROVE  /\ Attempt(r, st) \in StepRecord
         /\ Attempt(r, st).attempts = r.attempts + 1
         /\ Attempt(r, st).state = st
         /\ Attempt(r, st).dry = r.dry
<1>1. r.attempts + 1 \in Nat
  BY DEF StepRecord
<1>2. [r EXCEPT !.state = st, !.attempts = r.attempts + 1] \in StepRecord
  BY <1>1 DEF StepRecord
<1> QED
  BY <1>2 DEF Attempt, StepRecord

\* The worker takes a step in hand, with its record.
LEMMA InHandTyped ==
  ASSUME NEW w \in WorkerRecord, NEW pc \in StepPcs, NEW s \in Steps, NEW r \in StepRecord
  PROVE  /\ [w EXCEPT !.pc = pc, !.s = s] \in WorkerRecord
         /\ [w EXCEPT !.pc = pc, !.s = s, !.rec = r] \in WorkerRecord
  BY DEF WorkerRecord

-----------------------------------------------------------------------------
(* Types.                                                                  *)

\* Every step of the worker keeps the types.
LEMMA WorkerTypeOK == TypeOK /\ Worker => TypeOK'
<1> SUFFICES ASSUME TypeOK, Worker PROVE TypeOK'
  OBVIOUS
<1>a. /\ wk \in WorkerRecord /\ wk.job \in JobCopy /\ wk.rec \in StepRecord
      /\ wk.pc \in StepPcs => wk.s \in Steps
      /\ job \in JobCopy
  BY DEF TypeOK, WorkerRecord
<1>b. \A s \in Steps : step[s] \in StepRecord
  BY DEF TypeOK
<1>c. /\ NextStep # NoStep => NextStep \in Steps
      /\ NextMutationStep # NoStep => NextMutationStep \in Steps
  BY SelectedSteps
<1> USE DEF store, deque, grants, client, history, WorkerFrame
<1>1. CASE Dequeue
  <2>1. entries' \in Nat
    BY <1>1 DEF Dequeue, TypeOK
  <2> QED
    BY <1>1, <2>1, FreshTyped DEF Dequeue, TypeOK, OwnPcs
<1>36. CASE ReadJob
  BY <1>36, <1>a, CarriesTyped DEF ReadJob, TypeOK, OwnPcs
<1>35. CASE Requeue
  BY <1>35, EnqueueTyped, FreshTyped DEF Requeue, TypeOK, OwnPcs
<1>2. CASE AcceptQueued
  BY <1>2, TransitionTyped, EndTurnTyped DEF AcceptQueued, TypeOK
<1>3. CASE ValidateRuntimePlan
  BY <1>3, TransitionTyped, EndTurnTyped, GoOnTyped DEF ValidateRuntimePlan, TypeOK
<1>4. CASE StartDryRun
  BY <1>4, TransitionTyped, EndTurnTyped, GoOnTyped
     DEF StartDryRun, LockGranted, LockRefused, TypeOK
<1>5. CASE CompleteEmptyPhase
  BY <1>5, <1>a, GoOnTyped DEF CompleteEmptyPhase, TypeOK, PhaseState, OwnPcs
<1>6. CASE NoRunnableStep
  BY <1>6, GoOnTyped DEF NoRunnableStep, TypeOK
<1>7. CASE FinishDryRuns
  <2>1. [state |-> "awaiting_human_approval", satisfied |-> TRUE] \in JobCopy
    BY DEF JobCopy, JobState
  <2> QED
    BY <1>7, <2>1, TransitionTyped, EndTurnTyped DEF FinishDryRuns, TypeOK
<1>8. CASE ScheduleWait
  <2>1. Attempt(step[NextStep], "waiting") \in StepRecord /\ NextStep \in Steps
    BY <1>8, <1>b, <1>c, AttemptTyped DEF ScheduleWait, StepState
  <2> QED
    BY <1>8, <2>1, SetStepTyped, GoOnTyped DEF ScheduleWait, TypeOK, OwnPcs
<1>9. CASE CompleteMechanicalStep
  <2>1. Attempt(step[NextStep], "dry_run_succeeded") \in StepRecord /\ NextStep \in Steps
    BY <1>9, <1>b, <1>c, AttemptTyped DEF CompleteMechanicalStep, StepState
  <2>2. [wk EXCEPT !.pc = "commit", !.s = NextStep] \in WorkerRecord
    BY <1>a, <2>1, InHandTyped DEF StepPcs
  <2> QED
    BY <1>9, <2>1, <2>2, SetStepTyped DEF CompleteMechanicalStep, TypeOK
<1>10. CASE InstructionNeeded
  BY <1>10, <1>b, <1>c, DecideOnTyped DEF InstructionNeeded, TypeOK
<1>11. CASE BeginDryRun
  <2> DEFINE r == [Attempt(step[NextStep], "dry_run_running") EXCEPT !.dry = "dry_run_running"]
  <2>1. Attempt(step[NextStep], "dry_run_running") \in StepRecord /\ NextStep \in Steps
    BY <1>11, <1>b, <1>c, AttemptTyped DEF BeginDryRun, StepState
  <2>2. r \in StepRecord
    BY <2>1 DEF StepRecord, DryStatus
  <2>3. [wk EXCEPT !.pc = "dry_call", !.s = NextStep, !.rec = r] \in WorkerRecord
    BY <1>a, <2>1, <2>2, InHandTyped DEF StepPcs
  <2> QED
    BY <1>11, <2>1, <2>2, <2>3, SetStepTyped DEF BeginDryRun, TypeOK
<1>12. CASE DryRunSucceeds
  <2> DEFINE r == [wk.rec EXCEPT !.state = "dry_run_succeeded", !.dry = "dry_run_succeeded"]
  <2>1. r \in StepRecord /\ wk.s \in Steps
    BY <1>12, <1>a DEF DryRunSucceeds, StepPcs, StepRecord, StepState, DryStatus
  <2>2. [wk EXCEPT !.pc = "commit", !.job.satisfied = TRUE, !.rec = NewStep] \in WorkerRecord
    BY <1>a, <2>1, FreshTyped DEF WorkerRecord, StepPcs, JobCopy
  <2> QED
    BY <1>12, <2>1, <2>2, SetStepTyped DEF DryRunSucceeds, TypeOK
<1>13. CASE DryRunFails
  <2> DEFINE r == [wk.rec EXCEPT !.state = "dry_run_failed", !.dry = "dry_run_failed"]
  <2>1. r \in StepRecord /\ wk.s \in Steps
    BY <1>13, <1>a DEF DryRunFails, StepPcs, StepRecord, StepState, DryStatus
  <2> QED
    BY <1>13, <2>1, SetStepTyped, DecideOnTyped DEF DryRunFails, TypeOK
<1>14. CASE Commit
  <2>1. PhaseOf[wk.s] \in Phases
    BY <1>14, <1>a, PlanAssumption DEF Commit, StepPcs
  <2> QED
    BY <1>14, <1>a, <2>1, GoOnTyped DEF Commit, TypeOK, PhaseState, OwnPcs
<1>15. CASE DecideStep
  <2>1. [wk.rec EXCEPT !.state = "decision_required"] \in StepRecord /\ wk.s \in Steps
    BY <1>15, <1>a DEF DecideStep, StepPcs, StepRecord, StepState
  <2> QED
    BY <1>15, <2>1, SetStepTyped, GoOnTyped DEF DecideStep, TypeOK
<1>16. CASE DecideJob
  BY <1>16, TransitionTyped, EndTurnTyped DEF DecideJob, TypeOK
<1>17. CASE AwaitHumanApproval
  BY <1>17, TransitionTyped, EndTurnTyped DEF AwaitHumanApproval, TypeOK
<1>18. CASE NoMutationLeft
  <2>1. FirstListed(RunningMutations) \subseteq Steps
    BY DEF FirstListed, RunningMutations
  <2> QED
    BY <1>18, <1>b, <2>1, DecideOnTyped, TransitionTyped, EndTurnTyped DEF NoMutationLeft, TypeOK
<1>19. CASE MutationExecutorMissing
  BY <1>19, <1>b, <1>c, DecideOnTyped DEF MutationExecutorMissing, TypeOK
<1>20. CASE BeginMutation
  <2> DEFINE r == Attempt(step[NextMutationStep], "mutation_running")
  <2>1. r \in StepRecord /\ NextMutationStep \in Steps
    BY <1>20, <1>b, <1>c, AttemptTyped DEF BeginMutation, StepState
  <2>2. [wk EXCEPT !.pc = "mut_gate", !.s = NextMutationStep, !.rec = r] \in WorkerRecord
    BY <1>a, <2>1, InHandTyped DEF StepPcs
  <2> QED
    BY <1>20, <2>1, <2>2, SetStepTyped, GoOnTyped
       DEF BeginMutation, LockGranted, LockRefused, TypeOK
<1>d. FailMutation /\ wk.pc \in StepPcs =>
          step' \in [Steps -> StepRecord] /\ wk' \in WorkerRecord /\ UNCHANGED deque
  <2>1. [wk.rec EXCEPT !.state = "mutation_failed"] \in StepRecord
    BY <1>a DEF StepRecord, StepState
  <2> QED
    BY <1>a, <2>1, SetStepTyped, DecideOnTyped DEF FailMutation
<1>e. SucceedMutation /\ wk.pc \in StepPcs =>
          step' \in [Steps -> StepRecord] /\ wk' \in WorkerRecord /\ UNCHANGED deque
  <2>1. [wk.rec EXCEPT !.state = "mutation_succeeded"] \in StepRecord
    BY <1>a DEF StepRecord, StepState
  <2>2. wk.pc \in StepPcs => [wk EXCEPT !.pc = "commit", !.rec = NewStep] \in WorkerRecord
    BY <1>a, FreshTyped DEF WorkerRecord, StepPcs
  <2> QED
    BY <1>a, <2>1, <2>2, SetStepTyped DEF SucceedMutation, TypeOK
<1>21. CASE MutationBlocked
  BY <1>21, <1>d DEF MutationBlocked, TypeOK, StepPcs
<1>22. CASE MutationExcluded
  BY <1>22, <1>e DEF MutationExcluded, TypeOK, StepPcs
<1>23. CASE MutationCalled
  <2>1. [wk EXCEPT !.pc = "mut_call"] \in WorkerRecord /\ wk.s \in Steps
    BY <1>23, <1>a DEF MutationCalled, WorkerRecord, StepPcs
  <2>2. [calls EXCEPT ![wk.s] = @ + 1] \in [Steps -> Nat]
    BY <2>1 DEF TypeOK
  <2> QED
    BY <1>23, <2>1, <2>2 DEF MutationCalled, TypeOK
<1>24. CASE MutationReturns
  BY <1>24, <1>d, <1>e DEF MutationReturns, TypeOK, StepPcs
<1>25. CASE WaitPending
  BY <1>25, EndTurnTyped DEF WaitPending, TypeOK
<1>26. CASE WaitTimesOut
  BY <1>26, <1>b, DecideOnTyped DEF WaitTimesOut, FirstListed, WaitingSteps, TypeOK
<1>27. CASE DecideFromState
  BY <1>27, GoOnTyped DEF DecideFromState, TypeOK
<1>28. CASE NotRunnable
  BY <1>28, EndTurnTyped DEF NotRunnable, TypeOK
<1>29. CASE CancelFlagged
  <2>1. InState(wk.job, "cancelled") \in JobCopy
    BY <1>a DEF InState, JobCopy, JobState
  <2> QED
    BY <1>29, <2>1, FreshTyped DEF CancelFlagged, TakeFlag, TypeOK, OwnPcs
<1>30. CASE PauseFlagged
  BY <1>30, TransitionTyped, EndTurnTyped DEF PauseFlagged, TakeFlag, TypeOK
<1>31. CASE FlagRaises
  BY <1>31, FreshTyped DEF FlagRaises, TakeFlag, TypeOK, OwnPcs
<1>32. CASE CancelSteps
  <2>1. \A s \in Steps : [step[s] EXCEPT !.state = "cancelled"] \in StepRecord
    BY <1>b DEF StepRecord, StepState
  <2>2. step' \in [Steps -> StepRecord]
    BY <1>32, <1>b, <2>1 DEF CancelSteps
  <2> QED
    BY <1>32, <2>2, EndTurnTyped DEF CancelSteps, TypeOK
<1>33. CASE WaitScheduled
  BY <1>33, TransitionTyped, EndTurnTyped DEF WaitScheduled, TypeOK
<1>34. CASE SaveJob
  BY <1>34, <1>a, EndTurnTyped DEF SaveJob, TypeOK
<1> QED
  BY <1>1, <1>2, <1>3, <1>4, <1>5, <1>6, <1>7, <1>8, <1>9, <1>10, <1>11, <1>12, <1>13,
     <1>14, <1>15, <1>16, <1>17, <1>18, <1>19, <1>20, <1>21, <1>22, <1>23, <1>24, <1>25,
     <1>26, <1>27, <1>28, <1>29, <1>30, <1>31, <1>32, <1>33, <1>34, <1>35, <1>36 DEF Worker

\* Every step of a client keeps the types.
LEMMA ClientTypeOK == TypeOK /\ Client => TypeOK'
<1> SUFFICES ASSUME TypeOK, Client PROVE TypeOK'
  OBVIOUS
<1>a. /\ api \in ApiRecord /\ api.job \in JobCopy /\ job \in JobCopy
      /\ api.target \in Steps \cup {AnyStep}
      /\ wk \in WorkerRecord /\ wk.job \in JobCopy
  BY DEF TypeOK, ApiRecord, WorkerRecord
<1>b. \A s \in Steps : step[s] \in StepRecord
  BY DEF TypeOK
<1>c. NoRequest \in ApiRecord
  BY FreshTyped DEF NoRequest, ApiRecord
<1>d. \A st \in JobState : InState(api.job, st) \in JobCopy /\ InState(api.job, st).state = st
  BY <1>a DEF InState, JobCopy
<1>e. \A s \in Steps, st \in StepState, d \in DryStatus :
          /\ [step[s] EXCEPT !.state = st] \in StepRecord
          /\ [step[s] EXCEPT !.state = st, !.dry = d] \in StepRecord
  BY <1>b DEF StepRecord
<1> USE DEF store, deque, grants, client, history
<1>1. ASSUME NEW request, Receive(request),
             request.op \in ApiOps => request \in ApiRecord,
             approval' \in [ApprovalScopes -> {"none", "active", "expired"}]
      PROVE  TypeOK'
  BY <1>1 DEF Receive, TypeOK
<1>r. ASSUME NEW op, NEW t \in Steps \cup {AnyStep}, Read(op, t),
             approval' \in [ApprovalScopes -> {"none", "active", "expired"}]
      PROVE  TypeOK'
  BY <1>1, <1>r, <1>a DEF Read, ApiRecord
<1>w. \A op \in ApiOps : ToWake(op) \in ApiRecord /\ ToWake(op).op = op
  BY <1>c DEF ToWake, NoRequest, ApiRecord
<1>2. ASSUME NEW op, RequestTransition(op) PROVE TypeOK'
  BY <1>r, <1>2 DEF RequestTransition, TypeOK
<1>3. CASE RequestStart
  <2>1. "start" \in ApiOps
    BY <1>3 DEF RequestStart, Receive, ToWake, NoRequest
  <2> QED
    BY <1>1, <1>3, <1>w, <2>1 DEF RequestStart, TypeOK
<1>4. ASSUME NEW op, NEW t \in Steps \cup {AnyStep}, RequestInstruction(op, t) PROVE TypeOK'
  BY <1>r, <1>4 DEF RequestInstruction, TypeOK
<1>5. ASSUME NEW op, RequestFlag(op) PROVE TypeOK'
  BY <1>r, <1>5 DEF RequestFlag, TypeOK
<1>6. ASSUME NEW a \in ApprovalScopes, Approve(a) PROVE TypeOK'
  BY <1>r, <1>6 DEF Approve, TypeOK
<1>g. ASSUME NEW j \in JobCopy, SaveCopy(j) PROVE TypeOK'
  <2>1. j.state \in JobState
    BY DEF JobCopy
  <2> QED
    BY <1>g, <1>c, <2>1 DEF SaveCopy, Answered, TypeOK
<1>7. CASE WriteTransition
  <2>1. TargetState(api.op) \in JobState
    BY DEF TargetState, JobState
  <2> QED
    BY <1>7, <1>d, <1>g, <2>1 DEF WriteTransition
<1>8. CASE WriteApproved
  BY <1>8, <1>a, <1>g DEF WriteApproved
<1>h. \A at \in {"store", "step", "job", "wake", "add", "ensure"} : Proceed(at) => api' \in ApiRecord
  BY <1>a DEF Proceed, ApiRecord
<1>n. Enqueued => api' \in ApiRecord
  BY <1>c, <1>h DEF Enqueued, Answered
<1>p. api.op \in ApiOps /\ ProceedToWake => api' \in ApiRecord
  BY <1>w DEF ProceedToWake
<1>i. ASSUME NEW at, Instructing(at) PROVE api.op \in ApiOps
  BY <1>i, <1>a DEF Instructing, Instructions, NoApi, ApiRecord
<1>9. CASE SetFlag
  <2>1. api.op \in ApiOps
    BY <1>9, <1>a DEF SetFlag, FlagOps, NoApi, ApiRecord
  <2> QED
    BY <1>9, <1>p, <2>1 DEF SetFlag, TypeOK, Flags
<1>10. CASE AppendEntry
  BY <1>10, <1>h DEF AppendEntry, TypeOK
<1>11. CASE StoreInstruction
  <2>1. continues' \subseteq Steps \cup {AnyStep} /\ api' \in ApiRecord
    BY <1>11, <1>a, <1>h, <1>i, <1>p DEF StoreInstruction, TypeOK
  <2> QED
    BY <1>11, <2>1 DEF StoreInstruction, TypeOK
<1>13. CASE ApplyToStep
  <2>1. ASSUME NEW s \in Steps, InstructStep(s)
        PROVE  step' \in [Steps -> StepRecord] /\ overridden' \subseteq Steps
                  /\ spent' \subseteq Steps
    BY <2>1, <1>e, SetStepTyped
       DEF InstructStep, ResumeStep, SkipStep, StepState, DryStatus, TypeOK
  <2>2. FirstListed(TargetSteps) \subseteq Steps
    BY DEF FirstListed, TargetSteps
  <2>3. step' \in [Steps -> StepRecord] /\ overridden' \subseteq Steps /\ spent' \subseteq Steps
    BY <1>13, <2>1, <2>2 DEF ApplyToStep, TypeOK
  <2> QED
    BY <1>13, <1>h, <2>3 DEF ApplyToStep, TypeOK
<1>14. CASE ApplyToJob
  <2>1. job' \in JobCopy
    BY <1>14, <1>d DEF ApplyToJob, AppliedState, JobState
  <2> QED
    BY <1>14, <1>i, <1>p, <2>1 DEF ApplyToJob, TypeOK
<1>15. CASE NoteId \/ FindIdNoted
  BY <1>15, <1>n DEF NoteId, FindIdNoted, TypeOK
<1>16. CASE EnsureWorker
  <2>1. wk' \in WorkerRecord
    BY <1>16, <1>a, FreshTyped DEF EnsureWorker, OwnPcs
  <2> QED
    BY <1>16, <1>c, <2>1 DEF EnsureWorker, Answered, TypeOK
<1>12. ASSUME NEW a \in ApprovalScopes, ExpireApproval(a) PROVE TypeOK'
  BY <1>12 DEF ExpireApproval, TypeOK
<1> QED
  BY <1>2, <1>3, <1>4, <1>5, <1>6, <1>7, <1>8, <1>9, <1>10, <1>11, <1>12,
     <1>13, <1>14, <1>15, <1>16 DEF Client, ApiWrite

\* So do a crash and a restart.
LEMMA ProcessTypeOK == TypeOK /\ (Crash \/ Restart) => TypeOK'
<1> SUFFICES ASSUME TypeOK, Crash \/ Restart PROVE TypeOK'
  OBVIOUS
<1>a. NoRequest \in ApiRecord
  BY FreshTyped DEF NoRequest, ApiRecord
<1>b. (\E pc \in {"off", "idle"} : wk' = At(pc)) => wk' \in WorkerRecord
  BY FreshTyped DEF OwnPcs
<1>c. \A s \in Steps, st \in StepState, d \in DryStatus :
          /\ [step[s] EXCEPT !.state = st] \in StepRecord
          /\ [step[s] EXCEPT !.state = st, !.dry = d] \in StepRecord
  BY DEF TypeOK, StepRecord
<1>d. \A st \in JobState : InState(job, st) \in JobCopy
  BY DEF TypeOK, InState, JobCopy
<1> USE DEF store, deque, grants, client, history
<1>1. CASE Crash
  <2>1. At("down") \in WorkerRecord
    BY FreshTyped DEF OwnPcs, DownPcs
  <2>2. crashes' \in Nat /\ flags' \subseteq Flags
    BY <1>1 DEF Crash, TypeOK
  <2> QED
    BY <1>1, <1>a, <2>1, <2>2 DEF Crash, Answered, TypeOK
<1>2. CASE RestartRetryable
  <2>1. step' \in [Steps -> StepRecord]
    BY <1>2, <1>c, SetStepTyped DEF RestartRetryable, RunningDryRuns, StepState, DryStatus
  <2>2. StartService(FALSE) => wk' \in WorkerRecord
    BY <1>b DEF StartService
  <2>3. /\ wk' \in WorkerRecord
        /\ entries' \in Nat /\ noted' \in BOOLEAN /\ overtaken' \in BOOLEAN
    BY <1>2, <2>2, EnqueueTyped DEF RestartRetryable, TypeOK
  <2> QED
    BY <1>2, <2>1, <2>3 DEF RestartRetryable, RestartFrame, TypeOK
<1>3. CASE RestartUnknownMutation
  <2>1. step' \in [Steps -> StepRecord]
    <3>1. \A s \in Steps : [step[s] EXCEPT !.state = "decision_required"] \in StepRecord
      BY DEF TypeOK, StepRecord, StepState
    <3> QED
      BY <1>3, <3>1, SetStepTyped DEF RestartUnknownMutation, RunningMutations
  <2>2. wk' \in WorkerRecord
    BY <1>3, CarriesTyped DEF RestartUnknownMutation, TypeOK, WorkerRecord, OwnPcs, DownPcs
  <2> QED
    BY <1>3, <2>1, <2>2 DEF RestartUnknownMutation, RestartFrame, TypeOK
<1>5. CASE RestartDecide
  <2>1. wk.job \in JobCopy /\ InState(wk.job, "decision_required") \in JobCopy
    BY DEF TypeOK, WorkerRecord, InState, JobCopy, JobState
  <2>2. wk' \in WorkerRecord
    BY <1>5, <1>b, <2>1, CarriesTyped, FreshTyped DEF RestartDecide, StartService, OwnPcs, DownPcs
  <2> QED
    BY <1>5, <2>1, <2>2 DEF RestartDecide, RestartFrame, TypeOK
<1>4. CASE RestartRehydrate
  <2>1. job' \in JobCopy
    BY <1>4, <1>d DEF RestartRehydrate, TypeOK, JobState
  <2>2. \E pc \in {"off", "idle"} : wk' = At(pc)
    BY <1>4 DEF RestartRehydrate, StartService
  <2>3. entries' \in Nat /\ noted' \in BOOLEAN /\ overtaken' \in BOOLEAN
    BY <1>4, EnqueueTyped DEF RestartRehydrate, TypeOK
  <2> QED
    BY <1>4, <1>b, <2>1, <2>2, <2>3 DEF RestartRehydrate, RestartFrame, TypeOK
<1> QED
  BY <1>1, <1>2, <1>3, <1>4, <1>5 DEF Restart

\* Every component of the state keeps its type, through every interleaving of
\* worker, clients, crashes and restarts.
THEOREM TypeCorrect == Spec => []TypeOK
<1>1. ASSUME Init PROVE TypeOK
  <2>1. wk \in WorkerRecord /\ api \in ApiRecord
    BY <1>1, FreshTyped DEF Init, NoRequest, ApiRecord, OwnPcs
  <2>2. job \in JobCopy /\ step \in [Steps -> StepRecord] /\ phase \in [Phases -> PhaseState]
    BY <1>1, FreshTyped DEF Init, PhaseState
  <2>3. approval \in [ApprovalScopes -> {"none", "active", "expired"}] /\ cache \in JobState
    BY <1>1 DEF Init, JobState
  <2> QED
    BY <1>1, <2>1, <2>2, <2>3 DEF Init, TypeOK
<1>2. TypeOK /\ [Next]_vars => TypeOK'
  <2>1. TypeOK /\ UNCHANGED vars => TypeOK'
    BY DEF TypeOK, vars, store, deque, grants, client, history
  <2> QED
    BY <2>1, WorkerTypeOK, ClientTypeOK, ProcessTypeOK DEF Next
<1> QED
  BY <1>1, <1>2, PTL DEF Spec

-----------------------------------------------------------------------------
(* Effects of the actions on the steps and the worker's hands.             *)

\* Positions in which the worker will write wk.rec back for step wk.s.
HoldPcs == {"dry_call", "mut_gate", "mut_call", "decide"}

\* States a step whose mutation was sent may be in until it is instructed.
SpentStates == {"mutation_running", "mutation_succeeded", "mutation_failed",
                "decision_required", "cancelled"}

Quiet == wk'.pc \in OwnPcs /\ UNCHANGED <<step, history>>

Counted ==
    \E s \in RunnableSteps(step, phase), st \in {"waiting", "dry_run_succeeded"} :
        /\ SetStep(s, Attempt(step[s], st))
        /\ wk'.pc \in {"wait", "commit"}
        /\ UNCHANGED history

Undecided ==
    \E s \in Steps :
        /\ wk'.pc = "decide" /\ wk'.s = s /\ wk'.rec = step[s]
        /\ UNCHANGED <<step, history>>

DryRunBegun ==
    \E s \in RunnableSteps(step, phase), r \in StepRecord :
        /\ SetStep(s, r)
        /\ r.attempts = step[s].attempts + 1
        /\ r.dry = "dry_run_running"
        /\ wk'.pc = "dry_call" /\ wk'.s = s /\ wk'.rec = r
        /\ UNCHANGED history

MutationBegun ==
    \E s \in MutableSteps(step, phase) :
        LET r == Attempt(step[s], "mutation_running")
        IN  /\ SetStep(s, r)
            /\ wk'.pc = "mut_gate" /\ wk'.s = s /\ wk'.rec = r
            /\ lock' = TRUE
            /\ UNCHANGED history

Settled ==
    /\ wk.pc \in HoldPcs
    /\ \E r \in StepRecord :
          /\ SetStep(wk.s, r)
          /\ r.attempts = wk.rec.attempts
          /\ r.dry = "dry_run_succeeded" => r.dry = wk.rec.dry \/ wk.s \in previewed'
          /\ wk.pc # "dry_call" => r.state \in SpentStates
          /\ \/ wk'.pc \in {"commit", "decide_job"}
             \/ wk'.pc = "decide" /\ wk'.s = wk.s /\ wk'.rec = r
    /\ previewed \subseteq previewed'
    /\ UNCHANGED <<calls, spent, overridden>>

StepsCancelled ==
    /\ \A s \in Steps :
          \/ step'[s] = step[s] /\ step[s].state \in {"dry_run_succeeded", "mutation_succeeded"}
          \/ step'[s] = [step[s] EXCEPT !.state = "cancelled"]
    /\ wk'.pc = "idle"
    /\ UNCHANGED history

\* What a worker step does to the steps is one of eight things.
LEMMA WorkerEffects ==
  ASSUME TypeOK, Worker
  PROVE  \/ Quiet \/ Counted \/ Undecided \/ DryRunBegun \/ MutationBegun
         \/ Settled \/ MutationCalled \/ StepsCancelled
<1>a. /\ wk \in WorkerRecord /\ wk.rec \in StepRecord
      /\ wk.pc \in StepPcs => wk.s \in Steps
  BY DEF TypeOK, WorkerRecord
<1>b. \A s \in Steps : step[s] \in StepRecord
  BY DEF TypeOK
<1>c. /\ NextStep # NoStep => NextStep \in RunnableSteps(step, phase) /\ NextStep \in Steps
      /\ NextMutationStep # NoStep =>
            NextMutationStep \in MutableSteps(step, phase) /\ NextMutationStep \in Steps
  BY SelectedSteps
<1>d. \A pc \in OwnPcs : At(pc).pc = pc
  BY DEF At
<1>e. /\ \A requeue : EndTurn(requeue) => wk'.pc \in {"idle", "requeue"}
      /\ EndTurn(FALSE) => wk'.pc = "idle"
  BY <1>d DEF EndTurn, OwnPcs
<1>f. /\ \A pc : GoOn(pc) => wk'.pc = pc
      /\ DecideOnJob => wk'.pc = "decide_job"
  BY DEF DecideOnJob, GoOn, At
<1>g. \A s, r : DecideOn(s, r) => wk'.pc = "decide" /\ wk'.s = s /\ wk'.rec = r
  BY <1>a DEF DecideOn, WorkerRecord
<1> USE DEF WorkerFrame, history, store
<1>1. CASE Dequeue \/ ReadJob \/ Requeue
  <2>1. wk'.pc \in {"read", "dispatch", "idle"}
    BY <1>1 DEF Dequeue, ReadJob, Requeue, At
  <2> QED
    BY <1>1, <2>1 DEF Dequeue, ReadJob, Requeue, Quiet, OwnPcs
<1>2. CASE AcceptQueued \/ ValidateRuntimePlan \/ StartDryRun \/ CompleteEmptyPhase
           \/ NoRunnableStep \/ FinishDryRuns
  BY <1>2, <1>e, <1>f DEF AcceptQueued, ValidateRuntimePlan, StartDryRun, LockRefused,
     CompleteEmptyPhase, NoRunnableStep, FinishDryRuns, Quiet, OwnPcs
<1>3. CASE ScheduleWait
  BY <1>3, <1>c, <1>f DEF ScheduleWait, Counted
<1>4. CASE CompleteMechanicalStep
  <2>1. wk'.pc = "commit"
    BY <1>4, <1>a DEF CompleteMechanicalStep, WorkerRecord
  <2> QED
    BY <1>4, <1>c, <2>1 DEF CompleteMechanicalStep, Counted
<1>5. CASE InstructionNeeded
  BY <1>5, <1>c, <1>g DEF InstructionNeeded, Undecided
<1>6. CASE BeginDryRun
  <2> DEFINE r == [Attempt(step[NextStep], "dry_run_running") EXCEPT !.dry = "dry_run_running"]
  <2>1. /\ Attempt(step[NextStep], "dry_run_running") \in StepRecord
        /\ Attempt(step[NextStep], "dry_run_running").attempts = step[NextStep].attempts + 1
    BY <1>6, <1>b, <1>c, AttemptTyped DEF BeginDryRun, StepState
  <2>2. /\ r \in StepRecord /\ r.attempts = step[NextStep].attempts + 1
        /\ r.dry = "dry_run_running"
    BY <2>1 DEF StepRecord, DryStatus
  <2>3. /\ SetStep(NextStep, r) /\ wk' = [wk EXCEPT !.pc = "dry_call", !.s = NextStep, !.rec = r]
        /\ NextStep # NoStep /\ UNCHANGED history
    BY <1>6 DEF BeginDryRun
  <2>4. wk'.pc = "dry_call" /\ wk'.s = NextStep /\ wk'.rec = r
    BY <2>3, <1>a DEF WorkerRecord
  <2> HIDE DEF r
  <2> QED
    BY <1>c, <2>2, <2>3, <2>4 DEF DryRunBegun
<1>7. CASE DryRunSucceeds
  <2> DEFINE r == [wk.rec EXCEPT !.state = "dry_run_succeeded", !.dry = "dry_run_succeeded"]
  <2>1. r \in StepRecord /\ r.attempts = wk.rec.attempts
    BY <1>a DEF StepRecord, StepState, DryStatus
  <2>2. wk'.pc = "commit"
    BY <1>7, <1>a DEF DryRunSucceeds, WorkerRecord
  <2>3. SetStep(wk.s, r) /\ previewed' = previewed \cup {wk.s} /\ wk.pc = "dry_call"
    BY <1>7 DEF DryRunSucceeds
  <2> HIDE DEF r
  <2> QED
    BY <1>7, <2>1, <2>2, <2>3 DEF DryRunSucceeds, Settled, HoldPcs
<1>8. CASE DryRunFails
  <2> DEFINE r == [wk.rec EXCEPT !.state = "dry_run_failed", !.dry = "dry_run_failed"]
  <2>1. r \in StepRecord /\ r.attempts = wk.rec.attempts /\ r.dry = "dry_run_failed"
    BY <1>a DEF StepRecord, StepState, DryStatus
  <2>2. SetStep(wk.s, r) /\ DecideOn(wk.s, r) /\ wk.pc = "dry_call" /\ UNCHANGED history
    BY <1>8 DEF DryRunFails
  <2> HIDE DEF r
  <2> QED
    BY <1>g, <2>1, <2>2 DEF Settled, HoldPcs
<1>9. CASE Commit \/ SaveJob \/ WaitScheduled
  BY <1>9, <1>e, <1>f DEF Commit, SaveJob, WaitScheduled, Quiet, OwnPcs
<1>10. CASE DecideStep
  <2> DEFINE r == [wk.rec EXCEPT !.state = "decision_required"]
  <2>1. /\ r \in StepRecord /\ r.attempts = wk.rec.attempts /\ r.dry = wk.rec.dry
        /\ r.state = "decision_required"
    BY <1>a DEF StepRecord, StepState
  <2>2. SetStep(wk.s, r) /\ wk'.pc = "decide_job" /\ wk.pc = "decide" /\ UNCHANGED history
    BY <1>10, <1>f DEF DecideStep
  <2> HIDE DEF r
  <2> QED
    BY <2>1, <2>2 DEF Settled, HoldPcs, SpentStates
<1>11. CASE DecideJob \/ AwaitHumanApproval \/ WaitPending \/ DecideFromState
            \/ NotRunnable \/ PauseFlagged
  BY <1>11, <1>e, <1>f DEF DecideJob, AwaitHumanApproval, WaitPending, DecideFromState,
     NotRunnable, PauseFlagged, TakeFlag, Quiet, OwnPcs
<1>12. CASE FlagRaises \/ CancelFlagged
  BY <1>12, <1>d DEF FlagRaises, CancelFlagged, TakeFlag, Quiet, OwnPcs
<1>13. CASE NoMutationLeft
  <2>1. FirstListed(RunningMutations) \subseteq Steps
    BY DEF FirstListed, RunningMutations
  <2> QED
    BY <1>13, <1>e, <1>g, <2>1 DEF NoMutationLeft, Undecided, Quiet, OwnPcs
<1>14. CASE MutationExecutorMissing
  BY <1>14, <1>c, <1>g DEF MutationExecutorMissing, Undecided
<1>15. CASE BeginMutation
  <2> DEFINE r == Attempt(step[NextMutationStep], "mutation_running")
  <2>1. CASE LockRefused
    BY <1>15, <1>f, <2>1 DEF BeginMutation, LockRefused, Quiet, OwnPcs
  <2>2. CASE ~LockRefused
    <3>1. /\ SetStep(NextMutationStep, r) /\ lock' = TRUE /\ NextMutationStep # NoStep
          /\ wk' = [wk EXCEPT !.pc = "mut_gate", !.s = NextMutationStep, !.rec = r]
          /\ UNCHANGED history
      BY <1>15, <2>2 DEF BeginMutation, LockGranted
    <3>2. wk'.pc = "mut_gate" /\ wk'.s = NextMutationStep /\ wk'.rec = r
      BY <3>1, <1>a DEF WorkerRecord
    <3> QED
      BY <1>c, <3>1, <3>2 DEF MutationBegun
  <2> QED
    BY <2>1, <2>2
<1>h. ASSUME FailMutation, wk.pc \in {"mut_gate", "mut_call"}, UNCHANGED history PROVE Settled
  <2> DEFINE r == [wk.rec EXCEPT !.state = "mutation_failed"]
  <2>1. /\ r \in StepRecord /\ r.attempts = wk.rec.attempts /\ r.dry = wk.rec.dry
        /\ r.state = "mutation_failed"
    BY <1>a DEF StepRecord, StepState
  <2>2. SetStep(wk.s, r) /\ DecideOn(wk.s, r)
    BY <1>h DEF FailMutation
  <2> HIDE DEF r
  <2> QED
    BY <1>g, <1>h, <2>1, <2>2 DEF Settled, HoldPcs, SpentStates
<1>i. ASSUME SucceedMutation, wk.pc \in {"mut_gate", "mut_call"}, UNCHANGED history PROVE Settled
  <2> DEFINE r == [wk.rec EXCEPT !.state = "mutation_succeeded"]
  <2>1. /\ r \in StepRecord /\ r.attempts = wk.rec.attempts /\ r.dry = wk.rec.dry
        /\ r.state = "mutation_succeeded"
    BY <1>a DEF StepRecord, StepState
  <2>2. SetStep(wk.s, r) /\ wk'.pc = "commit"
    BY <1>i, <1>a DEF SucceedMutation, WorkerRecord
  <2> HIDE DEF r
  <2> QED
    BY <1>i, <2>1, <2>2 DEF Settled, HoldPcs, SpentStates
<1>16. CASE MutationBlocked \/ MutationExcluded \/ MutationReturns
  BY <1>16, <1>h, <1>i DEF MutationBlocked, MutationExcluded, MutationReturns
<1>17. CASE WaitTimesOut
  BY <1>17, <1>g DEF WaitTimesOut, FirstListed, WaitingSteps, Undecided
<1>18. CASE CancelSteps
  BY <1>18, <1>e DEF CancelSteps, TypeOK, StepsCancelled
<1> QED
  BY <1>1, <1>2, <1>3, <1>4, <1>5, <1>6, <1>7, <1>8, <1>9, <1>10, <1>11, <1>12, <1>13,
     <1>14, <1>15, <1>16, <1>17, <1>18 DEF Worker

Unstirred == wk' = wk \/ (wk.pc = "off" /\ wk'.pc = "idle")
GrantsKept ==
    /\ continues \subseteq continues'
    /\ \A a \in ApprovalScopes : approval[a] # "none" => approval'[a] # "none"

Untouched == Unstirred /\ UNCHANGED <<step, history>>

Instructed ==
    /\ api.op \in {"continue", "retry", "skip"}
    /\ api.op # "skip" => api.job.state \notin {"awaiting_human_approval", "executing"}
    /\ api.at = "step"
    /\ \E s \in Steps, r \in StepRecord :
          /\ SetStep(s, r)
          /\ r.attempts = step[s].attempts
          /\ r.dry = "dry_run_succeeded" => r.dry = step[s].dry \/ s \in overridden'
          /\ spent' = spent \ {s}
    /\ overridden \subseteq overridden'
    /\ Unstirred
    /\ UNCHANGED <<calls, previewed>>

\* A client's step leaves the steps alone, or it is an instruction to one step.
LEMMA ClientEffects ==
  ASSUME TypeOK, Client
  PROVE  (Untouched \/ Instructed) /\ GrantsKept /\ UNCHANGED lock
<1>a. \A s \in Steps : step[s] \in StepRecord
  BY DEF TypeOK
<1>b. EnsureWorker => Unstirred
  BY DEF EnsureWorker, Unstirred, At
<1> USE DEF store, history, client, grants
<1>2. ASSUME NEW op, RequestTransition(op) \/ RequestFlag(op) \/ RequestStart
      PROVE  Untouched /\ GrantsKept /\ UNCHANGED lock
  BY <1>2 DEF RequestTransition, RequestFlag, RequestStart, Read, Receive, Untouched, Unstirred, GrantsKept
<1>3. ASSUME NEW op, NEW t, RequestInstruction(op, t)
      PROVE  Untouched /\ GrantsKept /\ UNCHANGED lock
  BY <1>3 DEF RequestInstruction, Read, Receive, Untouched, Unstirred, GrantsKept
<1>4. ASSUME NEW a \in ApprovalScopes, Approve(a) \/ ExpireApproval(a)
      PROVE  Untouched /\ GrantsKept /\ UNCHANGED lock
  BY <1>4 DEF Approve, ExpireApproval, Read, Receive, Untouched, Unstirred, GrantsKept, TypeOK
<1>5. CASE WriteTransition \/ WriteApproved
  BY <1>5 DEF WriteTransition, WriteApproved, SaveCopy, Untouched, Unstirred, GrantsKept
<1>6. CASE SetFlag \/ AppendEntry
  BY <1>6, <1>b DEF SetFlag, AppendEntry, Untouched, Unstirred, GrantsKept
<1>7. CASE StoreInstruction \/ ApplyToJob \/ NoteId \/ FindIdNoted \/ EnsureWorker
  BY <1>7, <1>b DEF StoreInstruction, ApplyToJob, NoteId, FindIdNoted, EnsureWorker, Untouched,
     Unstirred, GrantsKept
<1>8. CASE ApplyToStep
  <2>1. Unstirred /\ GrantsKept /\ UNCHANGED <<lock, calls, previewed>> /\ Instructing("step")
    BY <1>8 DEF ApplyToStep, Unstirred, GrantsKept
  <2>2. CASE TargetSteps = {} /\ UNCHANGED <<step, spent, overridden>>
    BY <2>1, <2>2 DEF Untouched
  <2>3. ASSUME NEW s \in TargetSteps, InstructStep(s) PROVE Instructed
    <3> DEFINE r == IF ~Resumes THEN [step[s] EXCEPT !.state = "skipped_by_instruction"]
                    ELSE IF ResumesMutation
                    THEN [step[s] EXCEPT !.state = "dry_run_succeeded",
                                         !.dry   = "dry_run_succeeded"]
                    ELSE [step[s] EXCEPT !.state = "pending", !.dry = "none"]
    <3>1. s \in Steps
      BY <2>3 DEF TargetSteps
    <3>2. r \in StepRecord /\ r.attempts = step[s].attempts
      BY <1>a, <3>1 DEF StepRecord, StepState, DryStatus
    <3>3. r.dry = "dry_run_succeeded" => r.dry = step[s].dry \/ (Resumes /\ ResumesMutation)
      BY <1>a, <3>1 DEF StepRecord
    <3>4. /\ SetStep(s, r) /\ overridden \subseteq overridden'
          /\ Resumes /\ ResumesMutation => s \in overridden'
      BY <2>3 DEF InstructStep, ResumeStep, SkipStep
    <3>5. Resumes \/ api.op = "skip"
      BY <2>3 DEF TargetSteps
    <3> HIDE DEF r
    <3> QED
      BY <2>1, <2>3, <3>1, <3>2, <3>3, <3>4, <3>5 DEF Instructed, InstructStep, Resumes, Instructing
  <2> QED
    BY <1>8, <2>1, <2>2, <2>3 DEF ApplyToStep, FirstListed
<1> QED
  BY <1>2, <1>3, <1>4, <1>5, <1>6, <1>7, <1>8 DEF Client, ApiWrite

Recovered(s) ==
    \/ step'[s] = step[s]
    \/ /\ step[s].state = "dry_run_running"
       /\ step'[s].attempts = step[s].attempts
       /\ step'[s].dry = "none"
    \/ /\ step'[s].state = "decision_required"
       /\ step'[s].attempts = step[s].attempts
       /\ step'[s].dry = step[s].dry

\* A crash keeps the steps; a restart resets the ones that were running.
LEMMA ProcessEffects ==
  ASSUME TypeOK, Crash \/ Restart
  PROVE  /\ wk'.pc \in DownPcs \cup {"off", "idle"}
         /\ \A s \in Steps : Recovered(s)
         /\ UNCHANGED history
<1>a. \A s \in Steps : step[s] \in StepRecord
  BY DEF TypeOK
<1>b. /\ \A pc : At(pc).pc = pc
      /\ (\E pc \in {"off", "idle"} : wk' = At(pc)) => wk'.pc \in {"off", "idle"}
  BY DEF At
<1> USE DEF store, history, client, grants, RestartFrame, DownPcs
<1>1. CASE Crash
  BY <1>1, <1>b DEF Crash, Recovered
<1>2. CASE RestartRetryable
  <2>1. PICK s \in Steps :
          /\ step[s].state = "dry_run_running" /\ wk.pc = "down"
          /\ SetStep(s, [step[s] EXCEPT !.state = "pending", !.dry = "none"])
          /\ UNCHANGED wk \/ StartService(FALSE)
    BY <1>2 DEF RestartRetryable, RunningDryRuns
  <2>2. LET r == [step[s] EXCEPT !.state = "pending", !.dry = "none"]
        IN  r.attempts = step[s].attempts /\ r.dry = "none"
    BY <1>a DEF StepRecord
  <2>3. \A t \in Steps : Recovered(t)
    BY <2>1, <2>2 DEF SetStep, TypeOK, Recovered
  <2>4. wk'.pc \in {"down", "off", "idle"}
    BY <1>b, <2>1 DEF StartService
  <2> QED
    BY <1>2, <2>3, <2>4 DEF RestartRetryable
<1>3. CASE RestartUnknownMutation
  <2>1. PICK s \in Steps : SetStep(s, [step[s] EXCEPT !.state = "decision_required"])
    BY <1>3 DEF RestartUnknownMutation, RunningMutations
  <2>2. LET r == [step[s] EXCEPT !.state = "decision_required"]
        IN  /\ r.attempts = step[s].attempts /\ r.dry = step[s].dry
            /\ r.state = "decision_required"
    BY <1>a DEF StepRecord
  <2>3. \A t \in Steps : Recovered(t)
    BY <2>1, <2>2 DEF SetStep, TypeOK, Recovered
  <2>4. wk'.pc = "recover"
    BY <1>3 DEF RestartUnknownMutation, At
  <2> QED
    BY <1>3, <2>3, <2>4 DEF RestartUnknownMutation
<1>5. CASE RestartDecide
  <2>1. wk'.pc \in {"down", "recover_next", "off", "idle"}
    BY <1>5, <1>b DEF RestartDecide, StartService, At
  <2> QED
    BY <1>5, <2>1 DEF RestartDecide, Recovered
<1>4. CASE RestartRehydrate
  <2>1. \E pc \in {"off", "idle"} : wk' = At(pc)
    BY <1>4 DEF RestartRehydrate, StartService
  <2> QED
    BY <1>4, <1>b, <2>1 DEF RestartRehydrate, Recovered
<1> QED
  BY <1>1, <1>2, <1>3, <1>4, <1>5 DEF Restart

\* Nothing but a mutation call ever takes a permit or a grant away.
LEMMA OnlyCallsSpend ==
  ASSUME TypeOK, [Next]_vars, ~MutationCalled
  PROVE  /\ UNCHANGED calls /\ previewed \subseteq previewed'
         /\ overridden \subseteq overridden' /\ spent' \subseteq spent
<1> USE DEF history
<1>1. CASE Worker
  BY <1>1, WorkerEffects DEF Quiet, Counted, Undecided, DryRunBegun, MutationBegun, Settled,
     StepsCancelled
<1>2. CASE Client
  BY <1>2, ClientEffects DEF Untouched, Instructed
<1>3. CASE Crash \/ Restart
  BY <1>3, ProcessEffects
<1>4. CASE UNCHANGED vars
  BY <1>4 DEF vars
<1> QED
  BY <1>1, <1>2, <1>3, <1>4 DEF Next

-----------------------------------------------------------------------------
(* Every call was counted in the repository before it was sent.            *)

AttemptInv ==
    /\ AttemptsAccounted
    /\ wk.pc \in HoldPcs => wk.rec.attempts = step[wk.s].attempts
    /\ wk.pc = "mut_gate" => calls[wk.s] < step[wk.s].attempts

\* The worker never writes back a record that counts fewer attempts.
LEMMA AttemptStep == TypeOK /\ TypeOK' /\ AttemptInv /\ [Next]_vars => AttemptInv'
<1> SUFFICES ASSUME TypeOK, TypeOK', AttemptInv, [Next]_vars PROVE AttemptInv'
  OBVIOUS
<1>a. /\ step \in [Steps -> StepRecord] /\ step' \in [Steps -> StepRecord]
      /\ calls \in [Steps -> Nat] /\ calls' \in [Steps -> Nat]
      /\ \A s \in Steps : step[s].attempts \in Nat /\ step'[s].attempts \in Nat
  BY DEF TypeOK, StepRecord
<1>b. /\ wk.pc \in HoldPcs => wk.s \in Steps
      /\ wk'.pc \in HoldPcs => wk'.s \in Steps
      /\ HoldPcs \cap (OwnPcs \cup {"commit"}) = {}
  BY DEF TypeOK, WorkerRecord, HoldPcs, StepPcs, OwnPcs, DownPcs
<1> USE DEF AttemptInv, AttemptsAccounted, history
<1>1. CASE Quiet
  BY <1>1, <1>a, <1>b DEF Quiet, HoldPcs, OwnPcs
<1>2. CASE Counted
  <2>1. PICK s \in Steps : step'[s].attempts = step[s].attempts + 1
                           /\ \A t \in Steps \ {s} : step'[t] = step[t]
    BY <1>2, <1>a, SelectedSteps, AttemptTyped DEF Counted, SetStep, StepState
  <2> QED
    BY <1>2, <1>a, <2>1 DEF Counted, HoldPcs
<1>3. CASE Undecided
  BY <1>3, <1>a DEF Undecided
<1>4. CASE DryRunBegun
  <2>1. PICK s \in Steps : /\ step'[s].attempts = step[s].attempts + 1
                           /\ wk'.pc = "dry_call" /\ wk'.s = s /\ wk'.rec = step'[s]
                           /\ \A t \in Steps \ {s} : step'[t] = step[t]
    BY <1>4, <1>a, SelectedSteps DEF DryRunBegun, SetStep
  <2> QED
    BY <1>4, <1>a, <2>1 DEF DryRunBegun
<1>5. CASE MutationBegun
  <2>1. PICK s \in Steps : /\ step'[s].attempts = step[s].attempts + 1
                           /\ wk'.pc = "mut_gate" /\ wk'.s = s /\ wk'.rec = step'[s]
                           /\ \A t \in Steps \ {s} : step'[t] = step[t]
    BY <1>5, <1>a, SelectedSteps, AttemptTyped DEF MutationBegun, SetStep, StepState
  <2> QED
    BY <1>5, <1>a, <2>1 DEF MutationBegun
<1>6. CASE Settled
  <2>1. /\ step'[wk.s].attempts = step[wk.s].attempts /\ wk.s \in Steps
        /\ \A t \in Steps \ {wk.s} : step'[t] = step[t]
    BY <1>6, <1>a, <1>b DEF Settled, SetStep
  <2>2. wk'.pc \in HoldPcs => wk'.s = wk.s /\ wk'.rec = step'[wk.s] /\ wk'.pc # "mut_gate"
    BY <1>6, <1>a, <1>b DEF Settled, SetStep, HoldPcs
  <2> QED
    BY <1>6, <1>a, <2>1, <2>2 DEF Settled
<1>7. CASE MutationCalled
  <2>1. /\ wk.pc = "mut_gate" /\ wk.s \in Steps /\ UNCHANGED step
        /\ calls' = [calls EXCEPT ![wk.s] = @ + 1]
    BY <1>7, <1>b DEF MutationCalled, store, HoldPcs
  <2>2. wk'.pc = "mut_call" /\ wk'.s = wk.s /\ wk'.rec = wk.rec
    BY <1>7 DEF MutationCalled, TypeOK, WorkerRecord
  <2> QED
    BY <1>a, <2>1, <2>2 DEF HoldPcs
<1>8. CASE StepsCancelled
  <2>1. \A s \in Steps : step'[s].attempts = step[s].attempts
    BY <1>8, <1>a DEF StepsCancelled, StepRecord
  <2> QED
    BY <1>8, <1>a, <2>1 DEF StepsCancelled, HoldPcs
<1>c. ASSUME \A s \in Steps : step'[s].attempts = step[s].attempts,
             UNCHANGED calls, Unstirred
      PROVE  AttemptInv'
  BY <1>c, <1>a, <1>b DEF Unstirred, HoldPcs
<1>9. CASE Client
  <2>1. CASE Untouched
    BY <1>c, <2>1 DEF Untouched
  <2>2. CASE Instructed
    BY <1>a, <1>c, <2>2 DEF Instructed, SetStep
  <2> QED
    BY <1>9, <2>1, <2>2, ClientEffects
<1>10. CASE Crash \/ Restart
  BY <1>10, <1>a, ProcessEffects DEF Recovered, HoldPcs, DownPcs
<1>11. CASE UNCHANGED vars
  BY <1>11 DEF vars, store
<1> QED
  BY <1>1, <1>2, <1>3, <1>4, <1>5, <1>6, <1>7, <1>8, <1>9, <1>10, <1>11, WorkerEffects DEF Next

\* The worker's attempt in hand is the stored one, and no call is uncounted.
LEMMA AttemptInvariant == Spec => []AttemptInv
<1>1. Init => AttemptInv
  BY FreshTyped DEF Init, AttemptInv, AttemptsAccounted, At, HoldPcs, StepRecord
<1> QED
  BY <1>1, AttemptStep, TypeCorrect, PTL DEF Spec

\* No restart and no interleaving forgets an attempt: every call to the cluster
\* was counted in the repository before it was sent.
THEOREM AttemptsAreAccounted == Spec => []AttemptsAccounted
<1>1. AttemptInv => AttemptsAccounted
  BY DEF AttemptInv
<1> QED
  BY <1>1, AttemptInvariant, PTL

-----------------------------------------------------------------------------
(* The namespace lock.                                                     *)

LockHeld == wk.pc \in {"mut_gate", "mut_call"} => lock

\* Only the worker drops the lock, and never while a mutation is in its hands.
LEMMA LockStep == TypeOK /\ LockHeld /\ [Next]_vars => LockHeld'
<1> SUFFICES ASSUME TypeOK, LockHeld, [Next]_vars PROVE LockHeld'
  OBVIOUS
<1> USE DEF LockHeld
<1>1. CASE Quiet \/ Counted \/ Undecided \/ DryRunBegun \/ MutationBegun \/ Settled \/ StepsCancelled
  BY <1>1 DEF Quiet, Counted, Undecided, DryRunBegun, MutationBegun, Settled, StepsCancelled,
     OwnPcs, DownPcs
<1>2. CASE MutationCalled
  BY <1>2 DEF MutationCalled
<1>3. CASE Client
  BY <1>3, ClientEffects DEF Untouched, Instructed, Unstirred
<1>4. CASE Crash \/ Restart
  BY <1>4, ProcessEffects DEF DownPcs
<1>5. CASE UNCHANGED vars
  BY <1>5 DEF vars
<1> QED
  BY <1>1, <1>2, <1>3, <1>4, <1>5, WorkerEffects DEF Next

\* Every mutation in flight is under the namespace lock this process noted.
THEOREM MutationsAreLocked == Spec => []MutationUnderLock
<1>1. Init => LockHeld
  BY DEF Init, LockHeld, At
<1>2. LockHeld => MutationUnderLock
  BY DEF LockHeld, MutationUnderLock
<1> QED
  BY <1>1, <1>2, LockStep, TypeCorrect, PTL DEF Spec

-----------------------------------------------------------------------------
(* While a decision is awaited the worker has nothing in its hands, so an  *)
(* instruction never rewrites a step the worker is about to write.         *)

AwaitsDecision ==
    \/ job.state = "decision_required"
    \/ api.job.state = "decision_required"
Quiescent == {"decision_required", "paused", "cancelled"}
Waking == api.at \in {"wake", "add", "ensure"}
RequestFits ==
    /\ api.op \in {"continue", "retry", "skip"} =>
          Waking \/ InstructionFits(api.op, api.job.state)
    /\ api.op \notin Instructions => api.at = "store" \/ Waking
    /\ api.op = NoApi => api.at = "store"
Handling == wk.pc \in StepPcs \cup {"decide_job", "save", "wait"}
Resting  == wk.pc \in DownPcs \cup {"off", "idle", "read", "cancel", "requeue"}

DecisionInv ==
    /\ RequestFits
    /\ Handling => wk.job.state # "decision_required"
    /\ AwaitsDecision =>
          /\ job.state \in Quiescent
          /\ \/ Resting
             \/ wk.pc = "dispatch" /\ wk.job.state \in Quiescent

\* A worker step that leaves a job awaiting no decision as it is.
Busy ==
    /\ wk.job.state # "decision_required"
    /\ Handling \/ (wk.pc = "dispatch" /\ wk.job.state \notin Quiescent)
    /\ job' = job \/ job'.state # "decision_required"
    /\ \/ wk'.pc \in {"idle", "requeue"}
       \/ wk'.pc # "dispatch" /\ wk'.job.state = wk.job.state
    /\ UNCHANGED api

\* While a decision is awaited the worker only dequeues, records it, passes the
\* job over or obeys a flag; every other turn finds the job busy and leaves it so.
LEMMA BusyWorker ==
  ASSUME TypeOK, DecisionInv, Worker
  PROVE  Dequeue \/ ReadJob \/ Requeue \/ DecideJob \/ NotRunnable \/ CancelFlagged \/ CancelSteps
         \/ PauseFlagged \/ FlagRaises \/ Busy
<1>a. wk \in WorkerRecord /\ wk.job \in JobCopy
  BY DEF TypeOK, WorkerRecord
<1>b. \A st : Transition(st) => job'.state = st
  BY <1>a DEF Transition, InState, JobCopy
<1>c. \A requeue : EndTurn(requeue) => wk'.pc \in {"idle", "requeue"}
  BY DEF EndTurn, At
<1>d. /\ \A pc : GoOn(pc) => wk'.pc = pc /\ wk'.job.state = wk.job.state
      /\ DecideOnJob => wk'.pc = "decide_job" /\ wk'.job.state = wk.job.state
  BY DEF DecideOnJob, GoOn, At
<1>e. \A s, r : DecideOn(s, r) => wk'.pc = "decide" /\ wk'.job.state = wk.job.state
  BY <1>a DEF DecideOn, WorkerRecord
<1>f. Handling => wk.job.state # "decision_required"
  BY DEF DecisionInv
<1> USE DEF WorkerFrame, store, client, Handling, StepPcs, Quiescent
<1>1. CASE AcceptQueued \/ ValidateRuntimePlan \/ StartDryRun \/ NoRunnableStep
           \/ InstructionNeeded
  BY <1>1, <1>b, <1>c, <1>d, <1>e DEF AcceptQueued, ValidateRuntimePlan, StartDryRun,
     LockRefused, NoRunnableStep, InstructionNeeded, DryRunTurn, Dispatching, Busy
<1>12. CASE ScheduleWait \/ CompleteEmptyPhase
  BY <1>12, <1>d DEF ScheduleWait, CompleteEmptyPhase, DryRunTurn, Dispatching, Busy
<1>2. CASE FinishDryRuns
  <2>1. job'.state \in {"awaiting_human_approval", "completed"} /\ wk'.pc \in {"idle", "requeue"}
    <3>1. CASE Executes /\ NextMutationStep # NoStep
      <4>1. job' = [state |-> "awaiting_human_approval", satisfied |-> TRUE] /\ EndTurn(TRUE)
        BY <1>2, <3>1 DEF FinishDryRuns
      <4> QED
        BY <1>c, <4>1
    <3>2. CASE ~(Executes /\ NextMutationStep # NoStep)
      BY <1>2, <1>b, <1>c, <3>2 DEF FinishDryRuns
    <3> QED
      BY <3>1, <3>2
  <2> QED
    BY <1>2, <2>1 DEF FinishDryRuns, DryRunTurn, Dispatching, Busy
<1>3. CASE CompleteMechanicalStep \/ BeginDryRun
  <2>1. wk'.pc # "dispatch" /\ wk'.job.state = wk.job.state
    BY <1>3, <1>a DEF CompleteMechanicalStep, BeginDryRun, WorkerRecord
  <2> QED
    BY <1>3, <2>1 DEF CompleteMechanicalStep, BeginDryRun, DryRunTurn, Dispatching, Busy
<1>4. CASE DryRunSucceeds
  <2>1. wk'.pc = "commit" /\ wk'.job.state = wk.job.state
    BY <1>4, <1>a DEF DryRunSucceeds, WorkerRecord, JobCopy
  <2> QED
    BY <1>4, <1>f, <2>1 DEF DryRunSucceeds, Busy
<1>5. CASE DryRunFails \/ Commit \/ DecideStep
  BY <1>5, <1>d, <1>e, <1>f DEF DryRunFails, Commit, DecideStep, Busy
<1>11. CASE SaveJob \/ WaitScheduled
  BY <1>11, <1>b, <1>c, <1>f DEF SaveJob, WaitScheduled, Busy
<1>6. CASE AwaitHumanApproval \/ NoMutationLeft \/ MutationExecutorMissing
  BY <1>6, <1>b, <1>c, <1>e DEF AwaitHumanApproval, NoMutationLeft, MutationExecutorMissing,
     Dispatching, Busy
<1>7. CASE BeginMutation
  <2>1. wk'.pc # "dispatch" /\ wk'.job.state = wk.job.state /\ UNCHANGED job
    BY <1>7, <1>a, <1>d DEF BeginMutation, LockRefused, WorkerRecord
  <2> QED
    BY <1>7, <2>1 DEF BeginMutation, Dispatching, Busy
<1>8. CASE MutationCalled
  BY <1>8, <1>a, <1>f DEF MutationCalled, WorkerRecord, Busy
<1>9. CASE MutationBlocked \/ MutationExcluded \/ MutationReturns
  <2>1. FailMutation \/ SucceedMutation => wk'.pc # "dispatch" /\ wk'.job.state = wk.job.state
    BY <1>a, <1>e DEF FailMutation, SucceedMutation, WorkerRecord
  <2> QED
    BY <1>9, <1>f, <2>1 DEF MutationBlocked, MutationExcluded, MutationReturns, Busy
<1>10. CASE WaitPending \/ WaitTimesOut \/ DecideFromState
  BY <1>10, <1>c, <1>d, <1>e DEF WaitPending, WaitTimesOut, DecideFromState, Dispatching, Busy
<1> QED
  BY <1>1, <1>2, <1>3, <1>4, <1>5, <1>6, <1>7, <1>8, <1>9, <1>10, <1>11, <1>12
     DEF Worker

\* Worker turns keep the decision invariant.
LEMMA DecisionWorkerStep == TypeOK /\ DecisionInv /\ Worker => DecisionInv'
<1> SUFFICES ASSUME TypeOK, DecisionInv, Worker PROVE DecisionInv'
  OBVIOUS
<1>a. wk \in WorkerRecord /\ wk.job \in JobCopy /\ job \in JobCopy
  BY DEF TypeOK, WorkerRecord
<1>b. \A st : Transition(st) => job'.state = st
  BY <1>a DEF Transition, InState, JobCopy
<1>c. \A requeue : EndTurn(requeue) => wk'.pc \in {"idle", "requeue"}
  BY DEF EndTurn, At
<1>d. UNCHANGED api /\ RequestFits => RequestFits'
  BY DEF RequestFits, Waking, InstructionFits
<1> USE DEF WorkerFrame, store, client, DecisionInv, AwaitsDecision, Handling, Resting, StepPcs,
        DownPcs, Quiescent
<1>1. CASE ReadJob
  <2>1. wk.pc = "read" /\ wk'.pc = "dispatch" /\ wk'.job = job /\ UNCHANGED <<job, api>>
    BY <1>1 DEF ReadJob, At
  <2> QED
    BY <1>d, <2>1
<1>9. CASE Dequeue \/ Requeue
  <2>1. wk'.pc \in {"read", "idle"} /\ wk.pc \in {"idle", "requeue"} /\ UNCHANGED <<job, api>>
    BY <1>9 DEF Dequeue, Requeue, At
  <2> QED
    BY <1>d, <2>1
<1>2. CASE Busy
  BY <1>2, <1>d DEF Busy
<1>3. CASE DecideJob
  BY <1>3, <1>b, <1>c, <1>d DEF DecideJob
<1>4. CASE NotRunnable
  BY <1>4, <1>c, <1>d DEF NotRunnable
<1>5. CASE CancelFlagged
  <2>1. job'.state = "cancelled" /\ wk'.pc = "cancel" /\ UNCHANGED api
    BY <1>5, <1>a DEF CancelFlagged, TakeFlag, InState, JobCopy, At
  <2> QED
    BY <1>d, <2>1
<1>6. CASE PauseFlagged
  <2>1. /\ UNCHANGED job \/ job'.state = "paused"
        /\ wk'.pc \in {"idle", "requeue"} /\ UNCHANGED api
    BY <1>6, <1>b, <1>c DEF PauseFlagged, TakeFlag
  <2> QED
    BY <1>d, <2>1
<1>7. CASE FlagRaises
  <2>1. wk'.pc = "off" /\ UNCHANGED <<job, api>>
    BY <1>7 DEF FlagRaises, TakeFlag, At
  <2> QED
    BY <1>d, <2>1
<1>8. CASE CancelSteps
  BY <1>8, <1>c, <1>d DEF CancelSteps
<1> QED
  BY <1>1, <1>2, <1>3, <1>4, <1>5, <1>6, <1>7, <1>8, <1>9, BusyWorker

\* So do the requests, which touch only steps no turn has in hand,
LEMMA DecisionClientStep == TypeOK /\ DecisionInv /\ Client => DecisionInv'
<1> SUFFICES ASSUME TypeOK, DecisionInv, Client PROVE DecisionInv'
  OBVIOUS
<1>a. /\ job \in JobCopy /\ api.job \in JobCopy /\ api \in ApiRecord
      /\ NoRequest.op = NoApi /\ NoRequest.job.state = "created" /\ NoRequest.at = "store"
  BY DEF TypeOK, ApiRecord, NoRequest, NewJob
<1>w. \A op : ToWake(op).op = op /\ ToWake(op).at = "wake" /\ ToWake(op).job.state = "created"
  BY <1>a DEF ToWake, NoRequest
<1>b. ASSUME Answered \/ ProceedToWake, Unstirred,
             UNCHANGED job \/ job'.state # "decision_required" \/ job' = api.job,
             ProceedToWake => api.op # NoApi
      PROVE  DecisionInv'
  <2>1. /\ \/ api'.op = NoApi /\ api'.at = "store"
           \/ api'.op # NoApi /\ api'.at = "wake"
        /\ api'.job.state = "created"
    BY <1>a, <1>b, <1>w DEF Answered, ProceedToWake
  <2>2. RequestFits' /\ api'.job.state # "decision_required"
    BY <2>1 DEF RequestFits, Waking, NoApi, Instructions
  <2>3. wk' = wk \/ (wk'.pc = "idle" /\ wk.pc = "off")
    BY <1>b DEF Unstirred
  <2> QED
    BY <1>a, <1>b, <2>2, <2>3 DEF DecisionInv, AwaitsDecision, Handling, Resting, StepPcs,
       Quiescent
<1>c. ASSUME NEW op \in ApiOps, NEW t, Read(op, t),
             op \in {"continue", "retry", "skip"} => InstructionFits(op, job.state)
      PROVE  DecisionInv'
  <2>1. /\ api'.op = op /\ api'.job = job /\ api'.at = "store"
        /\ UNCHANGED <<job, wk>>
    BY <1>c DEF Read, Receive, store
  <2> QED
    BY <1>c, <2>1 DEF DecisionInv, RequestFits, InstructionFits, AwaitsDecision, Handling, Resting
<1>k. \A op, t : Read(op, t) => op \in ApiOps
  BY DEF Read, Receive
<1>d. EnsureWorker => Unstirred
  BY DEF EnsureWorker, Unstirred, At
<1>e. \A st : InState(api.job, st).state = st
  BY <1>a DEF InState, JobCopy
<1>1. ASSUME NEW op \in Transitions, RequestTransition(op) PROVE DecisionInv'
  BY <1>1, <1>c, <1>k DEF RequestTransition, Transitions
<1>2. CASE RequestStart
  <2>1. /\ api'.op = "start" /\ api'.at = "wake" /\ api'.job.state = "created"
        /\ UNCHANGED <<job, wk>>
    BY <1>2, <1>w DEF RequestStart, Receive, store
  <2> QED
    BY <2>1 DEF DecisionInv, RequestFits, Waking, NoApi, AwaitsDecision, Handling, Resting
<1>3. ASSUME NEW op \in Instructions, NEW t \in Steps \cup {AnyStep}, RequestInstruction(op, t)
      PROVE  DecisionInv'
  BY <1>3, <1>c, <1>k DEF RequestInstruction
<1>4. ASSUME NEW op \in FlagOps, RequestFlag(op) PROVE DecisionInv'
  BY <1>4, <1>c, <1>k DEF RequestFlag, FlagOps
<1>5. ASSUME NEW a \in ApprovalScopes, Approve(a) PROVE DecisionInv'
  BY <1>5, <1>c, <1>k DEF Approve
<1>6. CASE WriteTransition
  <2>1. TargetState(api.op) # "decision_required"
    BY DEF TargetState
  <2>2. job'.state # "decision_required" /\ Answered /\ Unstirred
    BY <1>6, <1>e, <2>1 DEF WriteTransition, SaveCopy, Unstirred
  <2> QED
    BY <1>6, <1>b, <2>2 DEF WriteTransition, Transitions, NoApi
<1>7. CASE WriteApproved
  BY <1>7, <1>b DEF WriteApproved, SaveCopy, Unstirred, NoApi
<1>8. CASE SetFlag
  BY <1>8, <1>b DEF SetFlag, store, Unstirred, FlagOps, NoApi
<1>f. ASSUME NEW at, Proceed(at), UNCHANGED <<job, wk>>,
             \/ at \in {"add", "ensure"} /\ Waking
             \/ at \in {"step", "job"} /\ ~Waking /\ api.op \in Instructions
      PROVE  DecisionInv'
  <2>1. api'.op = api.op /\ api'.job = api.job /\ api'.at = at
    BY <1>a, <1>f DEF Proceed, ApiRecord
  <2>2. NoApi \notin Instructions
    BY DEF NoApi, Instructions
  <2> QED
    BY <1>f, <2>1, <2>2 DEF DecisionInv, RequestFits, Waking, InstructionFits, AwaitsDecision,
       Handling, Resting
<1>i. \A at : Instructing(at) => api.op # NoApi /\ api.op \in Instructions /\ api.at = at
  BY DEF Instructing, Instructions, NoApi
<1>m. Answered => ~ProceedToWake
  BY <1>a, <1>w DEF Answered, ProceedToWake
<1>9. CASE AppendEntry
  BY <1>9, <1>f DEF AppendEntry, Waking, store
<1>10. CASE StoreInstruction \/ ApplyToStep
  <2>1. CASE StoreInstruction /\ AppliesNothing
    BY <2>1, <1>b, <1>i DEF StoreInstruction, Unstirred, store
  <2>2. CASE (StoreInstruction /\ ~AppliesNothing) \/ ApplyToStep
    BY <2>2, <1>f, <1>i DEF StoreInstruction, ApplyToStep, Waking, store
  <2> QED
    BY <1>10, <2>1, <2>2
<1>12. CASE ApplyToJob
  <2>1. job'.state # "decision_required"
    BY <1>12, <1>e DEF ApplyToJob, AppliedState
  <2> QED
    BY <1>12, <1>b, <1>i, <2>1 DEF ApplyToJob, Unstirred
<1>13. CASE NoteId \/ FindIdNoted
  <2>1. UNCHANGED <<job, wk>> /\ Waking /\ (Answered \/ Proceed("ensure"))
    BY <1>13 DEF NoteId, FindIdNoted, Enqueued, Waking, store
  <2>2. CASE Answered
    BY <1>b, <2>1, <2>2, <1>m DEF Unstirred
  <2> QED
    BY <1>f, <2>1, <2>2
<1>14. CASE EnsureWorker
  BY <1>14, <1>b, <1>d, <1>m DEF EnsureWorker, store
<1>11. ASSUME NEW a \in ApprovalScopes, ExpireApproval(a) PROVE DecisionInv'
  BY <1>11 DEF ExpireApproval, store, client, DecisionInv, RequestFits, Waking, InstructionFits,
     AwaitsDecision, Handling, Resting
<1> QED
  BY <1>1, <1>2, <1>3, <1>4, <1>5, <1>6, <1>7, <1>8, <1>9, <1>10, <1>11, <1>12,
     <1>13, <1>14 DEF Client, ApiWrite

\* and so do a crash and the restart.
LEMMA DecisionProcessStep == TypeOK /\ DecisionInv /\ (Crash \/ Restart) => DecisionInv'
<1> SUFFICES ASSUME TypeOK, DecisionInv, Crash \/ Restart PROVE DecisionInv'
  OBVIOUS
<1>a. NoRequest.op = NoApi /\ NoRequest.job.state = "created" /\ NoRequest.at = "store"
  BY DEF NoRequest, NewJob
<1>b. Resting' /\ ~Handling'
  BY ProcessEffects DEF Resting, Handling, DownPcs, StepPcs
<1>c. \A st : InState(job, st).state = st /\ InState(wk.job, st).state = st
  BY DEF TypeOK, WorkerRecord, InState, JobCopy
<1> USE DEF store, client, DecisionInv, RequestFits, Waking, AwaitsDecision, Quiescent
<1>1. CASE Crash
  BY <1>1, <1>a, <1>b DEF Crash, Answered, NoApi
<1>2. CASE Restart
  <2>1. UNCHANGED api
    BY <1>2 DEF Restart, RestartRetryable, RestartUnknownMutation, RestartDecide,
       RestartRehydrate, RestartFrame
  <2>2. UNCHANGED job \/ job'.state = "decision_required" \/
        (job'.state = "completed" /\ "completed" \in AllowedTransitions[job.state])
    BY <1>2, <1>c DEF Restart, RestartRetryable, RestartUnknownMutation, RestartDecide,
       RestartRehydrate, TransitionAllowed
  <2>3. job.state \in Quiescent => "completed" \notin AllowedTransitions[job.state]
    BY DEF AllowedTransitions, JobState
  <2>4. RequestFits'
    BY <2>1 DEF InstructionFits
  <2> QED
    BY <1>b, <2>1, <2>2, <2>3, <2>4
<1> QED
  BY <1>1, <1>2

\* While the stored job, or the copy a request works on, awaits a decision, the
\* worker holds no step and will save no job copy.
THEOREM DecisionIsQuiet == Spec => []DecisionInv
<1>1. Init => DecisionInv
  BY DEF Init, DecisionInv, RequestFits, AwaitsDecision, Handling, Resting, StepPcs, At, NewJob,
     NoRequest, NoApi
<1>2. DecisionInv /\ UNCHANGED vars => DecisionInv'
  BY DEF DecisionInv, RequestFits, Waking, InstructionFits, AwaitsDecision, Handling, Resting, vars,
     store, client
<1>3. TypeOK /\ DecisionInv /\ [Next]_vars => DecisionInv'
  BY <1>2, DecisionWorkerStep, DecisionClientStep, DecisionProcessStep DEF Next
<1> QED
  BY <1>1, <1>3, TypeCorrect, PTL DEF Spec

-----------------------------------------------------------------------------
(* A mutation that was sent is not sent again before it is instructed.     *)

SpentInv ==
    /\ \A s \in spent : step[s].state \in SpentStates
    /\ wk.pc = "dry_call" => wk.s \notin spent
    /\ wk.pc = "mut_gate" => wk.s \notin spent /\ step[wk.s].state = "mutation_running"

\* A spent step stays in a state the selector refuses, whichever step is taken.
LEMMA SpentStep == TypeOK /\ TypeOK' /\ DecisionInv /\ SpentInv /\ [Next]_vars => SpentInv'
<1> SUFFICES ASSUME TypeOK, TypeOK', DecisionInv, SpentInv, [Next]_vars PROVE SpentInv'
  OBVIOUS
<1>a. /\ step \in [Steps -> StepRecord] /\ step' \in [Steps -> StepRecord]
      /\ spent \subseteq Steps
      /\ wk.pc \in HoldPcs => wk.s \in Steps
  BY DEF TypeOK, WorkerRecord, HoldPcs, StepPcs
<1>b. /\ \A s \in RunnableSteps(step, phase) : s \in Steps /\ s \notin spent
      /\ \A s \in MutableSteps(step, phase) : s \in Steps /\ s \notin spent
  BY DEF SpentInv, SpentStates, RunnableSteps, MutableSteps
<1> USE DEF SpentInv, history
<1>1. CASE Quiet \/ Undecided
  BY <1>1 DEF Quiet, Undecided, OwnPcs, DownPcs
<1>2. CASE Counted
  BY <1>2, <1>a, <1>b DEF Counted, SetStep
<1>3. CASE DryRunBegun
  BY <1>3, <1>a, <1>b DEF DryRunBegun, SetStep
<1>4. CASE MutationBegun
  <2>1. PICK s \in Steps : /\ s \notin spent /\ UNCHANGED spent
                           /\ wk'.pc = "mut_gate" /\ wk'.s = s
                           /\ step' = [step EXCEPT ![s] = Attempt(step[s], "mutation_running")]
    BY <1>4, <1>b DEF MutationBegun, SetStep
  <2>2. step'[s].state = "mutation_running" /\ \A t \in Steps \ {s} : step'[t] = step[t]
    BY <1>a, <2>1, AttemptTyped DEF StepState
  <2> QED
    BY <1>a, <2>1, <2>2
<1>5. CASE Settled
  BY <1>5, <1>a DEF Settled, SetStep, HoldPcs
<1>6. CASE MutationCalled
  <2>1. wk'.pc = "mut_call"
    BY <1>6 DEF MutationCalled, TypeOK, WorkerRecord
  <2> QED
    BY <1>6, <1>a, <2>1 DEF MutationCalled, store, SpentStates
<1>7. CASE StepsCancelled
  <2>1. \A s \in spent : step'[s].state \in {"mutation_succeeded", "cancelled"}
    BY <1>7, <1>a DEF StepsCancelled, StepRecord, SpentStates
  <2> QED
    BY <1>7, <2>1 DEF StepsCancelled, SpentStates
<1>8. CASE Client
  <2>1. CASE Untouched
    BY <2>1 DEF Untouched, Unstirred
  <2>2. CASE Instructed
    <3>1. AwaitsDecision
      BY <2>2 DEF Instructed, DecisionInv, RequestFits, Waking, InstructionFits, AwaitsDecision
    <3>2. wk'.pc \notin {"dry_call", "mut_gate"}
      BY <2>2, <3>1 DEF Instructed, Unstirred, DecisionInv, Resting, DownPcs
    <3>3. \A s \in spent' : s \in spent /\ step'[s] = step[s]
      BY <2>2, <1>a DEF Instructed, SetStep
    <3> QED
      BY <3>2, <3>3
  <2> QED
    BY <1>8, <2>1, <2>2, ClientEffects
<1>9. CASE Crash \/ Restart
  BY <1>9, <1>a, ProcessEffects DEF Recovered, SpentStates, DownPcs
<1>10. CASE UNCHANGED vars
  BY <1>10 DEF vars, store
<1> QED
  BY <1>1, <1>2, <1>3, <1>4, <1>5, <1>6, <1>7, <1>8, <1>9, <1>10, WorkerEffects DEF Next

\* A spent step is always in a state the selector refuses.
LEMMA SpentInvariant == Spec => []SpentInv
<1>1. Init => SpentInv
  BY DEF Init, SpentInv, At
<1> QED
  BY <1>1, SpentStep, TypeCorrect, DecisionIsQuiet, PTL DEF Spec

\* No mutation is replayed: a step whose mutation was sent is not selected
\* again, whatever crashed in between, until an instruction changed it.
THEOREM NoMutationIsReplayed == Spec => []NoReplay
<1>1. SpentInv => NoReplay
  BY DEF SpentInv, SpentStates, NoReplay, MutableSteps
<1> QED
  BY <1>1, SpentInvariant, PTL

-----------------------------------------------------------------------------
(* Effects of the worker's actions on the stored job and the queue.        *)

\* States from which a mutation may follow.
Approved == {"awaiting_human_approval", "executing"}
Mutate   == {"mut_gate", "mut_call"}

\* The turn goes on and saves no job.
Going ==
    /\ Handling \/ (wk.pc = "dispatch" /\ wk.job.state \in Working)
    /\ Handling' /\ wk'.job.state = wk.job.state
    /\ wk'.pc \in Mutate => wk.pc \in Mutate \/ wk.job.state = "executing"
    /\ lock' = lock \/ lock' = TRUE
    /\ UNCHANGED <<job, entries, noted, overtaken, flags, api, crashes>>

\* The turn ends with a save of the job: requeued while there is work, and
\* without the lock when there is none.
Saved ==
    /\ Handling \/ (wk.pc = "dispatch" /\ wk.job.state \notin Terminal)
    /\ wk.job.state # "decision_required"
    /\ job'.state = wk.job.state \/ TransitionAllowed(wk.job.state, job'.state)
    /\ job'.state = wk.job.state \/ job'.state \notin {"paused", "cancelled"}
    /\ job'.state \in Approved => Executes \/ wk.job.state \in Approved
    /\ wk' = At("requeue") \/ (wk' = At("idle") /\ job'.state \notin Working)
    /\ job'.state \notin Working => ~lock' \/ (Handling /\ job'.state = wk.job.state)
    /\ UNCHANGED <<entries, noted, overtaken, flags, api, crashes>>

\* The turn ends without a save.
Passed ==
    /\ wk.pc = "dispatch"
    /\ wk' = IF wk.job.state \in Working THEN At("requeue") ELSE At("idle")
    /\ UNCHANGED <<job, step, entries, noted, overtaken, lock, flags, api, crashes>>

\* A flag is obeyed.
FlagTaken ==
    /\ flags # {} \/ wk.pc = "cancel"
    /\ \/ UNCHANGED job /\ (wk' = At("idle") \/ wk' = At("off"))
       \/ /\ wk.pc = "dispatch"
          /\ job'.state \in {"paused", "cancelled"}
          /\ TransitionAllowed(wk.job.state, job'.state)
          /\ wk' = At("idle") \/ wk' = At("cancel")
    /\ wk.pc = "cancel" \/ UNCHANGED step
    /\ UNCHANGED <<entries, noted, overtaken, api, crashes>>

\* What a worker step does to the stored job is one of seven things.
LEMMA WorkerTurns ==
  ASSUME TypeOK, DecisionInv, Worker
  PROVE  Dequeue \/ ReadJob \/ Requeue \/ Going \/ Saved \/ Passed \/ FlagTaken
<1>a. wk \in WorkerRecord /\ wk.job \in JobCopy /\ job \in JobCopy
      /\ lock \in BOOLEAN
  BY DEF TypeOK, WorkerRecord
<1>b. \A st : Transition(st) => job'.state = st /\ TransitionAllowed(wk.job.state, st)
  BY <1>a DEF Transition, InState, JobCopy
<1> USE DEF deque
<1>c. /\ EndTurn(TRUE) => wk' = At("requeue") /\ UNCHANGED <<entries, noted, overtaken>>
      /\ EndTurn(FALSE) => wk' = At("idle") /\ UNCHANGED <<entries, noted, overtaken>>
  BY DEF EndTurn
<1>d. /\ \A pc : GoOn(pc) => wk'.pc = pc /\ wk'.job.state = wk.job.state /\ UNCHANGED <<entries, noted, overtaken>>
      /\ DecideOnJob => wk'.pc = "decide_job" /\ wk'.job.state = wk.job.state /\ UNCHANGED <<entries, noted, overtaken>>
  BY DEF DecideOnJob, GoOn, At
<1>e. \A s, r : DecideOn(s, r) => wk'.pc = "decide" /\ wk'.job.state = wk.job.state /\ UNCHANGED <<entries, noted, overtaken>>
  BY <1>a DEF DecideOn, WorkerRecord
<1>f. Handling => wk.job.state # "decision_required"
  BY DEF DecisionInv
<1> USE DEF WorkerFrame, store, client, Handling, StepPcs, Working, Approved, Mutate, Terminal
<1>1. CASE Dequeue \/ ReadJob \/ Requeue
  BY <1>1
<1>2. CASE AcceptQueued
  BY <1>2, <1>b, <1>c DEF AcceptQueued, Dispatching, Saved
<1>3. CASE ValidateRuntimePlan
  BY <1>3, <1>b, <1>c, <1>d DEF ValidateRuntimePlan, Dispatching, Saved, Going
<1>4. CASE StartDryRun
  BY <1>4, <1>b, <1>c, <1>d DEF StartDryRun, LockGranted, LockRefused, Dispatching, Saved, Going
<1>5. CASE CompleteEmptyPhase \/ NoRunnableStep \/ ScheduleWait \/ InstructionNeeded
  BY <1>5, <1>d, <1>e DEF CompleteEmptyPhase, NoRunnableStep, ScheduleWait, InstructionNeeded,
     DryRunTurn, Dispatching, Going
<1>6. CASE FinishDryRuns
  <2>1. /\ job'.state = "completed" \/ (job'.state = "awaiting_human_approval" /\ Executes)
        /\ TransitionAllowed(wk.job.state, job'.state)
        /\ wk' \in {At("idle"), At("requeue")} /\ UNCHANGED <<entries, noted, overtaken>>
    <3>1. CASE Executes /\ NextMutationStep # NoStep
      <4>1. /\ job' = [state |-> "awaiting_human_approval", satisfied |-> TRUE] /\ EndTurn(TRUE)
            /\ TransitionAllowed(wk.job.state, "awaiting_human_approval")
        BY <1>6, <3>1 DEF FinishDryRuns
      <4> QED
        BY <1>c, <3>1, <4>1
    <3>2. CASE ~(Executes /\ NextMutationStep # NoStep)
      BY <1>6, <1>b, <1>c, <3>2 DEF FinishDryRuns
    <3> QED
      BY <3>1, <3>2
  <2> QED
    BY <1>6, <2>1 DEF FinishDryRuns, DryRunTurn, Dispatching, Saved
<1>7. CASE WaitScheduled
  BY <1>7, <1>b, <1>c, <1>f DEF WaitScheduled, Saved
<1>8. CASE CompleteMechanicalStep \/ BeginDryRun
  <2>1. wk'.pc \in {"commit", "dry_call"} /\ wk'.job.state = wk.job.state
    BY <1>8, <1>a DEF CompleteMechanicalStep, BeginDryRun, WorkerRecord
  <2> QED
    BY <1>8, <2>1 DEF CompleteMechanicalStep, BeginDryRun, DryRunTurn, Dispatching, Going
<1>9. CASE DryRunSucceeds
  <2>1. wk'.pc = "commit" /\ wk'.job.state = wk.job.state
    BY <1>9, <1>a DEF DryRunSucceeds, WorkerRecord, JobCopy
  <2> QED
    BY <1>9, <2>1 DEF DryRunSucceeds, Going
<1>10. CASE DryRunFails \/ Commit \/ DecideStep
  BY <1>10, <1>d, <1>e DEF DryRunFails, Commit, DecideStep, Going
<1>11. CASE SaveJob
  BY <1>11, <1>c, <1>f DEF SaveJob, Saved
<1>12. CASE DecideJob
  BY <1>12, <1>b, <1>c, <1>f DEF DecideJob, Saved
<1>13. CASE AwaitHumanApproval
  BY <1>13, <1>b, <1>c DEF AwaitHumanApproval, Dispatching, Saved, Passed
<1>14. CASE NoMutationLeft
  BY <1>14, <1>b, <1>c, <1>e DEF NoMutationLeft, Dispatching, Saved, Going
<1>15. CASE MutationExecutorMissing
  BY <1>15, <1>e DEF MutationExecutorMissing, Dispatching, Going
<1>16. CASE BeginMutation
  <2>1. wk'.pc \in {"mut_gate", "decide_job"} /\ wk'.job.state = wk.job.state
        /\ UNCHANGED <<job, entries, noted, overtaken>> /\ (lock' = lock \/ lock' = TRUE)
    BY <1>16, <1>a, <1>d DEF BeginMutation, LockGranted, LockRefused, WorkerRecord
  <2> QED
    BY <1>16, <2>1 DEF BeginMutation, Dispatching, Going
<1>17. CASE MutationCalled
  <2>1. wk'.pc = "mut_call" /\ wk'.job.state = wk.job.state
    BY <1>17, <1>a DEF MutationCalled, WorkerRecord
  <2> QED
    BY <1>17, <2>1 DEF MutationCalled, Going
<1>18. CASE MutationBlocked \/ MutationExcluded \/ MutationReturns
  <2>1. FailMutation \/ SucceedMutation => /\ wk'.pc \in {"decide", "commit"}
                                           /\ wk'.job.state = wk.job.state /\ UNCHANGED <<entries, noted, overtaken>>
    BY <1>a, <1>e DEF FailMutation, SucceedMutation, WorkerRecord
  <2> QED
    BY <1>18, <2>1 DEF MutationBlocked, MutationExcluded, MutationReturns, Going
<1>19. CASE WaitPending \/ NotRunnable
  BY <1>19, <1>c DEF WaitPending, NotRunnable, Dispatching, Passed
<1>20. CASE WaitTimesOut \/ DecideFromState
  BY <1>20, <1>d, <1>e DEF WaitTimesOut, DecideFromState, Dispatching, Going
<1>21. CASE CancelFlagged
  <2>1. job'.state = "cancelled" /\ wk' = At("cancel") /\ UNCHANGED <<step, entries, noted, overtaken, api, crashes>>
        /\ wk.pc = "dispatch" /\ flags # {} /\ TransitionAllowed(wk.job.state, "cancelled")
    BY <1>21, <1>a DEF CancelFlagged, TakeFlag, InState, JobCopy
  <2> QED
    BY <2>1 DEF FlagTaken
<1>22. CASE CancelSteps
  BY <1>22, <1>c DEF CancelSteps, FlagTaken
<1>23. CASE PauseFlagged
  BY <1>23, <1>b, <1>c DEF PauseFlagged, TakeFlag, FlagTaken
<1>24. CASE FlagRaises
  BY <1>24 DEF FlagRaises, TakeFlag, FlagTaken
<1> QED
  BY <1>1, <1>2, <1>3, <1>4, <1>5, <1>6, <1>7, <1>8, <1>9, <1>10, <1>11, <1>12, <1>13, <1>14,
     <1>15, <1>16, <1>17, <1>18, <1>19, <1>20, <1>21, <1>22, <1>23, <1>24 DEF Worker

-----------------------------------------------------------------------------
(* The deque and the set of ids.                                           *)

\* An id is noted without an entry only if its enqueue was overtaken.
DequeInv == noted /\ entries = 0 => overtaken

\* The worker discards the id with the entry, an enqueue that is not overtaken
\* adds both, and a crash empties both.
LEMMA DequeStep == TypeOK /\ DequeInv /\ [Next]_vars => DequeInv'
<1> SUFFICES ASSUME TypeOK, DequeInv, [Next]_vars PROVE DequeInv'
  OBVIOUS
<1>a. entries \in Nat
  BY DEF TypeOK
<1>b. UNCHANGED <<entries, noted, overtaken>> => DequeInv'
  BY DEF DequeInv
<1>c. Enqueue => DequeInv'
  BY <1>a DEF Enqueue, DequeInv
<1>1. CASE Worker
  <2>1. Dequeue \/ Requeue \/ UNCHANGED deque
    BY <1>1 DEF Worker, ReadJob, AcceptQueued, ValidateRuntimePlan, StartDryRun, LockRefused,
       CompleteEmptyPhase, NoRunnableStep, FinishDryRuns, ScheduleWait, WaitScheduled,
       CompleteMechanicalStep, InstructionNeeded, BeginDryRun, DryRunSucceeds, DryRunFails,
       Commit, SaveJob, DecideStep, DecideJob, AwaitHumanApproval, NoMutationLeft,
       MutationExecutorMissing, BeginMutation, MutationBlocked, MutationExcluded,
       MutationCalled, MutationReturns, FailMutation, SucceedMutation, WaitPending,
       WaitTimesOut, DecideFromState, NotRunnable, CancelFlagged, CancelSteps, PauseFlagged,
       FlagRaises, EndTurn, DecideOn, DecideOnJob, GoOn
  <2>2. Dequeue => DequeInv'
    BY DEF Dequeue, DequeInv
  <2> QED
    BY <1>b, <1>c, <2>1, <2>2 DEF Requeue, deque
<1>2. CASE Client
  <2>1. CASE AppendEntry
    BY <2>1 DEF AppendEntry, DequeInv
  <2>2. CASE NoteId
    BY <2>2 DEF NoteId, DequeInv
  <2>3. CASE ~(AppendEntry \/ NoteId)
    <3>1. UNCHANGED deque
      BY <1>2, <2>3 DEF Client, RequestTransition, RequestStart, RequestInstruction, RequestFlag,
         Approve, Read, Receive, ApiWrite, WriteTransition, WriteApproved, SaveCopy, SetFlag,
         StoreInstruction, ApplyToStep, ApplyToJob, FindIdNoted, EnsureWorker, ExpireApproval
    <3> QED
      BY <1>b, <3>1 DEF deque
  <2> QED
    BY <2>1, <2>2, <2>3
<1>3. CASE Crash \/ Restart
  BY <1>3, <1>b, <1>c DEF Crash, Restart, RestartRetryable, RestartUnknownMutation,
     RestartDecide, RestartRehydrate, DequeInv, deque
<1>4. CASE UNCHANGED vars
  BY <1>4, <1>b DEF vars, deque
<1> QED
  BY <1>1, <1>2, <1>3, <1>4 DEF Next

\* So it is along every behaviour, whatever the clients do.
LEMMA DequeInvariant == Spec => []DequeInv
<1>1. Init => DequeInv
  BY DEF Init, DequeInv
<1> QED
  BY <1>1, DequeStep, TypeCorrect, PTL DEF Spec

-----------------------------------------------------------------------------
(* Clients that only start a job and answer its questions.                 *)

\* The requests for which the code keeps the stored job consistent: the others
\* save a copy that may be stale.
Guidance == {"start", "continue", "retry", "wait", "skip", "refresh"}
GuidedClients ==
    /\ ApiOps \subseteq Guidance
    /\ "start" \in ApiOps => RunsInBackground

\* What the request in flight may rely on.
RequestInv ==
    /\ wk.pc \in DownPcs => api.op = NoApi
    /\ api.at \in {"step", "job"} => ~AppliesNothing

\* The worker's copy is the stored job, save that a turn may have begun when the
\* job awaited the decision that is given now.
CopyInv ==
    /\ flags = {} /\ wk.pc # "cancel"
    /\ job.state \notin {"paused", "cancelled"}
    /\ Handling => wk.job.state = job.state /\ job.state \in Working
    /\ wk.pc = "dispatch" => wk.job.state \in {job.state, "decision_required"}
    /\ wk.pc \in {"recover", "recover_next"} => job.state \in {wk.job.state, "decision_required"}

\* Somebody will take the work on, or nobody can: the id is noted for good.
Attended == \/ entries > 0 \/ (overtaken /\ noted) \/ api.at = "wake"
            \/ Handling \/ wk.pc \in {"read", "requeue"}
            \/ wk.pc = "dispatch" /\ wk.job.state = job.state

\* The lock is held and the job is attended only as long as there is work.
WorkInv ==
    /\ lock => job.state \in Working /\ wk.pc \notin DownPcs
    /\ job.state \in Working /\ wk.pc \notin DownPcs => Attended

\* The three together.
GuidedInv == RequestInv /\ CopyInv /\ WorkInv

\* The stored state moves along the table or stays.
Moves == job'.state = job.state \/ TransitionAllowed(job.state, job'.state)

\* A turn keeps the worker's copy, the queue and the lock in step with the stored
\* job, and saves only what the table allows.
LEMMA GuidedWorkerStep ==
  ASSUME TypeOK, DecisionInv, DequeInv, GuidedInv, Worker
  PROVE  GuidedInv' /\ Moves
<1>a. wk \in WorkerRecord /\ wk.job \in JobCopy /\ job \in JobCopy
  BY DEF TypeOK, WorkerRecord
<1>b. At("idle").pc = "idle" /\ At("requeue").pc = "requeue"
  BY DEF At
<1>c. UNCHANGED api => AppliesNothing' = AppliesNothing
  BY DEF AppliesNothing, Resumes
<1> USE DEF GuidedInv, RequestInv, CopyInv, WorkInv, Attended, Moves, Handling, StepPcs, DownPcs
<1>7. CASE Dequeue
  <2>1. wk.pc = "idle" /\ wk'.pc = "read" /\ UNCHANGED <<job, api, flags, lock>>
    BY <1>7 DEF Dequeue, At, store, client
  <2> QED
    BY <1>c, <2>1
<1>1. CASE ReadJob
  <2>1. /\ wk'.pc = "dispatch" /\ wk'.job = job /\ wk.pc = "read"
        /\ UNCHANGED <<job, api, flags, lock>>
    BY <1>1 DEF ReadJob, At, store, client
  <2> QED
    BY <1>c, <2>1
<1>6. CASE Requeue
  <2>1. wk.pc = "requeue" /\ wk'.pc = "idle" /\ UNCHANGED <<job, api, flags, lock>>
    BY <1>6, <1>b DEF Requeue, store, client
  <2>2. entries' > 0 \/ (overtaken' /\ noted')
    BY <1>6 DEF Requeue, Enqueue, DequeInv, TypeOK
  <2> QED
    BY <1>c, <2>1, <2>2
<1>2. CASE Going
  <2>1. wk.job.state = job.state /\ job.state \in Working
    BY <1>2 DEF Going, Working
  <2> QED
    BY <1>2, <1>c, <2>1 DEF Going
<1>3. CASE Saved
  <2>1. wk.job.state = job.state
    BY <1>3 DEF Saved
  <2>2. Handling => job.state \in Working
    OBVIOUS
  <2> QED
    BY <1>3, <1>b, <1>c, <2>1, <2>2 DEF Saved
<1>4. CASE Passed
  <2>1. job.state \in Working /\ wk.job.state # job.state =>
          entries > 0 \/ (overtaken /\ noted) \/ api.at = "wake"
    BY <1>4 DEF Passed
  <2>2. job.state \in Working =>
          entries > 0 \/ (overtaken /\ noted) \/ api.at = "wake" \/ wk' = At("requeue")
    BY <1>4, <2>1 DEF Passed
  <2> QED
    BY <1>4, <1>b, <1>c, <2>2 DEF Passed
<1>5. CASE FlagTaken
  BY <1>5 DEF FlagTaken
<1> QED
  BY <1>1, <1>2, <1>3, <1>4, <1>5, <1>6, <1>7, WorkerTurns

\* A request rewrites the job only while the worker rests on a decision.
LEMMA GuidedClientStep ==
  ASSUME GuidedClients, TypeOK, DecisionInv, DequeInv, GuidedInv, Client
  PROVE  GuidedInv' /\ Moves
<1>a. /\ api \in ApiRecord /\ api.op \in Guidance \cup {NoApi} /\ api.job \in JobCopy
      /\ api.op = "start" => RunsInBackground
      /\ NoRequest.op = NoApi /\ NoRequest.at = "store"
      /\ entries \in Nat
  BY DEF TypeOK, ApiRecord, GuidedClients, NoRequest, NoApi
<1>b. NoApi \notin Instructions
  BY DEF NoApi, Instructions
<1> USE DEF GuidedInv, RequestInv, CopyInv, WorkInv, Attended, Moves, Handling, StepPcs, DownPcs
<1>w. \A op : ToWake(op).op = op /\ ToWake(op).at = "wake"
  BY DEF ToWake, NoRequest
<1>1. ASSUME NEW request, Receive(request), request.at \in {"store", "wake"}
      PROVE  GuidedInv' /\ Moves
  <2>1. /\ api'.at \in {"store", "wake"} /\ wk.pc \notin DownPcs /\ api.at = "store"
        /\ UNCHANGED <<job, entries, noted, overtaken, flags, lock, wk>>
    BY <1>1 DEF Receive, store, deque, DecisionInv, RequestFits
  <2> QED
    BY <2>1
<1>r. \A op, t : Read(op, t) => GuidedInv' /\ Moves
  BY <1>1 DEF Read
<1>9. CASE RequestStart
  BY <1>1, <1>9, <1>w DEF RequestStart
<1>2. ASSUME UNCHANGED <<job, flags, lock, api>>, UNCHANGED deque, UNCHANGED wk
      PROVE GuidedInv' /\ Moves
  BY <1>2 DEF AppliesNothing, Resumes, deque
<1>4. CASE WriteTransition \/ WriteApproved \/ SetFlag
  BY <1>4, <1>a DEF WriteTransition, WriteApproved, SetFlag, Guidance, Transitions, FlagOps, NoApi
<1>i. \A at : Instructing(at) => api.at = at /\ api.op # NoApi
  BY <1>b DEF Instructing
<1>p. ProceedToWake => api'.at = "wake"
  BY <1>w DEF ProceedToWake
<1>q. \A at : Proceed(at) => api'.op = api.op /\ api'.job = api.job /\ api'.at = at
  BY <1>a DEF Proceed, ApiRecord
<1>3. CASE AppendEntry
  <2>1. /\ entries' > 0 /\ api.at = "wake" /\ api'.at = "add" /\ api.op # NoApi
        /\ UNCHANGED <<job, flags, lock, wk>>
    BY <1>3, <1>a, <1>q DEF AppendEntry, store, DecisionInv, RequestFits
  <2> QED
    BY <2>1
<1>5. CASE NoteId \/ FindIdNoted
  <2>1. UNCHANGED <<job, flags, lock, wk, entries>> /\ api.op # NoApi
    BY <1>5, <1>a DEF NoteId, FindIdNoted, store, deque, DecisionInv, RequestFits
  <2>2. \/ api'.op = NoApi /\ api'.at = "store"
        \/ api'.op = api.op /\ api'.at = "ensure"
    BY <1>5, <1>a, <1>q DEF NoteId, FindIdNoted, Enqueued, Answered
  <2>3. overtaken /\ noted => overtaken' /\ noted'
    BY <1>5 DEF NoteId, FindIdNoted, deque
  <2>4. api.at = "wake" => entries' > 0 \/ (overtaken' /\ noted')
    BY <1>5, <1>a DEF NoteId, FindIdNoted, DequeInv, deque
  <2> QED
    BY <2>1, <2>2, <2>3, <2>4
<1>10. CASE EnsureWorker
  <2>1. wk' = wk \/ (wk.pc = "off" /\ wk'.pc = "idle")
    BY <1>10 DEF EnsureWorker, At
  <2>2. /\ UNCHANGED <<job, flags, lock, entries, noted, overtaken>>
        /\ api'.op = NoApi /\ api'.at = "store" /\ api.at = "ensure"
    BY <1>10, <1>a DEF EnsureWorker, Answered, store, deque
  <2> QED
    BY <2>1, <2>2
<1>6. CASE StoreInstruction \/ ApplyToStep
  <2>1. /\ UNCHANGED <<job, entries, noted, overtaken, flags, lock, wk>>
        /\ api.at # "wake" /\ api.op # NoApi
    BY <1>6, <1>i DEF StoreInstruction, ApplyToStep, store, deque
  <2>2. CASE api'.at = "wake"
    BY <2>1, <2>2
  <2>3. CASE ~AppliesNothing /\ \E at \in {"step", "job"} : Proceed(at)
    <3>1. api'.op = api.op /\ api'.job = api.job /\ api'.at \in {"step", "job"}
      BY <2>3, <1>q
    <3>2. ~AppliesNothing'
      BY <2>3, <3>1 DEF AppliesNothing, Resumes
    <3> QED
      BY <2>1, <3>1, <3>2
  <2> QED
    BY <1>6, <1>i, <1>p, <2>2, <2>3 DEF StoreInstruction, ApplyToStep
<1>7. CASE ApplyToJob
  <2>1. /\ UNCHANGED <<entries, noted, overtaken, flags, lock, wk>>
        /\ api'.at = "wake" /\ Instructing("job") /\ ~AppliesNothing
        /\ job'.state = AppliedState
    BY <1>7, <1>a, <1>p DEF ApplyToJob, Instructing, InState, JobCopy, deque
  <2>2. api.op \in {"continue", "retry", "skip"} /\ (Resumes \/ api.op = "skip")
    BY <2>1, <1>a, <1>b DEF AppliesNothing, Resumes, Guidance, Instructing, Instructions
  <2>3. api.job.state = "decision_required"
    BY <2>1, <2>2 DEF Instructing, DecisionInv, RequestFits, Waking, InstructionFits, Resumes
  <2>4. job.state = "decision_required" /\ ~Handling /\ wk.pc \notin DownPcs
        /\ (wk.pc = "dispatch" => wk.job.state = "decision_required")
    BY <2>1, <2>2, <2>3, <1>b
       DEF Instructing, DecisionInv, AwaitsDecision, Quiescent, Resting, NoApi
  <2>5. job'.state \in {"executing", "dry_run_ready"}
    BY <2>1, <2>2 DEF AppliedState
  <2>6. TransitionAllowed(job.state, job'.state) /\ job'.state \in Working
    BY <2>4, <2>5 DEF TransitionAllowed, AllowedTransitions, JobState, Working
  <2>7. ~lock
    BY <2>4 DEF Working
  <2> QED
    BY <2>1, <2>4, <2>5, <2>6, <2>7
<1>8. ASSUME NEW a \in ApprovalScopes, ExpireApproval(a) PROVE GuidedInv' /\ Moves
  BY <1>2, <1>8 DEF ExpireApproval, store, client
<1> QED
  BY <1>r, <1>3, <1>4, <1>5, <1>6, <1>7, <1>8, <1>9, <1>10
     DEF Client, ApiWrite, RequestTransition, RequestInstruction, RequestFlag, Approve

\* After a crash the recovery puts work in progress back into the queue.
LEMMA GuidedProcessStep ==
  ASSUME TypeOK, DequeInv, GuidedInv, Crash \/ Restart
  PROVE  GuidedInv' /\ Moves
<1>a. /\ wk \in WorkerRecord /\ wk.job \in JobCopy /\ job \in JobCopy
      /\ NoRequest.op = NoApi /\ NoRequest.at = "store"
  BY DEF TypeOK, WorkerRecord, NoRequest
<1>b. /\ \A st : InState(job, st).state = st /\ InState(wk.job, st).state = st
      /\ \A pc : At(pc).pc = pc
      /\ \A added : StartService(added) => wk'.pc \in {"off", "idle"}
      /\ \A pc, j : [At(pc) EXCEPT !.job = j].pc = pc /\ [At(pc) EXCEPT !.job = j].job = j
  BY <1>a DEF InState, JobCopy, At, StartService
<1> USE DEF GuidedInv, RequestInv, CopyInv, WorkInv, Attended, Moves, Handling, StepPcs, DownPcs
<1>1. CASE Crash
  BY <1>1, <1>a, <1>b DEF Crash, Answered, store
<1>2. ASSUME Restart PROVE /\ UNCHANGED <<flags, lock, api>> /\ wk.pc \in DownPcs
  BY <1>2 DEF Restart, RestartRetryable, RestartUnknownMutation, RestartDecide, RestartRehydrate,
     RestartFrame, client
<1>3. UNCHANGED api => AppliesNothing' = AppliesNothing
  BY DEF AppliesNothing, Resumes
<1>e. Enqueue => entries' > 0 \/ (overtaken' /\ noted')
  BY DEF Enqueue, DequeInv, TypeOK
<1>4. CASE RestartRetryable
  <2>1. /\ UNCHANGED job
        /\ UNCHANGED <<deque, wk>> \/ (Enqueue /\ wk'.pc \in {"off", "idle"})
    BY <1>4, <1>b DEF RestartRetryable
  <2> QED
    BY <1>2, <1>3, <1>4, <1>e, <2>1 DEF Restart
<1>5. CASE RestartUnknownMutation
  <2>1. UNCHANGED job /\ wk'.pc = "recover" /\ wk'.job \in {job, wk.job}
        /\ (wk.pc = "down" => wk'.job = job) /\ (wk.pc # "down" => wk.pc = "recover_next" /\ wk'.job = wk.job)
    BY <1>5, <1>b DEF RestartUnknownMutation
  <2> QED
    BY <1>2, <1>3, <1>5, <2>1 DEF Restart
<1>6. CASE RestartDecide
  <2>1. UNCHANGED <<flags, lock, api>> /\ wk.pc = "recover" /\ UNCHANGED deque
    BY <1>2, <1>6 DEF Restart, RestartDecide
  <2>2. CASE TransitionAllowed(wk.job.state, "decision_required")
    <3>1. job'.state = "decision_required"
      BY <1>6, <1>b, <2>2 DEF RestartDecide
    <3>2. wk'.pc \in {"off", "idle"} \/ (wk'.pc = "recover_next" /\ wk'.job = wk.job)
      <4>1. StartService(FALSE) \/ wk' = [At("recover_next") EXCEPT !.job = wk.job]
        BY <1>6, <2>2 DEF RestartDecide
      <4> QED
        BY <4>1 DEF StartService, At
    <3> QED
      BY <1>3, <2>1, <2>2, <3>1, <3>2 DEF Working
  <2>3. CASE ~TransitionAllowed(wk.job.state, "decision_required")
    <3>1. wk'.pc = "down" /\ UNCHANGED job
      BY <1>6, <1>b, <2>3 DEF RestartDecide
    <3> QED
      BY <1>3, <2>1, <3>1
  <2> QED
    BY <2>2, <2>3
<1>7. CASE RestartRehydrate
  <2>1. /\ job' = job \/ (TransitionAllowed(job.state, "completed") /\ job'.state = "completed")
        /\ job'.state \in RunnableStates => Enqueue
        /\ wk'.pc \in {"off", "idle"}
    BY <1>7, <1>b DEF RestartRehydrate
  <2>2. Working \subseteq RunnableStates /\ "completed" \notin Working
    BY DEF Working, RunnableStates
  <2>3. UNCHANGED <<flags, lock, api>> /\ wk.pc = "down"
    BY <1>2, <1>7 DEF Restart, RestartRehydrate
  <2> QED
    BY <1>3, <1>e, <2>1, <2>2, <2>3
<1> QED
  BY <1>1, <1>4, <1>5, <1>6, <1>7 DEF Restart

\* The worker's copy, the queue and the lock agree with the stored job, and the
\* stored job moves along the table.
LEMMA GuidedInvariant ==
  ASSUME GuidedClients
  PROVE  Spec => [](GuidedInv /\ DecisionInv /\ DequeInv /\ TypeOK) /\ LifecycleSpec
<1>1. Init => GuidedInv
  BY DEF Init, GuidedInv, RequestInv, CopyInv, WorkInv, Attended, Handling, StepPcs, DownPcs, At,
     NewJob, NoRequest, Working
<1>2. ASSUME TypeOK, DecisionInv, DequeInv, GuidedInv, [Next]_vars
      PROVE  GuidedInv' /\ Moves
  <2>1. CASE UNCHANGED vars
    BY <1>2, <2>1 DEF vars, store, deque, client, GuidedInv, RequestInv, CopyInv, WorkInv, Attended,
       Moves, Handling, AppliesNothing, Resumes
  <2> QED
    BY <1>2, <2>1, GuidedWorkerStep, GuidedClientStep, GuidedProcessStep DEF Next
<1>3. Init => Lifecycle!Init
  BY DEF Init, NewJob, Lifecycle!Init
<1>4. Moves => [Lifecycle!Next]_(job.state)
  BY DEF Moves, TransitionAllowed, Lifecycle!Next, Lifecycle!AllowedTransitions, Lifecycle!JobState,
     AllowedTransitions, JobState
<1>5. TypeOK /\ DecisionInv /\ DequeInv /\ GuidedInv /\ [Next]_vars => GuidedInv' /\ [Lifecycle!Next]_(job.state)
  BY <1>2, <1>4
<1> QED
  BY <1>1, <1>3, <1>5, TypeCorrect, DecisionIsQuiet, DequeInvariant, PTL DEF Spec, LifecycleSpec, Lifecycle!Spec

\* Whatever the turns, requests, crashes and recoveries do, the stored job moves
\* along the transition table of JobLifecycle or stays, when clients only start
\* jobs and answer the worker's questions.
THEOREM LifecycleIsKept ==
  ASSUME GuidedClients
  PROVE  Spec => LifecycleSpec
  BY GuidedInvariant, PTL

\* A wakeup is lost in one way only: for these clients work in progress is in the
\* worker's hands, in its queue, or about to be queued by the request that set it
\* going, unless the worker dequeued the job in the middle of an enqueue; and an id
\* without an entry comes of that alone.
THEOREM WakeupsLostOnlyIfOvertaken ==
  ASSUME GuidedClients
  PROVE  Spec => []LostOnlyIfOvertaken
<1>1. GuidedInv /\ DequeInv => LostOnlyIfOvertaken
  BY DEF GuidedInv, WorkInv, Attended, DequeInv, LostOnlyIfOvertaken, NoLostWakeup, WorkerBusy,
     Handling, StepPcs, DownPcs
<1> QED
  BY <1>1, GuidedInvariant, PTL

\* The namespace lock is released: for these clients a job that is not in progress
\* holds no lock, since each turn that stops the work releases it first.
THEOREM RestIsUnlocked ==
  ASSUME GuidedClients
  PROVE  Spec => []RestingUnlocked
<1>1. GuidedInv => RestingUnlocked
  BY DEF GuidedInv, WorkInv, RestingUnlocked
<1> QED
  BY <1>1, GuidedInvariant, PTL

-----------------------------------------------------------------------------
(* A mode that does not execute.                                           *)

\* A mode that does not execute, and clients that do not resume: a resumed job is
\* put in the executing state whatever its mode is.
ReadOnlyClients == Mode # "execute_after_approval" /\ "resume" \notin ApiOps

\* No copy of the job is in a state from which a mutation is begun.
ReadOnlyInv ==
    /\ {job.state, wk.job.state, api.job.state} \cap Approved = {}
    /\ Handling => wk.job.state \in Working
    /\ wk.pc \notin Mutate
    /\ \A s \in Steps : calls[s] = 0

\* The copy of the job a request holds: the one it read, or a new one when it
\* has nothing (left) to save.
LEMMA CopyInFlight ==
  ASSUME TypeOK
  PROVE  /\ NoRequest.job.state = "created"
         /\ \A op : ToWake(op).job.state = "created"
         /\ ProceedToWake => api'.job.state = "created"
         /\ \A at : Proceed(at) => api'.job = api.job
<1>1. NoRequest.job.state = "created"
  BY DEF NoRequest, NewJob
<1>2. \A op : ToWake(op).job.state = "created"
  BY DEF ToWake, NoRequest, NewJob
<1>3. \A at : Proceed(at) => api'.job = api.job
  BY DEF TypeOK, Proceed, ApiRecord
<1> QED
  BY <1>1, <1>2, <1>3 DEF ProceedToWake

\* No step of a non-executing mode reaches a state a mutation starts from.
LEMMA ReadOnlyStep ==
  ASSUME ReadOnlyClients, TypeOK, DecisionInv, ReadOnlyInv, [Next]_vars
  PROVE  ReadOnlyInv'
<1>a. /\ wk \in WorkerRecord /\ wk.job \in JobCopy /\ job \in JobCopy
      /\ api \in ApiRecord /\ api.job \in JobCopy /\ api.op \in ApiOps \cup {NoApi}
      /\ \A st : InState(api.job, st).state = st /\ InState(wk.job, st).state = st
                   /\ InState(job, st).state = st
  BY DEF TypeOK, WorkerRecord, ApiRecord, JobCopy, InState
<1>b. \A pc : At(pc).pc = pc /\ At(pc).job.state = "created"
  BY DEF At, NewJob
<1>c. ~Executes
  BY DEF ReadOnlyClients, Executes
<1>d. UNCHANGED calls
  <2>1. ~MutationCalled
    BY DEF MutationCalled, ReadOnlyInv, Mutate
  <2> QED
    BY <2>1, OnlyCallsSpend
<1> USE DEF ReadOnlyInv, Approved, Mutate, Handling, StepPcs
<1>1. CASE Worker
  <2>1. CASE ReadJob
    <3>1. wk'.pc = "dispatch" /\ wk'.job = job /\ UNCHANGED <<job, api>>
      BY <2>1 DEF ReadJob, At, store, client
    <3> QED
      BY <1>d, <3>1
  <2>5. CASE Dequeue \/ Requeue
    BY <1>b, <1>d, <2>5 DEF Dequeue, Requeue, store, client
  <2>2. CASE Going
    BY <1>d, <2>2 DEF Going
  <2>3. CASE Saved
    BY <1>b, <1>c, <1>d, <2>3 DEF Saved
  <2>4. CASE Passed \/ FlagTaken
    BY <1>b, <1>d, <2>4 DEF Passed, FlagTaken
  <2> QED
    BY <1>1, <2>1, <2>2, <2>3, <2>4, <2>5, WorkerTurns
<1>2. CASE Client
  <2>b. /\ Answered => api'.job.state = "created"
        /\ \A op : ToWake(op).job.state = "created"
        /\ ProceedToWake => api'.job.state = "created"
        /\ \A at : Proceed(at) => api'.job = api.job
    BY CopyInFlight DEF Answered
  <2>1. ASSUME NEW op, NEW t, Read(op, t) PROVE ReadOnlyInv'
    BY <1>d, <2>1 DEF Read, Receive, store
  <2>8. CASE RequestStart
    BY <1>d, <2>b, <2>8 DEF RequestStart, Receive, store
  <2>2. CASE WriteTransition
    <3>1. job'.state = TargetState(api.op) /\ UNCHANGED wk
      BY <1>a, <2>2 DEF WriteTransition, SaveCopy
    <3>2. api.op # "resume"
      BY <1>a, <2>2 DEF WriteTransition, Transitions, ReadOnlyClients, NoApi
    <3>3. job'.state \notin Approved
      BY <3>1, <3>2 DEF TargetState
    <3> QED
      BY <1>d, <2>b, <2>2, <3>1, <3>3 DEF WriteTransition, SaveCopy
  <2>3. CASE WriteApproved
    BY <1>d, <2>b, <2>3 DEF WriteApproved, SaveCopy
  <2>4. CASE SetFlag \/ AppendEntry \/ NoteId \/ FindIdNoted \/ EnsureWorker
    BY <1>b, <1>d, <2>b, <2>4 DEF SetFlag, AppendEntry, NoteId, FindIdNoted, Enqueued, EnsureWorker,
       store
  <2>5. CASE StoreInstruction \/ ApplyToStep
    <3>1. api'.job = api.job \/ api'.job.state = "created"
      BY <2>b, <2>5 DEF StoreInstruction, ApplyToStep
    <3> QED
      BY <1>d, <2>5, <3>1 DEF StoreInstruction, ApplyToStep, store
  <2>6. CASE ApplyToJob
    <3>1. api'.job.state = "created" /\ job'.state = AppliedState
      BY <1>a, <2>b, <2>6 DEF ApplyToJob
    <3>2. AppliedState \notin Approved
      BY <1>c DEF AppliedState, ResumesMutation
    <3> QED
      BY <1>d, <2>6, <3>1, <3>2 DEF ApplyToJob
  <2>7. ASSUME NEW x \in ApprovalScopes, ExpireApproval(x) PROVE ReadOnlyInv'
    BY <1>d, <2>7 DEF ExpireApproval, store, client
  <2> QED
    BY <1>2, <2>1, <2>2, <2>3, <2>4, <2>5, <2>6, <2>7, <2>8
       DEF Client, ApiWrite, RequestTransition, RequestInstruction, RequestFlag, Approve
<1>3. CASE Crash \/ Restart
  <2>1. wk'.pc \in DownPcs \cup {"off", "idle"}
    BY <1>3, ProcessEffects
  <2>2. wk'.job.state \in {"created", job.state, wk.job.state}
    <3>1. \A pc : At(pc).job.state = "created"
      BY DEF At, NewJob
    <3>2. \A pc, j : [At(pc) EXCEPT !.job = j].job = j
      BY DEF At
    <3>3. CASE RestartUnknownMutation
      BY <3>2, <3>3 DEF RestartUnknownMutation
    <3>4. CASE RestartDecide
      <4>1. \/ \E pc : wk' = At(pc)
            \/ wk' = [At("recover_next") EXCEPT !.job = wk.job]
        BY <3>4 DEF RestartDecide, StartService
      <4> QED
        BY <4>1 DEF At, NewJob
    <3> QED
      BY <1>3, <3>1, <3>3, <3>4 DEF Crash, Restart, RestartRetryable, RestartRehydrate, StartService
  <2>3. job'.state \in {job.state, "decision_required", "completed"}
    BY <1>3, <1>a DEF Crash, Restart, RestartRetryable, RestartUnknownMutation, RestartDecide,
       RestartRehydrate, store
  <2>4. api' = api \/ api'.job.state = "created"
    <3>1. NoRequest.job.state = "created"
      BY DEF NoRequest, NewJob
    <3> QED
      BY <1>3, <3>1 DEF Crash, Restart, RestartRetryable, RestartUnknownMutation, RestartDecide,
         RestartRehydrate, RestartFrame, client, Answered
  <2> QED
    BY <1>d, <2>1, <2>2, <2>3, <2>4 DEF DownPcs
<1>4. CASE UNCHANGED vars
  BY <1>4 DEF vars, store, client, history
<1> QED
  BY <1>1, <1>2, <1>3, <1>4 DEF Next

\* The approved states stay out of reach.
LEMMA ReadOnlyInvariant ==
  ASSUME ReadOnlyClients
  PROVE  Spec => [](ReadOnlyInv /\ DecisionInv /\ TypeOK)
<1>1. Init => ReadOnlyInv
  BY DEF Init, ReadOnlyInv, Approved, Mutate, Handling, StepPcs, At, NewJob, NoRequest
<1> QED
  BY <1>1, ReadOnlyStep, TypeCorrect, DecisionIsQuiet, PTL DEF Spec

\* A job whose mode does not execute sends no mutation to the cluster, through any
\* crash, instruction or approval: only resuming it could.
THEOREM NothingIsMutated ==
  ASSUME ReadOnlyClients
  PROVE  Spec => []NonExecutingIsReadOnly
<1>1. ReadOnlyInv => NonExecutingIsReadOnly
  BY DEF ReadOnlyInv, NonExecutingIsReadOnly
<1> QED
  BY <1>1, ReadOnlyInvariant, PTL

-----------------------------------------------------------------------------
(* A dry run that completes left no step behind, unless a crash came       *)
(* between the saves of a turn.                                            *)

\* Where every step is: unfinished in the worker's hands, waiting and runnable,
\* or in a state that some turn or some instruction will see.
InHand == {"dry_call", "decide"}
StepsInv ==
    /\ wk.pc \notin DownPcs
    /\ \A s \in Steps : step[s].state \in {"dry_run_running", "dry_run_failed"} =>
                           wk.pc \in InHand /\ wk.s = s
    /\ \A s \in Steps : step[s].state \notin {"mutation_running", "mutation_failed"}
    /\ \A s \in Steps : step[s].state = "waiting" => s \in RunnableSteps(step, phase)
    /\ wk.pc \in InHand => step[wk.s].state \notin DoneStates
    /\ wk.pc \in {"dry_call", "commit"} => phase[PhaseOf[wk.s]] # "completed"

\* A completed job is in nobody's hands.
CompletedInv ==
    /\ job.state = "completed" => \/ wk.pc \in {"off", "idle", "read"}
                                  \/ wk.pc = "dispatch" /\ wk.job.state = "completed"
    /\ api.job.state = "completed" => job.state = "completed"
    /\ CompletedMeansSettled

\* Both hold while nothing has crashed.
SettledInv == crashes = 0 => StepsInv /\ CompletedInv

\* A waiting step stays runnable when no step loses its result and no phase its
\* completion, and its own phase is not completed.
LEMMA StaysRunnable ==
  ASSUME TypeOK, TypeOK', NEW s \in RunnableSteps(step, phase),
         step'[s].state = "waiting",
         \A t \in Steps : step[t].state \in DoneStates => step'[t].state \in DoneStates,
         \A p \in Phases : phase[p] = "completed" => phase'[p] = "completed",
         phase'[PhaseOf[s]] # "completed"
  PROVE  s \in RunnableSteps(step', phase')
<1>1. /\ PhaseOf[s] \in Phases /\ s \in Steps
      /\ StepDeps[s] \subseteq Steps /\ StepPhaseDeps[s] \subseteq Phases
      /\ PhaseDeps[PhaseOf[s]] \subseteq Phases
  BY PlanAssumption DEF RunnableSteps
<1>2. phase'[PhaseOf[s]] \in PhaseState
  BY <1>1 DEF TypeOK
<1> QED
  BY <1>1, <1>2 DEF RunnableSteps, ReadyPhases, DepsDone, PhaseState

\* Turns that touch no step and no phase.
LEMMA QuietTurn ==
  ASSUME StepsInv, UNCHANGED <<step, phase>>, wk.pc \notin InHand,
         wk'.pc \notin DownPcs \cup {"dry_call", "commit"},
         wk'.pc = "decide" => step[wk'.s].state \notin DoneStates
  PROVE  StepsInv'
  BY DEF StepsInv, InHand

\* Turns that take one step on, which was not done before.
LEMMA StepTaken ==
  ASSUME TypeOK, TypeOK', StepsInv, NEW s \in Steps, NEW r \in StepRecord, SetStep(s, r),
         UNCHANGED phase,
         step[s].state \notin DoneStates,
         r.state \notin {"mutation_running", "mutation_failed"},
         r.state = "waiting" => s \in RunnableSteps(step, phase),
         wk.pc \in InHand => wk.s = s,
         wk'.pc \in {"wait", "commit", "dry_call", "decide", "decide_job"},
         wk'.pc \in InHand \cup {"commit"} => wk'.s = s,
         r.state \in {"dry_run_running", "dry_run_failed"} => wk'.pc \in InHand,
         r.state \in DoneStates => wk'.pc \notin InHand,
         wk'.pc \in {"dry_call", "commit"} => phase[PhaseOf[s]] # "completed"
  PROVE  StepsInv'
<1>1. /\ step'[s] = r /\ \A t \in Steps \ {s} : step'[t] = step[t]
      /\ \A t \in Steps : step[t].state \in DoneStates => step'[t].state \in DoneStates
  BY DEF TypeOK, SetStep
<1>2. ASSUME NEW t \in Steps, step'[t].state = "waiting"
      PROVE  t \in RunnableSteps(step', phase')
  <2>1. t \in RunnableSteps(step, phase)
    BY <1>1, <1>2 DEF StepsInv
  <2>2. phase[PhaseOf[t]] # "completed"
    BY <2>1 DEF RunnableSteps, ReadyPhases
  <2> QED
    BY <1>1, <1>2, <2>1, <2>2, StaysRunnable
<1> QED
  BY <1>1, <1>2 DEF StepsInv, InHand, DownPcs

\* No turn leaves a step unfinished behind it.
LEMMA StepsWorkerStep ==
  ASSUME TypeOK, TypeOK', DecisionInv, ReadOnlyInv, StepsInv, Worker
  PROVE  StepsInv'
<1>a. /\ wk \in WorkerRecord /\ wk.job \in JobCopy /\ wk.rec \in StepRecord
      /\ wk.pc \in StepPcs => wk.s \in Steps
      /\ \A s \in Steps : step[s] \in StepRecord
  BY DEF TypeOK, WorkerRecord
<1>b. NextStep # NoStep => /\ NextStep \in RunnableSteps(step, phase) /\ NextStep \in Steps
                           /\ step[NextStep].state \in {"pending", "ready", "waiting"}
                           /\ phase[PhaseOf[NextStep]] # "completed"
  BY SelectedSteps DEF RunnableSteps, ReadyPhases
<1>c. \A requeue : EndTurn(requeue) => wk'.pc \in {"idle", "requeue"}
  BY DEF EndTurn, At
<1>d. /\ \A pc : GoOn(pc) => wk'.pc = pc
      /\ DecideOnJob => wk'.pc = "decide_job"
  BY DEF DecideOnJob, GoOn, At
<1>e. \A s, r : DecideOn(s, r) => wk'.pc = "decide" /\ wk'.s = s
  BY <1>a DEF DecideOn, WorkerRecord
<1>f. ~Dispatching("executing") /\ wk.pc \notin Mutate
  BY DEF Dispatching, ReadOnlyInv, Approved
<1>g. DoneStates \cap {"pending", "ready", "waiting", "dry_run_running", "dry_run_failed"} = {}
  BY DEF DoneStates
<1> USE DEF WorkerFrame, store
<1>1. CASE Dequeue \/ ReadJob \/ Requeue
  <2>1. CASE Dequeue \/ ReadJob
    <3>1. wk'.pc \in {"read", "dispatch"} /\ wk.pc \in {"idle", "read"} /\ UNCHANGED <<step, phase>>
      BY <2>1 DEF Dequeue, ReadJob, At
    <3> QED
      BY <3>1, QuietTurn DEF InHand, DownPcs
  <2>2. CASE Requeue
    <3>1. wk'.pc = "idle" /\ wk.pc = "requeue" /\ UNCHANGED <<step, phase>>
      BY <2>2 DEF Requeue, At
    <3> QED
      BY <3>1, QuietTurn DEF InHand, DownPcs
  <2> QED
    BY <1>1, <2>1, <2>2
<1>2. CASE AcceptQueued \/ ValidateRuntimePlan \/ StartDryRun \/ NoRunnableStep \/ FinishDryRuns
           \/ WaitPending \/ DecideFromState \/ NotRunnable \/ AwaitHumanApproval
  <2>1. /\ wk'.pc \in {"idle", "requeue", "decide_job"} /\ wk.pc = "dispatch"
        /\ UNCHANGED <<step, phase>>
    BY <1>2, <1>c, <1>d DEF AcceptQueued, ValidateRuntimePlan, StartDryRun, LockRefused,
       NoRunnableStep, FinishDryRuns, WaitPending, DecideFromState, NotRunnable,
       AwaitHumanApproval, DryRunTurn, Dispatching
  <2> QED
    BY <2>1, QuietTurn DEF InHand, DownPcs
<1>3. CASE WaitScheduled \/ SaveJob \/ DecideJob
  <2>1. /\ wk'.pc \in {"idle", "requeue"} /\ wk.pc \in {"wait", "save", "decide_job"}
        /\ UNCHANGED <<step, phase>>
    BY <1>3, <1>c DEF WaitScheduled, SaveJob, DecideJob
  <2> QED
    BY <2>1, QuietTurn DEF InHand, DownPcs
<1>4. CASE CancelFlagged \/ PauseFlagged \/ FlagRaises
  <2>1. /\ wk'.pc \in {"idle", "requeue", "cancel", "off"} /\ wk.pc = "dispatch"
        /\ UNCHANGED <<step, phase>>
    <3>1. \A pc : At(pc).pc = pc
      BY DEF At
    <3> QED
      BY <1>4, <1>c, <3>1 DEF CancelFlagged, PauseFlagged, FlagRaises, TakeFlag
  <2> QED
    BY <2>1, QuietTurn DEF InHand, DownPcs
<1>5. CASE InstructionNeeded
  <2>1. /\ wk'.pc = "decide" /\ wk'.s = NextStep /\ wk.pc = "dispatch"
        /\ UNCHANGED <<step, phase>> /\ NextStep # NoStep
    BY <1>5, <1>e DEF InstructionNeeded, DryRunTurn, Dispatching
  <2> QED
    BY <1>b, <1>g, <2>1, QuietTurn DEF InHand, DownPcs
<1>6. CASE WaitTimesOut
  <2>1. PICK s \in WaitingSteps : DecideOn(s, step[s])
    BY <1>6 DEF WaitTimesOut, FirstListed
  <2>2. wk'.pc = "decide" /\ wk'.s = s /\ wk.pc = "dispatch" /\ UNCHANGED <<step, phase>>
    BY <1>6, <1>e, <2>1 DEF WaitTimesOut, Dispatching
  <2> QED
    BY <1>g, <2>1, <2>2, QuietTurn DEF InHand, DownPcs, WaitingSteps
<1>7. CASE CompleteEmptyPhase
  <2> DEFINE p == Least(EmptyReadyPhases)
  <2>1. /\ wk'.pc = "save" /\ wk.pc = "dispatch" /\ UNCHANGED step
        /\ phase' = [phase EXCEPT ![p] = "completed"]
    BY <1>7, <1>d DEF CompleteEmptyPhase, Dispatching
  <2>2. p \in EmptyReadyPhases
    <3>1. EmptyReadyPhases \subseteq Nat
      BY DEF EmptyReadyPhases, ReadyPhases, Phases
    <3> QED
      BY <1>7, <3>1, LeastIsIn DEF CompleteEmptyPhase
  <2>3. \A q \in Phases : /\ phase[q] = "completed" => phase'[q] = "completed"
                          /\ q # p => phase'[q] = phase[q]
    BY <2>1 DEF TypeOK
  <2>4. \A s \in Steps : PhaseOf[s] # p
    BY <2>2 DEF EmptyReadyPhases, StepsOf
  <2> HIDE DEF p
  <2>5. ASSUME NEW s \in Steps, step'[s].state = "waiting"
        PROVE  s \in RunnableSteps(step', phase')
    <3>1. s \in RunnableSteps(step, phase)
      BY <2>1, <2>5 DEF StepsInv
    <3>2. phase[PhaseOf[s]] # "completed" /\ PhaseOf[s] \in Phases
      BY <3>1, PlanAssumption DEF RunnableSteps, ReadyPhases
    <3>3. phase'[PhaseOf[s]] # "completed"
      BY <2>3, <2>4, <3>2
    <3>4. \A t \in Steps : step[t].state \in DoneStates => step'[t].state \in DoneStates
      BY <2>1
    <3> QED
      BY <2>3, <2>5, <3>1, <3>3, <3>4, StaysRunnable
  <2> QED
    BY <2>1, <2>5 DEF StepsInv, InHand, DownPcs
<1>8. CASE ScheduleWait
  <2> DEFINE r == Attempt(step[NextStep], "waiting")
  <2>1. NextStep # NoStep /\ wk.pc = "dispatch" /\ wk'.pc = "wait"
        /\ SetStep(NextStep, r) /\ UNCHANGED phase
    BY <1>8, <1>d DEF ScheduleWait, DryRunTurn, Dispatching
  <2>2. r \in StepRecord /\ r.state = "waiting"
    BY <1>a, <1>b, <2>1, AttemptTyped DEF StepState
  <2> HIDE DEF r
  <2> QED
    BY <1>b, <1>g, <2>1, <2>2, StepTaken DEF InHand
<1>9. CASE CompleteMechanicalStep
  <2> DEFINE r == Attempt(step[NextStep], "dry_run_succeeded")
  <2>1. NextStep # NoStep /\ wk.pc = "dispatch" /\ wk'.pc = "commit" /\ wk'.s = NextStep
        /\ SetStep(NextStep, r) /\ UNCHANGED phase
    BY <1>9, <1>a DEF CompleteMechanicalStep, DryRunTurn, Dispatching, WorkerRecord
  <2>2. r \in StepRecord /\ r.state = "dry_run_succeeded"
    BY <1>a, <1>b, <2>1, AttemptTyped DEF StepState
  <2> HIDE DEF r
  <2> QED
    BY <1>b, <1>g, <2>1, <2>2, StepTaken DEF InHand
<1>10. CASE BeginDryRun
  <2> DEFINE r == [Attempt(step[NextStep], "dry_run_running") EXCEPT !.dry = "dry_run_running"]
  <2>1. NextStep # NoStep /\ wk.pc = "dispatch" /\ SetStep(NextStep, r) /\ UNCHANGED phase
        /\ wk' = [wk EXCEPT !.pc = "dry_call", !.s = NextStep, !.rec = r]
    BY <1>10 DEF BeginDryRun, DryRunTurn, Dispatching
  <2>2. r \in StepRecord /\ r.state = "dry_run_running"
    <3>1. /\ Attempt(step[NextStep], "dry_run_running") \in StepRecord
          /\ Attempt(step[NextStep], "dry_run_running").state = "dry_run_running"
      BY <1>a, <1>b, <2>1, AttemptTyped DEF StepState
    <3> QED
      BY <3>1 DEF StepRecord, DryStatus
  <2>3. wk'.pc = "dry_call" /\ wk'.s = NextStep
    BY <1>a, <2>1 DEF WorkerRecord
  <2> HIDE DEF r
  <2> QED
    BY <1>b, <1>g, <2>1, <2>2, <2>3, StepTaken DEF InHand
<1>11. CASE DryRunSucceeds
  <2> DEFINE r == [wk.rec EXCEPT !.state = "dry_run_succeeded", !.dry = "dry_run_succeeded"]
  <2>1. r \in StepRecord /\ r.state = "dry_run_succeeded"
    BY <1>a DEF StepRecord, StepState, DryStatus
  <2>2. /\ wk.pc = "dry_call" /\ SetStep(wk.s, r) /\ UNCHANGED phase
        /\ wk'.pc = "commit" /\ wk'.s = wk.s
    BY <1>11, <1>a DEF DryRunSucceeds, WorkerRecord
  <2>3. wk.s \in Steps /\ step[wk.s].state \notin DoneStates /\ phase[PhaseOf[wk.s]] # "completed"
    BY <1>a, <2>2 DEF StepPcs, StepsInv, InHand
  <2> HIDE DEF r
  <2> QED
    BY <2>1, <2>2, <2>3, StepTaken DEF InHand
<1>12. CASE DryRunFails
  <2> DEFINE r == [wk.rec EXCEPT !.state = "dry_run_failed", !.dry = "dry_run_failed"]
  <2>1. r \in StepRecord /\ r.state = "dry_run_failed"
    BY <1>a DEF StepRecord, StepState, DryStatus
  <2>2. /\ wk.pc = "dry_call" /\ SetStep(wk.s, r) /\ UNCHANGED phase
        /\ wk'.pc = "decide" /\ wk'.s = wk.s
    BY <1>12, <1>e DEF DryRunFails
  <2>3. wk.s \in Steps /\ step[wk.s].state \notin DoneStates
    BY <1>a, <2>2 DEF StepPcs, StepsInv, InHand
  <2> HIDE DEF r
  <2> QED
    BY <1>g, <2>1, <2>2, <2>3, StepTaken DEF InHand
<1>13. CASE DecideStep
  <2> DEFINE r == [wk.rec EXCEPT !.state = "decision_required"]
  <2>1. r \in StepRecord /\ r.state = "decision_required"
    BY <1>a DEF StepRecord, StepState
  <2>2. /\ wk.pc = "decide" /\ SetStep(wk.s, r) /\ UNCHANGED phase /\ wk'.pc = "decide_job"
    BY <1>13, <1>d DEF DecideStep
  <2>3. wk.s \in Steps /\ step[wk.s].state \notin DoneStates
    BY <1>a, <2>2 DEF StepPcs, StepsInv, InHand
  <2> HIDE DEF r
  <2> QED
    BY <2>1, <2>2, <2>3, StepTaken DEF InHand
<1>14. CASE Commit
  <2> DEFINE p == PhaseOf[wk.s]
  <2>1. /\ wk.pc = "commit" /\ wk'.pc = "save" /\ UNCHANGED step /\ p \in Phases
        /\ phase' = [phase EXCEPT ![p] = IF PhaseIsComplete(p, step) THEN "completed" ELSE "running"]
    BY <1>14, <1>a, <1>d, PlanAssumption DEF Commit, StepPcs
  <2>2. \A q \in Phases : /\ phase[q] = "completed" => phase'[q] = "completed"
                          /\ q # p => phase'[q] = phase[q]
    BY <2>1 DEF TypeOK, StepsInv
  <2>3. ASSUME NEW s \in Steps, step'[s].state = "waiting"
        PROVE  s \in RunnableSteps(step', phase')
    <3>1. s \in RunnableSteps(step, phase)
      BY <2>1, <2>3 DEF StepsInv
    <3>2. phase[PhaseOf[s]] # "completed" /\ PhaseOf[s] \in Phases
      BY <3>1, PlanAssumption DEF RunnableSteps, ReadyPhases
    <3>3. PhaseOf[s] = p => ~PhaseIsComplete(p, step)
      BY <2>1, <2>3 DEF PhaseIsComplete, StepsOf, DoneStates
    <3>4. phase'[PhaseOf[s]] # "completed"
      BY <2>1, <2>2, <3>2, <3>3 DEF TypeOK
    <3>5. \A t \in Steps : step[t].state \in DoneStates => step'[t].state \in DoneStates
      BY <2>1
    <3> QED
      BY <2>2, <2>3, <3>1, <3>4, <3>5, StaysRunnable
  <2> QED
    BY <2>1, <2>3 DEF StepsInv, InHand, DownPcs
<1>15. CASE CancelSteps
  <2>2. /\ wk'.pc \in {"idle", "requeue"}
        /\ \A s \in Steps : step'[s].state \in {"dry_run_succeeded", "mutation_succeeded", "cancelled"}
    <3>1. \A s \in Steps : [step[s] EXCEPT !.state = "cancelled"].state = "cancelled"
      BY <1>a DEF StepRecord
    <3> QED
      BY <1>15, <1>c, <3>1 DEF CancelSteps
  <2> QED
    BY <2>2 DEF StepsInv, InHand, DownPcs
<1>16. CASE NoMutationLeft \/ MutationExecutorMissing \/ BeginMutation \/ MutationBlocked
            \/ MutationExcluded \/ MutationCalled \/ MutationReturns
  BY <1>16, <1>f DEF NoMutationLeft, MutationExecutorMissing, BeginMutation, MutationBlocked,
     MutationExcluded, MutationCalled, MutationReturns, Mutate
<1> QED
  BY <1>1, <1>2, <1>3, <1>4, <1>5, <1>6, <1>7, <1>8, <1>9, <1>10, <1>11, <1>12, <1>13, <1>14,
     <1>15, <1>16 DEF Worker

\* A request changes a step only while the worker rests, and takes no result away.
LEMMA StepsClientStep ==
  ASSUME TypeOK, TypeOK', DecisionInv, StepsInv, Client
  PROVE  /\ StepsInv'
         /\ job.state = "completed" => UNCHANGED step
<1>a. ASSUME UNCHANGED <<step, phase>>, Unstirred PROVE StepsInv'
  BY <1>a DEF Unstirred, StepsInv, InHand, DownPcs
<1>b. UNCHANGED phase /\ Unstirred
  <2>1. UNCHANGED phase
    BY DEF Client, ApiWrite, RequestTransition, RequestStart, RequestInstruction, RequestFlag, Approve,
       Read, Receive, WriteTransition, WriteApproved, SaveCopy, SetFlag, AppendEntry, StoreInstruction,
       ApplyToStep, ApplyToJob, NoteId, FindIdNoted, EnsureWorker, ExpireApproval, store
  <2> QED
    BY <2>1, ClientEffects DEF Untouched, Instructed
<1>1. CASE UNCHANGED step
  BY <1>1, <1>a, <1>b
<1>2. CASE step' # step
  <2>1. ApplyToStep
    BY <1>2 DEF Client, ApiWrite, RequestTransition, RequestStart, RequestInstruction, RequestFlag,
       Approve, Read, Receive, WriteTransition, WriteApproved, SaveCopy, SetFlag, AppendEntry,
       StoreInstruction, ApplyToJob, NoteId, FindIdNoted, EnsureWorker, ExpireApproval, store
  <2>2. PICK s \in TargetSteps : InstructStep(s)
    BY <1>2, <2>1 DEF ApplyToStep, FirstListed
  <2>3. s \in Steps /\ api.at = "step" /\ (Resumes \/ api.op = "skip")
    BY <2>1, <2>2 DEF ApplyToStep, Instructing, TargetSteps
  <2>4. api.job.state = "decision_required"
    BY <2>3 DEF DecisionInv, RequestFits, Waking, InstructionFits, Resumes
  <2>5. /\ job.state \in Quiescent
        /\ wk.pc \notin InHand \cup {"commit"}
    BY <2>3, <2>4 DEF DecisionInv, AwaitsDecision, Resting, DownPcs, InHand
  <2>6. PICK r \in StepRecord : /\ SetStep(s, r)
                                /\ \/ r.state \in DoneStates
                                   \/ r.state = "pending" /\ step[s].state = "decision_required"
    <3> DEFINE w(st, d) == [step[s] EXCEPT !.state = st, !.dry = d]
    <3>1. /\ \A st \in StepState, d \in DryStatus : w(st, d) \in StepRecord /\ w(st, d).state = st
          /\ [step[s] EXCEPT !.state = "skipped_by_instruction"] \in StepRecord
          /\ [step[s] EXCEPT !.state = "skipped_by_instruction"].state = "skipped_by_instruction"
      BY <2>3, ZenonT(30) DEF TypeOK, StepRecord, StepState
    <3>2. CASE Resumes
      <4>1. step[s].state = "decision_required"
        BY <2>2, <3>2 DEF TargetSteps
      <4>2. SetStep(s, w("dry_run_succeeded", "dry_run_succeeded")) \/ SetStep(s, w("pending", "none"))
        BY <2>2, <3>2 DEF InstructStep, ResumeStep
      <4>3. "dry_run_succeeded" \in StepState \cap DryStatus /\ "pending" \in StepState /\ "none" \in DryStatus
        BY DEF StepState, DryStatus
      <4> HIDE DEF w
      <4> QED
        BY <3>1, <4>1, <4>2, <4>3 DEF DoneStates
    <3>3. CASE ~Resumes
      BY <2>2, <3>1, <3>3 DEF InstructStep, SkipStep, DoneStates
    <3> QED
      BY <3>2, <3>3
  <2>7. /\ step'[s] = r /\ \A t \in Steps \ {s} : step'[t] = step[t]
        /\ \A t \in Steps : step[t].state \in DoneStates => step'[t].state \in DoneStates
    BY <2>3, <2>6 DEF TypeOK, SetStep, DoneStates
  <2>8. ASSUME NEW t \in Steps, step'[t].state = "waiting"
        PROVE  t \in RunnableSteps(step', phase')
    <3>1. t \in RunnableSteps(step, phase)
      BY <2>6, <2>7, <2>8 DEF StepsInv, DoneStates
    <3>2. phase[PhaseOf[t]] # "completed"
      BY <3>1 DEF RunnableSteps, ReadyPhases
    <3> QED
      BY <1>b, <2>7, <2>8, <3>1, <3>2, StaysRunnable
  <2>9. wk'.pc \notin InHand \cup {"commit"} \cup DownPcs
    BY <1>b, <2>5 DEF Unstirred, StepsInv, DownPcs, InHand
  <2>10. \A t \in Steps : step'[t].state \notin {"dry_run_running", "dry_run_failed", "mutation_running",
                                                 "mutation_failed"}
    BY <2>5, <2>6, <2>7 DEF StepsInv, DoneStates
  <2> QED
    BY <2>5, <2>8, <2>9, <2>10 DEF StepsInv, InHand, Quiescent
<1> QED
  BY <1>1, <1>2

\* A job completes when its dry runs are finished.
LEMMA CompletedBy ==
  ASSUME TypeOK, ReadOnlyInv, Worker, job'.state = "completed"
  PROVE  job.state = "completed" \/ FinishDryRuns
<1>a. /\ wk.job \in JobCopy /\ (Handling => wk.job.state # "completed")
      /\ \A st : Transition(st) => job'.state = st
      /\ InState(wk.job, "cancelled").state = "cancelled"
      /\ ~Dispatching("executing")
  BY DEF TypeOK, WorkerRecord, Transition, InState, JobCopy, ReadOnlyInv, Working, Dispatching,
     Approved
<1>1. CASE AcceptQueued \/ ValidateRuntimePlan \/ StartDryRun \/ WaitScheduled \/ DecideJob
           \/ AwaitHumanApproval \/ NoMutationLeft \/ PauseFlagged \/ CancelFlagged
  BY <1>1, <1>a DEF AcceptQueued, ValidateRuntimePlan, StartDryRun, LockRefused, WaitScheduled,
     DecideJob, AwaitHumanApproval, NoMutationLeft, PauseFlagged, CancelFlagged, store
<1>2. CASE SaveJob
  BY <1>2, <1>a DEF SaveJob, Handling
<1>3. ASSUME UNCHANGED job PROVE job.state = "completed"
  BY <1>3
<1> QED
  BY <1>1, <1>2, <1>3 DEF Worker, Dequeue, ReadJob, Requeue, CompleteEmptyPhase, NoRunnableStep, ScheduleWait,
     CompleteMechanicalStep, InstructionNeeded, BeginDryRun, DryRunSucceeds, DryRunFails, Commit,
     DecideStep, MutationExecutorMissing, BeginMutation, LockRefused, MutationBlocked, MutationExcluded,
     MutationCalled, MutationReturns, WaitPending, WaitTimesOut, DecideFromState, NotRunnable,
     CancelSteps, FlagRaises, store

\* What is left when a turn finds no step to run is settled.
LEMMA FinishedIsSettled ==
  ASSUME TypeOK, StepsInv, FinishDryRuns
  PROVE  CompletedMeansSettled'
<1>1. RunnableSteps(step, phase) = {}
  <2>1. RunnableSteps(step, phase) \subseteq Steps /\ NoStep \notin Steps /\ Steps \subseteq Nat
    BY DEF RunnableSteps, NoStep, Steps
  <2> QED
    BY <2>1, LeastIsIn DEF FinishDryRuns, NextStep, SelectNextStep, LeastOrNone
<1>2. wk.pc = "dispatch" /\ UNCHANGED step
  BY DEF FinishDryRuns, DryRunTurn, Dispatching
<1>3. ASSUME NEW s \in Steps
      PROVE  step[s].state \in DoneStates \cup {"decision_required", "cancelled"}
  <2>1. /\ step[s].state \in StepState
        /\ step[s].state \notin {"pending", "ready"}
        /\ step[s].state \notin {"dry_run_running", "dry_run_failed", "mutation_running", "mutation_failed"}
        /\ step[s].state # "waiting"
    BY <1>1, <1>2 DEF TypeOK, StepRecord, FinishDryRuns, StepsLeft, StepsInv, InHand
  <2> QED
    BY <2>1 DEF StepState, DoneStates
<1> QED
  BY <1>2, <1>3 DEF CompletedMeansSettled

\* Nothing takes up a completed job again.
LEMMA CompletedStep ==
  ASSUME TypeOK, TypeOK', DecisionInv, ReadOnlyInv, StepsInv, CompletedInv, Worker \/ Client
  PROVE  CompletedInv'
<1>a. /\ wk \in WorkerRecord /\ wk.job \in JobCopy /\ job \in JobCopy
      /\ api \in ApiRecord /\ api.job \in JobCopy
      /\ \A st : InState(api.job, st).state = st
      /\ \A pc : At(pc).pc = pc
  BY DEF TypeOK, WorkerRecord, ApiRecord, JobCopy, InState, At
<1>1. CASE Worker
  <2>1. CASE job.state = "completed"
    <3>1. \/ wk.pc \in {"idle", "read"}
          \/ wk.pc = "off"
          \/ wk.pc = "dispatch" /\ wk.job.state = "completed"
      BY <2>1 DEF CompletedInv
    <3>7. CASE Dequeue
      <4>1. wk'.pc = "read" /\ UNCHANGED <<job, step, api>>
        BY <3>7, <1>a DEF Dequeue, store, client
      <4> QED
        BY <2>1, <4>1 DEF CompletedInv, CompletedMeansSettled
    <3>2. CASE ReadJob
      <4>1. wk'.pc = "dispatch" /\ wk'.job = job /\ UNCHANGED <<job, step, api>>
        BY <3>2 DEF ReadJob, At, store, client
      <4> QED
        BY <2>1, <4>1 DEF CompletedInv, CompletedMeansSettled
    <3>6. ~Requeue
      BY <3>1 DEF Requeue
    <3>3. CASE Passed
      <4>1. wk'.pc \in {"idle", "off"}
        BY <1>a, <3>1, <3>3 DEF Passed, Working
      <4> QED
        BY <3>3, <4>1 DEF Passed, CompletedInv, CompletedMeansSettled
    <3>4. CASE FlagTaken
      <4>1. "paused" \notin AllowedTransitions["completed"] /\ "cancelled" \notin AllowedTransitions["completed"]
        BY DEF AllowedTransitions, JobState
      <4> QED
        BY <1>a, <3>1, <3>4, <4>1 DEF FlagTaken, CompletedInv, CompletedMeansSettled, TransitionAllowed
    <3>5. ~Going /\ ~Saved
      BY <3>1 DEF Going, Saved, Handling, StepPcs, Working, Terminal
    <3> QED
      BY <1>1, <3>2, <3>3, <3>4, <3>5, <3>6, <3>7, WorkerTurns
  <2>2. CASE job.state # "completed"
    <3>1. UNCHANGED api
      BY <1>1, WorkerTurns DEF Dequeue, ReadJob, Requeue, Going, Saved, Passed, FlagTaken, client
    <3>2. api'.job.state # "completed"
      BY <2>2, <3>1 DEF CompletedInv
    <3>3. CASE job'.state # "completed"
      BY <3>2, <3>3 DEF CompletedInv, CompletedMeansSettled
    <3>4. CASE job'.state = "completed"
      <4>1. FinishDryRuns
        BY <1>1, <2>2, <3>4, CompletedBy
      <4>2. wk'.pc = "idle"
        BY <3>4, <4>1, <1>a DEF FinishDryRuns, EndTurn
      <4> QED
        BY <3>2, <4>1, <4>2, FinishedIsSettled DEF CompletedInv
    <3> QED
      BY <3>3, <3>4
  <2> QED
    BY <2>1, <2>2
<1>2. CASE Client
  <2>a. Unstirred /\ (job.state = "completed" => UNCHANGED step)
    BY <1>2, ClientEffects, StepsClientStep DEF Untouched, Instructed
  <2>b. /\ Answered => api'.job.state # "completed"
        /\ \A op : ToWake(op).job.state # "completed"
        /\ ProceedToWake => api'.job.state # "completed"
        /\ \A at : Proceed(at) => api'.job = api.job
    BY CopyInFlight DEF Answered
  <2>1. ASSUME UNCHANGED job \/ job'.state # "completed" \/ (job'.state = "completed" /\ job.state = "completed"),
               \/ api'.job.state # "completed"
               \/ UNCHANGED job /\ api'.job = api.job
               \/ UNCHANGED job /\ api'.job = job
               \/ UNCHANGED job /\ UNCHANGED api
        PROVE  CompletedInv'
    BY <2>1, <2>a DEF CompletedInv, CompletedMeansSettled, Unstirred
  <2>2. ASSUME NEW op, NEW t, Read(op, t) PROVE CompletedInv'
    BY <2>1, <2>2 DEF Read, Receive, store
  <2>9. CASE RequestStart
    BY <2>1, <2>9, <2>b DEF RequestStart, Receive, store
  <2>3. CASE WriteTransition
    <3>1. TargetState(api.op) # "completed"
      BY DEF TargetState
    <3> QED
      BY <1>a, <2>1, <2>3, <2>b, <3>1 DEF WriteTransition, SaveCopy
  <2>4. CASE WriteApproved
    <3>1. api.job.state = "completed" => job.state = "completed"
      BY DEF CompletedInv
    <3> QED
      BY <2>1, <2>4, <2>b, <3>1 DEF WriteApproved, SaveCopy
  <2>5. CASE SetFlag \/ AppendEntry \/ NoteId \/ FindIdNoted \/ EnsureWorker
    BY <2>1, <2>5, <2>b DEF SetFlag, AppendEntry, NoteId, FindIdNoted, Enqueued, EnsureWorker, store
  <2>6. CASE StoreInstruction \/ ApplyToStep
    <3>1. (api'.job = api.job \/ api'.job.state # "completed") /\ UNCHANGED job
      BY <2>6, <2>b DEF StoreInstruction, ApplyToStep, store
    <3> QED
      BY <2>1, <3>1
  <2>7. CASE ApplyToJob
    <3>1. api'.job.state # "completed" /\ job'.state = AppliedState
      BY <1>a, <2>7, <2>b DEF ApplyToJob
    <3>2. AppliedState # "completed"
      BY DEF AppliedState
    <3> QED
      BY <2>1, <3>1, <3>2
  <2>8. ASSUME NEW x \in ApprovalScopes, ExpireApproval(x) PROVE CompletedInv'
    BY <2>1, <2>8 DEF ExpireApproval, store, client
  <2> QED
    BY <1>2, <2>2, <2>3, <2>4, <2>5, <2>6, <2>7, <2>8, <2>9
       DEF Client, ApiWrite, RequestTransition, RequestInstruction, RequestFlag, Approve
<1> QED
  BY <1>1, <1>2

\* Steps are never forgotten while nothing crashes.
LEMMA SettledInvariant ==
  ASSUME ReadOnlyClients
  PROVE  Spec => []SettledInv
<1>1. Init => SettledInv
  BY DEF Init, SettledInv, StepsInv, CompletedInv, CompletedMeansSettled, InHand, DownPcs, At, NewJob,
     NewStep, NoRequest
<1>2. ASSUME TypeOK, TypeOK', DecisionInv, ReadOnlyInv, SettledInv, [Next]_vars
      PROVE  SettledInv'
  <2>1. CASE crashes' # 0
    BY <2>1 DEF SettledInv
  <2>2. CASE crashes' = 0
    <3>1. CASE Worker
      <4>1. UNCHANGED crashes
        BY <1>2, <3>1, WorkerTurns DEF Dequeue, ReadJob, Requeue, Going, Saved, Passed, FlagTaken
      <4> QED
        BY <1>2, <2>2, <3>1, <4>1, StepsWorkerStep, CompletedStep DEF SettledInv
    <3>2. CASE Client
      <4>1. UNCHANGED crashes
        BY <3>2 DEF Client, ApiWrite, RequestTransition, RequestStart, RequestInstruction, RequestFlag,
           Approve, Read, Receive, WriteTransition, WriteApproved, SaveCopy, SetFlag, AppendEntry,
           StoreInstruction, ApplyToStep, ApplyToJob, NoteId, FindIdNoted, EnsureWorker, ExpireApproval
      <4> QED
        BY <1>2, <2>2, <3>2, <4>1, StepsClientStep, CompletedStep DEF SettledInv
    <3>3. ~Crash
      BY <1>2, <2>2 DEF Crash, TypeOK
    <3>4. ~Restart
      BY <1>2, <2>2 DEF Restart, RestartRetryable, RestartUnknownMutation, RestartDecide,
         RestartRehydrate, RestartFrame, SettledInv, StepsInv, DownPcs
    <3>5. CASE UNCHANGED vars
      BY <1>2, <3>5 DEF vars, store, client, SettledInv, StepsInv, CompletedInv, CompletedMeansSettled
    <3> QED
      BY <1>2, <3>1, <3>2, <3>3, <3>4, <3>5 DEF Next
  <2> QED
    BY <2>1, <2>2
<1> QED
  BY <1>1, <1>2, ReadOnlyInvariant, PTL DEF Spec

\* A dry run reported as completed has every step done, cancelled or left to a
\* recorded decision, as long as nothing crashed (a crash between the saves of a
\* turn can lose the decision, worker.py:408).
THEOREM CompletedIsSettled ==
  ASSUME ReadOnlyClients
  PROVE  Spec => [](crashes = 0 => CompletedMeansSettled)
<1>1. SettledInv => (crashes = 0 => CompletedMeansSettled)
  BY DEF SettledInv, CompletedInv
<1> QED
  BY <1>1, SettledInvariant, PTL
============================================================================
