--------------------- MODULE GovernedMutation_proofs -----------------------
(***************************************************************************)
(* JobRuntime keeps the promise of GovernedMutation, for every plan, mode, *)
(* set of operations and bound: every mutation is covered by an approval   *)
(* and a CONTINUE instruction, uses up a permit, and is counted against    *)
(* the retry limit.  The effects of the actions and the invariants used    *)
(* are those of JobRuntime_proofs.                                         *)
(***************************************************************************)
EXTENDS JobRuntime_proofs

-----------------------------------------------------------------------------
(* A successful dry-run status comes from a dry run or an instruction.     *)

PermitInv ==
    /\ \A s \in Steps : step[s].dry = "dry_run_succeeded" => s \in previewed \cup overridden
    /\ wk.pc \in HoldPcs /\ wk.rec.dry = "dry_run_succeeded" => wk.s \in previewed \cup overridden

\* A dry status turns successful only with a dry run or an instruction.
LEMMA PermitStep == TypeOK /\ TypeOK' /\ PermitInv /\ [Next]_vars => PermitInv'
<1> SUFFICES ASSUME TypeOK, TypeOK', PermitInv, [Next]_vars PROVE PermitInv'
  OBVIOUS
<1>a. /\ step \in [Steps -> StepRecord] /\ step' \in [Steps -> StepRecord]
      /\ wk.pc \in HoldPcs => wk.s \in Steps
      /\ HoldPcs \cap (OwnPcs \cup {"commit"}) = {}
  BY DEF TypeOK, WorkerRecord, HoldPcs, StepPcs, OwnPcs, DownPcs
<1> USE DEF PermitInv, history
<1>1. CASE Quiet \/ Undecided
  BY <1>1, <1>a DEF Quiet, Undecided
<1>2. CASE Counted
  <2>1. PICK s \in Steps : /\ step'[s].dry = step[s].dry
                           /\ \A t \in Steps \ {s} : step'[t] = step[t]
    BY <1>2, <1>a, SelectedSteps, AttemptTyped DEF Counted, SetStep, StepState
  <2> QED
    BY <1>2, <2>1 DEF Counted, HoldPcs
<1>3. CASE DryRunBegun
  BY <1>3, <1>a, SelectedSteps DEF DryRunBegun, SetStep
<1>4. CASE MutationBegun
  <2>1. PICK s \in Steps : /\ step'[s].dry = step[s].dry /\ wk'.s = s /\ wk'.rec = step'[s]
                           /\ \A t \in Steps \ {s} : step'[t] = step[t]
    BY <1>4, <1>a, SelectedSteps, AttemptTyped DEF MutationBegun, SetStep, StepState
  <2> QED
    BY <1>4, <2>1 DEF MutationBegun
<1>5. CASE Settled
  BY <1>5, <1>a DEF Settled, SetStep, HoldPcs
<1>6. CASE MutationCalled
  <2>1. wk'.s = wk.s /\ wk'.rec = wk.rec /\ wk.pc \in HoldPcs
    BY <1>6 DEF MutationCalled, TypeOK, WorkerRecord, HoldPcs
  <2> QED
    BY <1>6, <2>1 DEF MutationCalled, store
<1>7. CASE StepsCancelled
  <2>1. \A s \in Steps : step'[s].dry = step[s].dry
    BY <1>7, <1>a DEF StepsCancelled, StepRecord
  <2> QED
    BY <1>7, <2>1 DEF StepsCancelled, HoldPcs
<1>8. CASE Client
  <2>1. CASE Untouched
    BY <2>1 DEF Untouched, Unstirred, HoldPcs
  <2>2. CASE Instructed
    <3>1. \A s \in Steps : step'[s].dry = "dry_run_succeeded" =>
                              step[s].dry = "dry_run_succeeded" \/ s \in overridden'
      BY <2>2, <1>a DEF Instructed, SetStep
    <3> QED
      BY <2>2, <3>1 DEF Instructed, Unstirred, HoldPcs
  <2> QED
    BY <1>8, <2>1, <2>2, ClientEffects
<1>9. CASE Crash \/ Restart
  BY <1>9, ProcessEffects DEF Recovered, HoldPcs, DownPcs
<1>10. CASE UNCHANGED vars
  BY <1>10 DEF vars, store
<1> QED
  BY <1>1, <1>2, <1>3, <1>4, <1>5, <1>6, <1>7, <1>8, <1>9, <1>10, WorkerEffects DEF Next

\* A successful dry status was always earned.
LEMMA PermitInvariant == Spec => []PermitInv
<1>1. Init => PermitInv
  BY DEF Init, PermitInv, NewStep, At, HoldPcs
<1> QED
  BY <1>1, PermitStep, TypeCorrect, PTL DEF Spec

-----------------------------------------------------------------------------
(* JobRuntime implements GovernedMutation.                                 *)

Permits == (previewed \cup overridden) \ spent
Granted == {s \in Steps : /\ Continued(s)
                          /\ \E a \in ApprovalScopes : approval[a] # "none" /\ s \in a}

\* An approval or an instruction that was given stays on record.
LEMMA GrantsAreKept == ASSUME TypeOK, [Next]_vars PROVE Granted \subseteq Granted'
<1>1. GrantsKept => Granted \subseteq Granted'
  BY DEF GrantsKept, Granted, Continued
<1>2. CASE Worker
  <2>1. UNCHANGED grants
    BY <1>2 DEF Worker, WorkerFrame, Dequeue, ReadJob, Requeue, AcceptQueued, ValidateRuntimePlan, StartDryRun,
       CompleteEmptyPhase, NoRunnableStep, FinishDryRuns, ScheduleWait, CompleteMechanicalStep,
       InstructionNeeded, BeginDryRun, DryRunSucceeds, DryRunFails, Commit, DecideStep,
       DecideJob, SaveJob, WaitScheduled, CancelSteps, AwaitHumanApproval, NoMutationLeft,
       MutationExecutorMissing, BeginMutation,
       MutationBlocked, MutationExcluded, MutationCalled, MutationReturns, WaitPending,
       WaitTimesOut, DecideFromState, NotRunnable, CancelFlagged, PauseFlagged, FlagRaises,
       TakeFlag
  <2> QED
    BY <1>1, <2>1 DEF grants, GrantsKept
<1>3. CASE Client
  BY <1>1, <1>3, ClientEffects
<1>4. CASE Crash \/ Restart \/ UNCHANGED vars
  BY <1>1, <1>4 DEF Crash, Restart, RestartRetryable, RestartUnknownMutation, RestartDecide,
     RestartRehydrate, RestartFrame, vars, grants, GrantsKept
<1> QED
  BY <1>2, <1>3, <1>4 DEF Next

\* A call is covered, uses up its permit, and stays within the retry limit.
LEMMA CallIsGoverned ==
  ASSUME TypeOK, TypeOK', AttemptInv, SpentInv, PermitInv, MutationCalled
  PROVE  Governed!Call(wk.s) /\ wk.s \in Steps
<1>1. wk.s \in Steps /\ wk.rec \in StepRecord
  BY DEF TypeOK, WorkerRecord, MutationCalled, StepPcs
<1>2. wk.s \in Permits
  BY DEF MutationCalled, PolicyAllows, SpentInv, PermitInv, HoldPcs, Permits
<1>3. wk.s \in Granted
  BY <1>1 DEF MutationCalled, PolicyAllows, Granted
<1>4. calls[wk.s] < MaxRetries
  BY <1>1, RuntimeAssumption
     DEF MutationCalled, PolicyAllows, AttemptInv, HoldPcs, TypeOK, StepRecord
<1>5. calls' = [calls EXCEPT ![wk.s] = @ + 1] /\ Permits' = Permits \ {wk.s}
  BY DEF MutationCalled, Permits
<1>6. Granted' = Granted
  BY DEF MutationCalled, WorkerFrame, grants, Granted, Continued
<1> QED
  BY <1>1, <1>2, <1>3, <1>4, <1>5, <1>6 DEF Governed!Call, Permits, Granted

\* The runtime implements the promise: however workers, clients, crashes and
\* restarts interleave, no mutation is sent without a human approval and a
\* CONTINUE instruction for its step, without an unused permit, or more often
\* than the retry limit allows.
THEOREM RuntimeIsGoverned == Spec => GovernedSpec
<1>1. Init => Governed!Init
  BY DEF Init, Governed!Init, Continued
<1>2. ASSUME TypeOK, TypeOK', AttemptInv, SpentInv, PermitInv, [Next]_vars
      PROVE  [Governed!Next]_<<calls, Permits, Granted>>
  <2>1. CASE MutationCalled
    BY <1>2, <2>1, CallIsGoverned DEF Governed!Next
  <2>2. CASE ~MutationCalled
    <3>1. UNCHANGED calls /\ Permits \subseteq Permits' /\ Granted \subseteq Granted'
      BY <1>2, <2>2, OnlyCallsSpend, GrantsAreKept DEF Permits
    <3>2. Permits' \subseteq Steps /\ Granted' \subseteq Steps
      BY <1>2 DEF TypeOK, Permits, Granted
    <3> QED
      BY <3>1, <3>2 DEF Governed!Next, Governed!Authorise, Permits, Granted
  <2> QED
    BY <2>1, <2>2
<1> QED
  BY <1>1, <1>2, TypeCorrect, AttemptInvariant, SpentInvariant, PermitInvariant, PTL
     DEF Spec, GovernedSpec, Governed!Spec, Permits, Granted
=============================================================================
