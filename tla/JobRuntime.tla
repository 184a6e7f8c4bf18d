---------------------------- MODULE JobRuntime -----------------------------
(***************************************************************************)
(* One execution job, the worker thread that runs it (runtime/worker.py,   *)
(* runtime/queue.py), the instruction gate (runtime/instructions.py), the  *)
(* job operations of the API (api/service.py) and the crash and restart of *)
(* the process both live in.                                               *)
(*                                                                         *)
(* The API handlers run on one event loop, so they are serial with respect *)
(* to each other, but the worker is a thread of its own: each side copies  *)
(* the stored job, works on the copy and saves the whole copy back.  A     *)
(* request is therefore a read followed by writes, and a turn of the       *)
(* worker, a request and a recovery are one action per saved record, with  *)
(* the executor calls in between.  Only the loop in which a cancel saves   *)
(* every step is one action.                                               *)
(***************************************************************************)
EXTENDS Scheduler, JobStates

CONSTANTS
    Mode,           \* the job's execution_mode
    ApiOps,         \* operations the API's clients use
    ApprovalScopes, \* approvals that may be given, each the steps it covers
    PreApproved,    \* TRUE if they were given before the job was started
    Contended,      \* TRUE if another job may hold the namespace lock
    MaxRetries,     \* PolicyLimits.max_retry_attempts
    MaxRequests,    \* bound: requests the API serves
    MaxCrashes      \* bound: crashes of the process

ExecutionModes == {"validate_only", "dry_run_only", "execute_after_approval",
                   "external_llm_controlled"}
Transitions  == {"start", "pause", "resume", "cancel", "request_rollback"}
Instructions == {"continue", "retry", "wait", "skip", "abort", "refresh"}
Flags        == {"pause", "cancel"}
FlagOps      == {"worker_pause", "worker_cancel"}

ASSUME RuntimeAssumption ==
    /\ Mode \in ExecutionModes
    /\ ApiOps \subseteq Transitions \cup Instructions \cup FlagOps \cup {"approve"}
    /\ ApprovalScopes \subseteq SUBSET Steps
    /\ PreApproved \in BOOLEAN
    /\ Contended \in BOOLEAN
    /\ MaxRetries \in Nat
    /\ MaxRequests \in Nat
    /\ MaxCrashes \in Nat

VARIABLES
    (* the repository *)
    job,        \* the stored job: [state, satisfied] (dry_run_satisfied)
    step,       \* the stored steps
    phase,      \* the stored phases
    approval,   \* per scope: none given, active, or expired
    continues,  \* target_step_id of the stored CONTINUE instructions
    (* the process *)
    entries,    \* how many entries of _queue are the job's
    noted,      \* _queued_job_ids holds the job
    flags,      \* _pause_requested, _cancel_requested
    lock,       \* _active_locks holds the job's namespace lock
    wk,         \* the worker thread: [pc, job, s, rec], its local copies
    api,        \* the request in flight: [op, target, job, at]
    cache,      \* state of the API's own copy in _jobs, or "none"
    requests,   \* requests served, for MaxRequests
    crashes,    \* crashes, for MaxCrashes
    (* history, read by no action *)
    overtaken,  \* an id was noted after the last entry had been dequeued
    calls,      \* per step: mutation calls sent to the cluster
    spent,      \* steps mutated since an instruction last changed them
    previewed,  \* steps whose dry run succeeded
    overridden  \* steps an instruction marked as dry-run succeeded

store   == <<job, step, phase>>
deque   == <<entries, noted, overtaken>>
grants  == <<approval, continues>>
client  == <<api, cache, requests>>
history == <<calls, spent, previewed, overridden>>
vars    == <<store, grants, deque, flags, lock, wk, client, crashes, history>>

JobCopy == [state : JobState, satisfied : BOOLEAN]
AnyStep == NoStep    \* target_step_id = None
NoApi   == "none"
DownPcs == {"down", "recover", "recover_next"}    \* not serving (yet)
OwnPcs  == DownPcs \cup {"off", "idle", "read", "dispatch", "decide_job", "save", "wait", "cancel",
                       "requeue"}
StepPcs == {"dry_call", "mut_gate", "mut_call", "commit", "decide"}  \* in a step
WorkerRecord ==
    {w \in [pc : OwnPcs \cup StepPcs, job : JobCopy, s : Steps \cup {NoStep},
            rec : StepRecord] : w.pc \in StepPcs => w.s \in Steps}
\* at: what an instruction saves next; then it wakes the worker: it enqueues
\* the job, which notes its id last, and sees to it that there is a thread.
ApiRecord == [op : ApiOps \cup {NoApi}, target : Steps \cup {AnyStep}, job : JobCopy,
              at : {"store", "step", "job", "wake", "add", "ensure"}]

TypeOK ==
    /\ job \in JobCopy
    /\ step \in [Steps -> StepRecord]
    /\ phase \in [Phases -> PhaseState]
    /\ approval \in [ApprovalScopes -> {"none", "active", "expired"}]
    /\ continues \subseteq Steps \cup {AnyStep}
    /\ entries \in Nat
    /\ noted \in BOOLEAN
    /\ overtaken \in BOOLEAN
    /\ flags \subseteq Flags
    /\ lock \in BOOLEAN
    /\ wk \in WorkerRecord
    /\ api \in ApiRecord
    /\ cache \in JobState \cup {"none"}
    /\ requests \in Nat
    /\ crashes \in Nat
    /\ calls \in [Steps -> Nat]
    /\ spent \subseteq Steps
    /\ previewed \subseteq Steps
    /\ overridden \subseteq Steps

NewStep == [state |-> "pending", dry |-> "none", attempts |-> 0]
NewJob  == [state |-> "created", satisfied |-> FALSE]
At(pc)  == [pc |-> pc, job |-> NewJob, s |-> NoStep, rec |-> NewStep]
NoRequest == [op |-> NoApi, target |-> AnyStep, job |-> NewJob, at |-> "store"]

\* The stored steps are listed in plan order until a restart, and in the order
\* of their ids, which is any, afterwards: the ones a search in S may find first.
FirstListed(S) == IF crashes = 0 THEN {s \in S : \A t \in S : s <= t} ELSE S

\* create_job with the plan seeded (seed_plan); nothing runs until start_job.
Init ==
    /\ job = NewJob
    /\ step = [s \in Steps |-> NewStep]
    /\ phase = [p \in Phases |-> "pending"]
    /\ approval = [a \in ApprovalScopes |-> IF PreApproved THEN "active" ELSE "none"]
    /\ continues = {}
    /\ entries = 0
    /\ noted = FALSE
    /\ overtaken = FALSE
    /\ flags = {}
    /\ lock = FALSE
    /\ wk = At("off")
    /\ api = NoRequest
    /\ cache = "created"
    /\ requests = 0
    /\ crashes = 0
    /\ calls = [s \in Steps |-> 0]
    /\ spent = {}
    /\ previewed = {}
    /\ overridden = {}

\* Fault: every mode but validate_only taken for one that executes.
ExecutesAnyway == Mode # "validate_only"

Executes == Mode = "execute_after_approval"
InState(j, st) == [j EXCEPT !.state = st]

-----------------------------------------------------------------------------
(* The worker thread.                                                      *)

\* Fault: the id is not discarded with the entry.
DequeueKeepsId ==
    /\ wk.pc = "idle"
    /\ entries > 0
    /\ entries' = entries - 1
    /\ wk' = At("read")
    /\ UNCHANGED <<store, grants, noted, overtaken, flags, lock, client, crashes, history>>

\* run_once
Dequeue ==
    /\ wk.pc = "idle"
    /\ entries > 0
    /\ entries' = entries - 1
    /\ noted' = FALSE
    /\ wk' = At("read")
    /\ UNCHANGED <<store, grants, overtaken, flags, lock, client, crashes, history>>

\* process_job takes its copy.
ReadJob ==
    /\ wk.pc = "read"
    /\ wk' = [At("dispatch") EXCEPT !.job = job]
    /\ UNCHANGED <<store, grants, deque, flags, lock, client, crashes, history>>

Dispatching(st) == wk.pc = "dispatch" /\ flags = {} /\ wk.job.state = st

\* End the turn, or put the job back first.
EndTurn(requeue) ==
    /\ wk' = At(IF requeue THEN "requeue" ELSE "idle")
    /\ UNCHANGED deque

\* enqueue, which does nothing for an id that is noted.  One step where the
\* worker calls it, since nobody else dequeues.
Enqueue ==
    /\ entries' = IF noted THEN entries ELSE entries + 1
    /\ noted' = TRUE
    /\ UNCHANGED overtaken

Requeue ==
    /\ wk.pc = "requeue"
    /\ Enqueue
    /\ wk' = At("idle")
    /\ UNCHANGED <<store, grants, flags, lock, client, crashes, history>>

\* WorkerRuntime._transition: checked against the copy, saved over the store.
Transition(st) ==
    /\ TransitionAllowed(wk.job.state, st)
    /\ job' = InState(wk.job, st)

\* Fault: the decision loses the step it is about.
DecideOnNothing(s, r) ==
    /\ wk' = [wk EXCEPT !.pc = "decide", !.s = NoStep, !.rec = r]
    /\ UNCHANGED deque

\* _decision_required for step s, whose record in hand is r.
DecideOn(s, r) ==
    /\ wk' = [wk EXCEPT !.pc = "decide", !.s = s, !.rec = r]
    /\ UNCHANGED deque

\* The turn goes on with its copy of the job and no step in hand.
GoOn(pc) ==
    /\ wk' = [At(pc) EXCEPT !.job = wk.job]
    /\ UNCHANGED deque

\* _decision_required without a step.
DecideOnJob == GoOn("decide_job")

WorkerFrame == UNCHANGED <<grants, flags, client, crashes>>

AcceptQueued ==
    /\ Dispatching("created")
    /\ Transition("validating_bundle")
    /\ EndTurn(TRUE)
    /\ UNCHANGED <<step, phase, lock, history>> /\ WorkerFrame

ValidateRuntimePlan ==
    /\ Dispatching("validating_bundle")
    /\ IF NumSteps = 0 \/ NumPhases = 0
       THEN DecideOnJob /\ UNCHANGED job
       ELSE Transition("dry_run_ready") /\ EndTurn(TRUE)
    /\ UNCHANGED <<step, phase, lock, history>> /\ WorkerFrame

\* Fault: the turn goes on without the lock.
LockNotTaken == UNCHANGED lock

\* _acquire_lock_or_decision: a lock this process already noted is reused.
LockGranted == lock' = TRUE
LockRefused == ~lock /\ Contended /\ DecideOnJob /\ UNCHANGED <<store, lock>>

StartDryRun ==
    /\ Dispatching("dry_run_ready")
    /\ \/ LockGranted /\ Transition("dry_running") /\ EndTurn(TRUE)
          /\ UNCHANGED <<step, phase>>
       \/ LockRefused
    /\ UNCHANGED history /\ WorkerFrame

EmptyReadyPhases == {p \in ReadyPhases(phase) : StepsOf(p) = {}}
NextStep         == SelectNextStep(step, phase)
NextMutationStep == SelectNextMutationStep(step, phase)
DryRunTurn == Dispatching("dry_running") /\ EmptyReadyPhases = {}

CompleteEmptyPhase ==
    /\ Dispatching("dry_running")
    /\ EmptyReadyPhases # {}
    /\ phase' = [phase EXCEPT ![Least(EmptyReadyPhases)] = "completed"]
    /\ GoOn("save")
    /\ UNCHANGED <<job, step, lock, history>> /\ WorkerFrame

\* Fault: only steps marked ready count as left.
StepsLeftReady == \E s \in Steps : step[s].state = "ready"

StepsLeft == \E s \in Steps : step[s].state \in {"pending", "ready"}

\* Fault: the job is requeued instead of asking for a decision.
NoRunnableStepSpins ==
    /\ DryRunTurn
    /\ NextStep = NoStep
    /\ StepsLeft
    /\ EndTurn(TRUE)
    /\ UNCHANGED <<store, lock, history>> /\ WorkerFrame

NoRunnableStep ==
    /\ DryRunTurn
    /\ NextStep = NoStep
    /\ StepsLeft
    /\ DecideOnJob
    /\ UNCHANGED <<store, lock, history>> /\ WorkerFrame

\* Every step is dry-run: wait for approval, or complete.
FinishDryRuns ==
    /\ DryRunTurn
    /\ NextStep = NoStep
    /\ ~StepsLeft
    /\ IF Executes /\ NextMutationStep # NoStep
       THEN /\ TransitionAllowed(wk.job.state, "awaiting_human_approval")
            /\ job' = [state |-> "awaiting_human_approval", satisfied |-> TRUE]
            /\ EndTurn(TRUE)
       ELSE Transition("completed") /\ EndTurn(FALSE)
    /\ lock' = FALSE
    /\ UNCHANGED <<step, phase, history>> /\ WorkerFrame

SetStep(s, r) == step' = [step EXCEPT ![s] = r]
\* Fault: the attempt is not counted.
AttemptUncounted(r, st) == [r EXCEPT !.state = st]
Attempt(r, st) == [r EXCEPT !.state = st, !.attempts = @ + 1]

ScheduleWait ==
    /\ DryRunTurn
    /\ NextStep # NoStep
    /\ StepType[NextStep] = "wait"
    /\ SetStep(NextStep, Attempt(step[NextStep], "waiting"))
    /\ GoOn("wait")
    /\ UNCHANGED <<job, phase, lock, history>> /\ WorkerFrame

WaitScheduled ==
    /\ wk.pc = "wait"
    /\ Transition("wait_scheduled")
    /\ EndTurn(TRUE)
    /\ UNCHANGED <<step, phase, lock, history>> /\ WorkerFrame

CompleteMechanicalStep ==
    /\ DryRunTurn
    /\ NextStep # NoStep
    /\ StepType[NextStep] \in MechanicalTypes
    /\ SetStep(NextStep, Attempt(step[NextStep], "dry_run_succeeded"))
    /\ wk' = [wk EXCEPT !.pc = "commit", !.s = NextStep]
    /\ UNCHANGED <<job, phase, deque, lock, history>> /\ WorkerFrame

\* A step of another type needs an instruction; so does a missing executor.
InstructionNeeded ==
    /\ DryRunTurn
    /\ NextStep # NoStep
    /\ StepType[NextStep] \notin MechanicalTypes \cup {"wait"}
    /\ DecideOn(NextStep, step[NextStep])
    /\ UNCHANGED <<store, lock, history>> /\ WorkerFrame

BeginDryRun ==
    /\ DryRunTurn
    /\ NextStep # NoStep
    /\ StepType[NextStep] \in DryRunnableTypes
    /\ LET r == [Attempt(step[NextStep], "dry_run_running")
                   EXCEPT !.dry = "dry_run_running"]
       IN  /\ SetStep(NextStep, r)
           /\ wk' = [wk EXCEPT !.pc = "dry_call", !.s = NextStep, !.rec = r]
    /\ UNCHANGED <<job, phase, deque, lock, history>> /\ WorkerFrame

\* The dry-run executor answered.  Success marks the whole job satisfied.
DryRunSucceeds ==
    /\ wk.pc = "dry_call"
    /\ SetStep(wk.s, [wk.rec EXCEPT !.state = "dry_run_succeeded",
                                    !.dry   = "dry_run_succeeded"])
    /\ wk' = [wk EXCEPT !.pc = "commit", !.job.satisfied = TRUE,
                        !.rec = NewStep]
    /\ previewed' = previewed \cup {wk.s}
    /\ UNCHANGED <<job, phase, deque, lock, calls, spent, overridden>> /\ WorkerFrame

DryRunFails ==
    /\ wk.pc = "dry_call"
    /\ LET r == [wk.rec EXCEPT !.state = "dry_run_failed", !.dry = "dry_run_failed"]
       IN SetStep(wk.s, r) /\ DecideOn(wk.s, r)
    /\ UNCHANGED <<job, phase, lock, history>> /\ WorkerFrame

\* _complete_phase_if_ready
Commit ==
    /\ wk.pc = "commit"
    /\ phase' = [phase EXCEPT ![PhaseOf[wk.s]] =
                    IF PhaseIsComplete(PhaseOf[wk.s], step)
                    THEN "completed" ELSE "running"]
    /\ GoOn("save")
    /\ UNCHANGED <<job, step, lock, history>> /\ WorkerFrame

\* _save_job of the turn's copy, over whatever was stored meanwhile.
SaveJob ==
    /\ wk.pc = "save"
    /\ job' = wk.job
    /\ EndTurn(TRUE)
    /\ UNCHANGED <<step, phase, lock, history>> /\ WorkerFrame

DecideStep ==
    /\ wk.pc = "decide"
    /\ SetStep(wk.s, [wk.rec EXCEPT !.state = "decision_required"])
    /\ DecideOnJob
    /\ UNCHANGED <<job, phase, lock, history>> /\ WorkerFrame

\* Fault: the lock is kept while the job waits for a decision.
DecideJobKeepsLock ==
    /\ wk.pc = "decide_job"
    /\ Transition("decision_required")
    /\ EndTurn(FALSE)
    /\ UNCHANGED <<step, phase, lock, history>> /\ WorkerFrame

DecideJob ==
    /\ wk.pc = "decide_job"
    /\ Transition("decision_required")
    /\ EndTurn(FALSE)
    /\ lock' = FALSE
    /\ UNCHANGED <<step, phase, history>> /\ WorkerFrame

AwaitHumanApproval ==
    /\ Dispatching("awaiting_human_approval")
    /\ IF \E a \in ApprovalScopes : approval[a] # "none"
       THEN Transition("executing") /\ EndTurn(TRUE)
       ELSE EndTurn(FALSE) /\ UNCHANGED job
    /\ UNCHANGED <<step, phase, lock, history>> /\ WorkerFrame

RunningMutations == {s \in Steps : step[s].state = "mutation_running"}

NoMutationLeft ==
    /\ Dispatching("executing")
    /\ NextMutationStep = NoStep
    /\ IF RunningMutations # {}
       THEN /\ \E s \in FirstListed(RunningMutations) : DecideOn(s, step[s])
            /\ UNCHANGED <<job, lock>>
       ELSE /\ Transition("completed")
            /\ EndTurn(FALSE)
            /\ lock' = FALSE
    /\ UNCHANGED <<step, phase, history>> /\ WorkerFrame

MutationExecutorMissing ==
    /\ Dispatching("executing")
    /\ NextMutationStep # NoStep
    /\ DecideOn(NextMutationStep, step[NextMutationStep])
    /\ UNCHANGED <<store, lock, history>> /\ WorkerFrame

BeginMutation ==
    /\ Dispatching("executing")
    /\ NextMutationStep # NoStep
    /\ \/ LET r == Attempt(step[NextMutationStep], "mutation_running")
          IN  /\ LockGranted
              /\ SetStep(NextMutationStep, r)
              /\ wk' = [wk EXCEPT !.pc = "mut_gate", !.s = NextMutationStep, !.rec = r]
              /\ UNCHANGED <<job, phase, deque>>
       \/ LockRefused
    /\ UNCHANGED history /\ WorkerFrame

\* _matching_continue_instruction
Continued(s) == continues \cap {AnyStep, s} # {}

\* Fault: the retry limit is not evaluated.
PolicyAllowsUnlimited(s, r) ==
    /\ r.dry = "dry_run_succeeded"
    /\ \E a \in ApprovalScopes : approval[a] = "active" /\ s \in a

\* evaluate_policy: dry run, approval and retry limit of the running step.
PolicyAllows(s, r) ==
    /\ r.dry = "dry_run_succeeded"
    /\ \E a \in ApprovalScopes : approval[a] = "active" /\ s \in a
    /\ r.attempts <= MaxRetries

FailMutation ==
    LET r == [wk.rec EXCEPT !.state = "mutation_failed"]
    IN SetStep(wk.s, r) /\ DecideOn(wk.s, r)

SucceedMutation ==
    /\ SetStep(wk.s, [wk.rec EXCEPT !.state = "mutation_succeeded"])
    /\ wk' = [wk EXCEPT !.pc = "commit", !.rec = NewStep]
    /\ UNCHANGED deque

\* A gate refuses; the guards on the content of the manifests may always.
MutationBlocked ==
    /\ wk.pc = "mut_gate"
    /\ FailMutation
    /\ UNCHANGED <<job, phase, lock, history>> /\ WorkerFrame

\* Every manifest is excluded by configuration: success without the policy.
MutationExcluded ==
    /\ wk.pc = "mut_gate"
    /\ Continued(wk.s)
    /\ StepType[wk.s] = "k8s_apply"
    /\ SucceedMutation
    /\ UNCHANGED <<job, phase, lock, history>> /\ WorkerFrame

\* The gates pass and the cluster is called.
MutationCalled ==
    /\ wk.pc = "mut_gate"
    /\ Continued(wk.s)
    /\ PolicyAllows(wk.s, wk.rec)
    /\ StepType[wk.s] # "k8s_delete"
    /\ calls' = [calls EXCEPT ![wk.s] = @ + 1]
    /\ spent' = spent \cup {wk.s}
    /\ wk' = [wk EXCEPT !.pc = "mut_call"]
    /\ UNCHANGED <<store, deque, lock, previewed, overridden>> /\ WorkerFrame

MutationReturns ==
    /\ wk.pc = "mut_call"
    /\ SucceedMutation \/ FailMutation
    /\ UNCHANGED <<job, phase, lock, history>> /\ WorkerFrame

WaitingSteps == {s \in Steps : step[s].state = "waiting"}

WaitPending ==
    /\ Dispatching("wait_scheduled")
    /\ WaitingSteps # {}
    /\ EndTurn(TRUE)
    /\ UNCHANGED <<store, lock, history>> /\ WorkerFrame

\* WaitExecutor.evaluate never reports completion, only the timeout.
WaitTimesOut ==
    /\ Dispatching("wait_scheduled")
    /\ \E s \in FirstListed(WaitingSteps) : DecideOn(s, step[s])
    /\ UNCHANGED <<store, lock, history>> /\ WorkerFrame

\* Waiting without a waiting step, or a rollback request: ask.
DecideFromState ==
    /\ \/ Dispatching("wait_scheduled") /\ WaitingSteps = {}
       \/ Dispatching("rollback_requested")
    /\ DecideOnJob
    /\ UNCHANGED <<store, lock, history>> /\ WorkerFrame

NotRunnable ==
    /\ \E st \in {"invalid_bundle", "awaiting_llm_instruction", "decision_required",
                  "paused", "validation_running", "rolling_back"} \cup Terminal :
          Dispatching(st)
    /\ EndTurn(FALSE)
    /\ UNCHANGED <<store, lock, history>> /\ WorkerFrame

\* _cancel and _pause of a flagged job.  A refused transition raises out of
\* the worker loop and ends the thread.
TakeFlag(f) ==
    /\ wk.pc = "dispatch"
    /\ f \in flags
    /\ (f = "pause") => "cancel" \notin flags
    /\ flags' = flags \ {f}
    /\ UNCHANGED <<phase, grants, client, crashes, history>>

CancelFlagged ==
    /\ TakeFlag("cancel")
    /\ TransitionAllowed(wk.job.state, "cancelled")
    /\ job' = InState(wk.job, "cancelled")
    /\ wk' = At("cancel")
    /\ UNCHANGED <<step, deque, lock>>

CancelSteps ==
    /\ wk.pc = "cancel"
    /\ step' = [s \in Steps |->
                  IF step[s].state \in {"dry_run_succeeded", "mutation_succeeded"}
                  THEN step[s] ELSE [step[s] EXCEPT !.state = "cancelled"]]
    /\ lock' = FALSE
    /\ EndTurn(FALSE)
    /\ UNCHANGED <<job, phase, history>> /\ WorkerFrame

PauseFlagged ==
    /\ TakeFlag("pause")
    /\ \/ wk.job.state = "paused" /\ UNCHANGED <<job, lock>>
       \/ Transition("paused") /\ lock' = FALSE
    /\ EndTurn(FALSE)
    /\ UNCHANGED step

FlagRaises ==
    /\ \/ TakeFlag("cancel") /\ ~TransitionAllowed(wk.job.state, "cancelled")
       \/ TakeFlag("pause") /\ wk.job.state # "paused"
                            /\ ~TransitionAllowed(wk.job.state, "paused")
    /\ wk' = At("off")
    /\ UNCHANGED <<job, step, deque, lock>>

Worker ==
    \/ Dequeue \/ ReadJob \/ Requeue \/ AcceptQueued \/ ValidateRuntimePlan \/ StartDryRun
    \/ CompleteEmptyPhase \/ NoRunnableStep \/ FinishDryRuns \/ ScheduleWait
    \/ WaitScheduled \/ CompleteMechanicalStep \/ InstructionNeeded \/ BeginDryRun
    \/ DryRunSucceeds \/ DryRunFails \/ Commit \/ SaveJob \/ DecideStep \/ DecideJob
    \/ AwaitHumanApproval \/ NoMutationLeft \/ MutationExecutorMissing
    \/ BeginMutation \/ MutationBlocked \/ MutationExcluded \/ MutationCalled
    \/ MutationReturns \/ WaitPending \/ WaitTimesOut \/ DecideFromState
    \/ NotRunnable \/ CancelFlagged \/ CancelSteps \/ PauseFlagged \/ FlagRaises

-----------------------------------------------------------------------------
(* The API and the instruction gate.                                       *)

RunsInBackground ==
    Mode \in {"dry_run_only", "execute_after_approval"} /\ NumSteps > 0

\* The state a request moves the job to; resume trusts the API's own copy.
TargetState(op) ==
    CASE op = "start"  -> "validating_bundle"
      [] op = "pause"  -> "paused"
      [] op = "cancel" -> "cancelled"
      [] op = "resume" -> IF cache = "paused" THEN "executing"
                          ELSE "awaiting_llm_instruction"
      [] OTHER         -> "rollback_requested"

\* Fault: instructions are accepted in every state.
InstructionFitsAlways(op, st) == TRUE

\* InstructionGate._policy_blocks
InstructionFits(op, st) ==
    \/ st = "decision_required"
    \/ op \in {"abort", "refresh"}
    \/ op = "continue" /\ st \in {"awaiting_human_approval", "executing"}

\* A request that passes its checks; one that is refused changes nothing.
Receive(request) ==
    /\ request.op \in ApiOps
    /\ wk.pc \notin DownPcs
    /\ api.op = NoApi
    /\ requests < MaxRequests
    /\ api' = request
    /\ requests' = requests + 1
    /\ UNCHANGED <<store, continues, deque, flags, lock, wk, cache, crashes, history>>

\* It reads the job first.
Read(op, target) ==
    Receive([op |-> op, target |-> target, job |-> job, at |-> "store"])

\* Nothing is (left) to save, so what was read is of no use any more.
ToWake(op) == [NoRequest EXCEPT !.op = op, !.at = "wake"]

RequestTransition(op) ==
    /\ op = "start" => ~RunsInBackground
    /\ TransitionAllowed(job.state, TargetState(op))
    /\ Read(op, AnyStep)
    /\ UNCHANGED approval

\* A start in the background only wakes the worker.
RequestStart ==
    /\ RunsInBackground
    /\ Receive(ToWake("start"))
    /\ UNCHANGED approval

RequestInstruction(op, target) ==
    /\ NumSteps > 0
    /\ InstructionFits(op, job.state)
    /\ Read(op, target)
    /\ UNCHANGED approval

RequestFlag(op) == Read(op, AnyStep) /\ UNCHANGED approval

\* submit_approval stores the approval before it reads the job again.
Approve(a) ==
    /\ approval' = [approval EXCEPT ![a] = "active"]
    /\ Read("approve", AnyStep)

Answered    == api' = NoRequest
Proceed(at) == api' = [api EXCEPT !.at = at]
ProceedToWake == api' = ToWake(api.op)

\* Who sets a flag does not care for the thread.
Enqueued == IF api.op \in FlagOps THEN Answered ELSE Proceed("ensure")

\* _save_job of the copy the request read: over the store and into _jobs.
SaveCopy(j) ==
    /\ job' = j
    /\ cache' = j.state
    /\ Answered
    /\ UNCHANGED <<step, phase, grants, deque, flags, lock, wk, requests, crashes,
                   history>>

WriteTransition ==
    /\ \/ api.op \in Transitions \ {"start"}
       \/ api.op = "start" /\ ~RunsInBackground
    /\ SaveCopy(InState(api.job, TargetState(api.op)))

WriteApproved ==
    /\ api.op = "approve"
    /\ SaveCopy(api.job)

SetFlag ==
    /\ api.op \in FlagOps
    /\ api.at = "store"
    /\ flags' = flags \cup {IF api.op = "worker_pause" THEN "pause" ELSE "cancel"}
    /\ ProceedToWake
    /\ UNCHANGED <<store, grants, deque, lock, wk, cache, requests, crashes, history>>

\* CONTINUE and RETRY resume a job that awaits a decision; a CONTINUE before
\* or during the mutations is only stored.
Resumes == /\ api.op \in {"continue", "retry"}
           /\ api.job.state \notin {"awaiting_human_approval", "executing"}
ResumesMutation == Executes /\ api.job.satisfied

\* Instructions that save no step and no job.
AppliesNothing == api.op \in {"continue", "retry", "wait", "refresh"} /\ ~Resumes

\* The steps an instruction may change, of which it changes the first.
TargetSteps ==
    IF Resumes THEN {s \in Steps : /\ step[s].state = "decision_required"
                                   /\ api.target \in {AnyStep, s}}
    ELSE {s \in Steps : api.op = "skip" /\ api.target = s}

\* Back to its mutation without another dry run, or back to its dry run.
ResumeStep(s) ==
    IF ResumesMutation
    THEN /\ SetStep(s, [step[s] EXCEPT !.state = "dry_run_succeeded",
                                       !.dry   = "dry_run_succeeded"])
         /\ overridden' = overridden \cup {s}
    ELSE /\ SetStep(s, [step[s] EXCEPT !.state = "pending", !.dry = "none"])
         /\ UNCHANGED overridden

SkipStep(s) ==
    /\ SetStep(s, [step[s] EXCEPT !.state = "skipped_by_instruction"])
    /\ UNCHANGED overridden

InstructStep(s) ==
    /\ IF Resumes THEN ResumeStep(s) ELSE SkipStep(s)
    /\ spent' = spent \ {s}

\* The state an instruction leaves the job in.
AppliedState ==
    CASE api.op = "abort"            -> "cancelled"
      [] Resumes /\ ResumesMutation  -> "executing"
      [] OTHER                       -> "dry_run_ready"

Instructing(at) == api.op \in Instructions /\ api.at = at

\* InstructionGate.receive saves the instruction,
StoreInstruction ==
    /\ Instructing("store")
    /\ continues' = IF api.op = "continue" THEN continues \cup {api.target}
                    ELSE continues
    /\ IF AppliesNothing THEN ProceedToWake ELSE Proceed("step")
    /\ UNCHANGED <<store, approval, deque, flags, lock, wk, cache, requests, crashes,
                   history>>

\* then the step it is about,
ApplyToStep ==
    /\ Instructing("step")
    /\ \/ \E s \in FirstListed(TargetSteps) : InstructStep(s)
       \/ TargetSteps = {} /\ UNCHANGED <<step, spent, overridden>>
    /\ Proceed("job")
    /\ UNCHANGED <<job, phase, grants, deque, flags, lock, wk, cache, requests, crashes,
                   calls, previewed>>

\* then the copy of the job it read;
ApplyToJob ==
    /\ Instructing("job")
    /\ job' = InState(api.job, AppliedState)
    /\ ProceedToWake
    /\ UNCHANGED <<step, phase, grants, deque, flags, lock, wk, cache, requests, crashes,
                   history>>

\* The event loop enqueues the job: it appends an entry unless the id is noted,
AppendEntry ==
    /\ api.at = "wake"
    /\ ~noted
    /\ entries' = entries + 1
    /\ Proceed("add")
    /\ UNCHANGED <<store, grants, noted, overtaken, flags, lock, wk, cache, requests, crashes,
                   history>>

\* and then notes the id, although the worker may have dequeued the entry.
NoteId ==
    /\ api.at = "add"
    /\ noted' = TRUE
    /\ overtaken' = (overtaken \/ entries = 0)
    /\ Enqueued
    /\ UNCHANGED <<store, grants, entries, flags, lock, wk, cache, requests, crashes, history>>

FindIdNoted ==
    /\ api.at = "wake"
    /\ noted
    /\ Enqueued
    /\ UNCHANGED <<store, grants, deque, flags, lock, wk, cache, requests, crashes, history>>

\* _ensure_background_worker
EnsureWorker ==
    /\ api.at = "ensure"
    /\ wk' = IF wk.pc = "off" THEN At("idle") ELSE wk
    /\ Answered
    /\ UNCHANGED <<store, grants, deque, flags, lock, cache, requests, crashes, history>>

ApiWrite ==
    \/ WriteTransition \/ WriteApproved \/ SetFlag
    \/ StoreInstruction \/ ApplyToStep \/ ApplyToJob \/ AppendEntry \/ NoteId
    \/ FindIdNoted \/ EnsureWorker

ExpireApproval(a) ==
    /\ approval[a] = "active"
    /\ approval' = [approval EXCEPT ![a] = "expired"]
    /\ UNCHANGED <<store, continues, deque, flags, lock, wk, client, crashes, history>>

-----------------------------------------------------------------------------
(* Crash of the process and restart (recover_restartable_jobs).            *)

\* The queue, the flags, the locks and the API's cache are in memory.
Crash ==
    /\ wk.pc # "down"
    /\ crashes < MaxCrashes
    /\ crashes' = crashes + 1
    /\ wk' = At("down")
    /\ entries' = 0
    /\ noted' = FALSE
    /\ overtaken' = FALSE
    /\ flags' = {}
    /\ lock' = FALSE
    /\ Answered
    /\ cache' = "none"
    /\ UNCHANGED <<store, grants, requests, history>>

RunningDryRuns == {s \in Steps : step[s].state = "dry_run_running"}

\* The worker thread is started if rehydrate added a job: this one (added),
\* or, unknown here, another one.
StartService(added) ==
    \E pc \in IF added THEN {"idle"} ELSE {"off", "idle"} : wk' = At(pc)

RestartFrame == UNCHANGED <<phase, grants, flags, lock, client, crashes, history>>

\* _reset_retryable_running_steps resets one step after the other and enqueues
\* the job, so rehydrate adds nothing.
RestartRetryable ==
    /\ wk.pc = "down"
    /\ job.state \notin Terminal
    /\ \E s \in RunningDryRuns :
          /\ SetStep(s, [step[s] EXCEPT !.state = "pending", !.dry = "none"])
          /\ IF RunningDryRuns = {s}
             THEN Enqueue /\ StartService(FALSE)
             ELSE UNCHANGED <<deque, wk>>
    /\ UNCHANGED job /\ RestartFrame

\* Fault: a running mutation is sent again after the restart.
RestartResendsMutation ==
    /\ wk.pc \in {"down", "recover_next"}
    /\ wk.pc = "down" => job.state \notin Terminal /\ RunningDryRuns = {}
    /\ \E s \in RunningMutations :
          SetStep(s, [step[s] EXCEPT !.state = "dry_run_succeeded"])
    /\ wk' = [At("recover") EXCEPT !.job = IF wk.pc = "down" THEN job ELSE wk.job]
    /\ UNCHANGED <<job, deque>> /\ RestartFrame

\* A mutation was running, so its outcome is unknown: its step needs a decision.
RestartUnknownMutation ==
    /\ wk.pc \in {"down", "recover_next"}
    /\ wk.pc = "down" => job.state \notin Terminal /\ RunningDryRuns = {}
    /\ \E s \in RunningMutations :
          SetStep(s, [step[s] EXCEPT !.state = "decision_required"])
    /\ wk' = [At("recover") EXCEPT !.job = IF wk.pc = "down" THEN job ELSE wk.job]
    /\ UNCHANGED <<job, deque>> /\ RestartFrame

\* And so does the job.  When its state does not allow a decision the
\* transition raises and the service stays down.
RestartDecide ==
    /\ wk.pc = "recover"
    /\ IF TransitionAllowed(wk.job.state, "decision_required")
       THEN /\ job' = InState(wk.job, "decision_required")
            /\ IF RunningMutations = {} THEN StartService(FALSE)
               ELSE wk' = [At("recover_next") EXCEPT !.job = wk.job]
       ELSE wk' = At("down") /\ UNCHANGED job
    /\ UNCHANGED <<step, deque>> /\ RestartFrame

RestartRehydrate ==
    /\ wk.pc = "down"
    /\ \/ job.state \in Terminal
       \/ RunningDryRuns = {} /\ RunningMutations = {}
    /\ job' = IF /\ job.state \notin Terminal
                 /\ JobWorkIsComplete(step, Executes)
                 /\ TransitionAllowed(job.state, "completed")
              THEN InState(job, "completed") ELSE job
    /\ IF job'.state \in RunnableStates THEN Enqueue ELSE UNCHANGED deque
    /\ StartService(job'.state \in RunnableStates)
    /\ UNCHANGED step /\ RestartFrame

Restart ==
    RestartRetryable \/ RestartUnknownMutation \/ RestartDecide \/ RestartRehydrate

-----------------------------------------------------------------------------
Client ==
    \/ \E op \in Transitions : RequestTransition(op)
    \/ RequestStart
    \/ \E op \in Instructions, t \in Steps \cup {AnyStep} : RequestInstruction(op, t)
    \/ \E op \in FlagOps : RequestFlag(op)
    \/ \E a \in ApprovalScopes : Approve(a)
    \/ ApiWrite
    \/ \E a \in ApprovalScopes : ExpireApproval(a)

Next == Worker \/ Client \/ Crash \/ Restart

Spec == Init /\ [][Next]_vars

\* The worker loop keeps running, a request in flight ends, a service that is
\* down is restarted, and the clock reaches every timeout.
FairSpec ==
    /\ Spec
    /\ WF_vars(Worker)
    /\ WF_vars(ApiWrite)
    /\ WF_vars(Restart)
    /\ SF_vars(WaitTimesOut)

-----------------------------------------------------------------------------
(* Properties.                                                             *)

\* Every call to the cluster was counted against the step's retry limit in the
\* repository before it was sent, so no restart forgets an attempt.
AttemptsAccounted == \A s \in Steps : calls[s] <= step[s].attempts

\* A step whose mutation was sent, whatever became of the answer, is never
\* selected again before an instruction changed the step.
NoReplay == spent \cap MutableSteps(step, phase) = {}

\* While a mutation is in flight this process holds the namespace lock.
MutationUnderLock == wk.pc = "mut_call" => lock

\* Approvals, instructions, dry runs and retry limits govern every mutation
\* (runtime/mutation.py), under every interleaving, crash and restart.
Governed == INSTANCE GovernedMutation WITH
    Limit   <- MaxRetries,
    permits <- (previewed \cup overridden) \ spent,
    granted <- {s \in Steps : /\ Continued(s)
                              /\ \E a \in ApprovalScopes : approval[a] # "none" /\ s \in a}
GovernedSpec == Governed!Spec

\* The stored state moves only along the transition table, although the
\* instruction gate and the worker save job copies without consulting it.
Lifecycle == INSTANCE JobLifecycle WITH state <- job.state
LifecycleSpec == Lifecycle!Spec

\* States in which the worker has something to do for the job.
Working == {"validating_bundle", "dry_run_ready", "dry_running", "executing",
            "wait_scheduled", "rollback_requested"}
WorkerBusy == wk.pc \notin DownPcs \cup {"off", "idle"}

\* No lost wakeup: while the service is up, work in progress is in the worker's
\* hands or in its queue, or the request that set it going is about to put it
\* there.
NoLostWakeup ==
    job.state \in Working /\ wk.pc \notin DownPcs =>
        WorkerBusy \/ entries > 0 \/ api.at = "wake"

\* A wakeup is lost in one way only: the worker dequeued the job between the
\* append and the add of an enqueue by the event loop, and from then on its id is
\* noted without an entry and every other enqueue refused.
LostOnlyIfOvertaken ==
    /\ noted /\ entries = 0 => overtaken
    /\ NoLostWakeup \/ (overtaken /\ noted)

\* A job that rests holds no namespace lock, so it blocks no other job.
RestingUnlocked == job.state \notin Working /\ ~WorkerBusy => ~lock

\* A dry run that completes has dry-run every step, or left it to a decision, an
\* instruction or a cancel: no step is silently forgotten or still running.
CompletedMeansSettled ==
    job.state = "completed" =>
        \A s \in Steps : step[s].state \in DoneStates \cup {"decision_required", "cancelled"}

\* "No mutations remain." (worker.py) when an executing job completes.
NoMutationsRemain ==
    job.state = "completed" /\ Executes =>
        \A s \in Steps : Mutating(s) =>
            step[s].state \in {"mutation_succeeded", "skipped_by_instruction"}

\* A job of a mode that does not execute (dry_run_only, or the modes an outside
\* controller steps through) never mutates the cluster.
NonExecutingIsReadOnly ==
    Mode # "execute_after_approval" => \A s \in Steps : calls[s] = 0

\* Every step that was mutated had a successful dry run of its own.
DryRunBeforeMutation == \A s \in Steps : calls[s] > 0 => s \in previewed

\* A cancelled or failed job stays so.
TerminalIsFinal ==
    [][job.state \in {"cancelled", "failed"} => job'.state = job.state]_vars

\* A job is not cancelled in the middle of a mutation.
CancelAtSafePoint == job.state = "cancelled" => wk.pc # "mut_call"

\* A step skipped by instruction is never mutated afterwards.
SkippedIsNotMutated ==
    [][\A s \in Steps : step[s].state = "skipped_by_instruction"
                           => step'[s].state # "mutation_running"]_vars

\* A job the worker was asked to run comes to rest: it ends, or it waits for a
\* decision, an approval or a person.
ComesToRest == entries > 0 ~> (job.state \notin Working /\ entries = 0 /\ ~WorkerBusy)

\* ... unless its enqueue was overtaken.
RestsUnlessOvertaken ==
    entries > 0 ~> (overtaken \/ (job.state \notin Working /\ entries = 0 /\ ~WorkerBusy))

\* After a crash the service resumes the work that can safely be resumed.
ResumesAfterRestart ==
    (wk.pc = "down" /\ job.state \in Working) ~> (WorkerBusy \/ job.state \notin Working)
=============================================================================
