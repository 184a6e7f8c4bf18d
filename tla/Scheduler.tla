----------------------------- MODULE Scheduler -----------------------------
(***************************************************************************)
(* The plan of one job and the deterministic selection of its next step    *)
(* (runtime/scheduler.py).  Steps are numbered in the order (phase         *)
(* sequence index, step sequence index), the order both selectors sort by. *)
(* A step's stored record is [state, dry, attempts] (dry abbreviates       *)
(* dry_run_status); a phase is its status.                                 *)
(***************************************************************************)
EXTENDS Naturals, FiniteSets

CONSTANTS
    NumSteps,       \* steps of the plan
    NumPhases,      \* phases of the plan
    PhaseOf,        \* Steps -> Phases, the phase a step belongs to
    StepType,       \* Steps -> StepTypes
    StepDeps,       \* Steps -> SUBSET Steps, depends_on naming steps
    StepPhaseDeps,  \* Steps -> SUBSET Phases, depends_on naming phases
    PhaseDeps       \* Phases -> SUBSET Phases

Steps  == 1 .. NumSteps
Phases == 1 .. NumPhases
NoStep == 0

MutatingTypes    == {"k8s_apply", "k8s_delete", "helm_install", "helm_upgrade"}
MechanicalTypes  == {"context_check", "k8s_get", "k8s_validate"}
DryRunnableTypes == {"k8s_apply", "helm_install", "helm_upgrade", "helm_validate"}
StepTypes == MutatingTypes \cup MechanicalTypes \cup DryRunnableTypes
             \cup {"wait", "manual_input", "rollback", "release_notes", "unknown"}

ASSUME PlanAssumption ==
    /\ NumSteps \in Nat
    /\ NumPhases \in Nat
    /\ PhaseOf \in [Steps -> Phases]
    /\ \A s, t \in Steps : s <= t => PhaseOf[s] <= PhaseOf[t]
    /\ StepType \in [Steps -> StepTypes]
    /\ StepDeps \in [Steps -> SUBSET Steps]
    /\ StepPhaseDeps \in [Steps -> SUBSET Phases]
    /\ PhaseDeps \in [Phases -> SUBSET Phases]

StepState ==
    {"pending", "ready", "dry_run_running", "dry_run_succeeded",
     "dry_run_failed", "mutation_running", "mutation_succeeded",
     "mutation_failed", "waiting", "decision_required",
     "skipped_by_instruction", "cancelled"}
DryStatus  == {"none", "dry_run_running", "dry_run_succeeded", "dry_run_failed"}
StepRecord == [state : StepState, dry : DryStatus, attempts : Nat]
PhaseState == {"pending", "running", "completed"}

Mutating(s) == StepType[s] \in MutatingTypes
StepsOf(p)  == {s \in Steps : PhaseOf[s] = p}
Least(S)    == CHOOSE s \in S : \A t \in S : s <= t
LeastOrNone(S) == IF S = {} THEN NoStep ELSE Least(S)

\* States that satisfy a dependency on a step, for both selectors.
DoneStates == {"dry_run_succeeded", "mutation_succeeded", "skipped_by_instruction"}

DepsDone(s, step, phase) ==
    /\ \A d \in StepDeps[s] : step[d].state \in DoneStates
    /\ \A p \in StepPhaseDeps[s] : phase[p] = "completed"

\* PhaseStepScheduler.ready_phases
ReadyPhases(phase) ==
    {p \in Phases : /\ phase[p] \in {"pending", "running"}
                    /\ \A d \in PhaseDeps[p] : phase[d] = "completed"}

\* PhaseStepScheduler.select_next_step
RunnableSteps(step, phase) ==
    {s \in Steps : /\ PhaseOf[s] \in ReadyPhases(phase)
                   /\ step[s].state \in {"pending", "ready", "waiting"}
                   /\ DepsDone(s, step, phase)}
SelectNextStep(step, phase) == LeastOrNone(RunnableSteps(step, phase))

\* PhaseStepScheduler.select_next_mutation_step.  A step may name itself.
MutableSteps(step, phase) ==
    {s \in Steps :
        /\ Mutating(s)
        /\ step[s].state \notin {"mutation_running", "mutation_succeeded",
                                 "mutation_failed", "decision_required",
                                 "cancelled"}
        /\ "dry_run_succeeded" \in {step[s].state, step[s].dry}
        /\ \A d \in StepDeps[s] \ {s} : step[d].state \in DoneStates
        /\ \A p \in StepPhaseDeps[s] : phase[p] = "completed"}
SelectNextMutationStep(step, phase) == LeastOrNone(MutableSteps(step, phase))

\* PhaseStepScheduler.phase_is_complete
PhaseIsComplete(p, step) ==
    /\ StepsOf(p) # {}
    /\ \A s \in StepsOf(p) : step[s].state \in DoneStates \cup {"cancelled"}

\* WorkerRuntime._job_work_is_complete; executes says whether the job's mode
\* is execute_after_approval.
JobWorkIsComplete(step, executes) ==
    /\ NumSteps > 0
    /\ \A s \in Steps : step[s].state \in DoneStates \cup {"cancelled"}
    /\ executes => \A s \in Steps :
                      Mutating(s) => step[s].state = "mutation_succeeded"
=============================================================================
