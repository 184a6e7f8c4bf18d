--------------------------- MODULE MCJobRuntime ----------------------------
(***************************************************************************)
(* Small plans for TLC.                                                    *)
(***************************************************************************)
EXTENDS JobRuntime

NoDeps == [s \in Steps |-> {}]

\* Two mutations in one phase, the second depending on the first.
ApplyThenUpgrade == <<"k8s_apply", "helm_upgrade">>
OnePhase         == [s \in Steps |-> 1]
Chained          == [s \in Steps |-> {s - 1} \cap Steps]

\* One mutation.
OneApply == <<"k8s_apply">>

\* A check, an empty phase, and a mutation that waits for both; then a wait
\* that depends on the mutation.
Mixed         == <<"context_check", "k8s_apply", "wait">>
MixedPhases   == <<1, 3, 3>>
MixedPhaseDeps == <<{}, {1}, {2}>>
MixedStepDeps == <<{}, {}, {2}>>
MixedStepPhaseDeps == <<{}, {2}, {}>>

NoPhaseDeps     == [p \in Phases |-> {}]

AllSteps == {Steps}
EachStep == {{s} : s \in Steps}
=============================================================================
