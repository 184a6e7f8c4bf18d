--------------------------- MODULE JobLifecycle ----------------------------
(***************************************************************************)
(* The lifecycle a job's clients are promised: it starts in "created" and  *)
(* moves only along the transition table of state/machine.py.              *)
(***************************************************************************)
EXTENDS JobStates

VARIABLE state

Init == state = "created"

Next == \E s \in AllowedTransitions[state] : state' = s

Spec == Init /\ [][Next]_state
=============================================================================
