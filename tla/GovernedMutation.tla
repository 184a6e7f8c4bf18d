------------------------- MODULE GovernedMutation --------------------------
(***************************************************************************)
(* What the runtime promises about the cluster, whatever requests, crashes *)
(* and interleavings it meets.  A step's mutation is sent only if a human  *)
(* approval and a CONTINUE instruction cover the step (granted) and on a   *)
(* permit, which a dry run or an instruction gives and one call uses up;   *)
(* and no step is sent more often than the retry limit allows.             *)
(***************************************************************************)
EXTENDS Naturals

CONSTANTS Steps, Limit

VARIABLES
    calls,    \* per step: mutation calls sent
    permits,  \* steps that may be sent once more
    granted   \* steps an approval and a CONTINUE instruction cover

Init ==
    /\ calls = [s \in Steps |-> 0]
    /\ permits = {}
    /\ granted = {}

\* Dry runs, instructions and approvals only ever add.
Authorise ==
    /\ permits' \in SUBSET Steps
    /\ granted' \in SUBSET Steps
    /\ permits \subseteq permits'
    /\ granted \subseteq granted'
    /\ UNCHANGED calls

Call(s) ==
    /\ s \in permits \cap granted
    /\ calls[s] < Limit
    /\ calls' = [calls EXCEPT ![s] = @ + 1]
    /\ permits' = permits \ {s}
    /\ UNCHANGED granted

Next == Authorise \/ \E s \in Steps : Call(s)

Spec == Init /\ [][Next]_<<calls, permits, granted>>
=============================================================================
