----------------------------- MODULE TwinVerdict -----------------------------
(***************************************************************************)
(* What a namespace twin promises, whoever serves it: evidence is attached *)
(* while the question is open, one verdict is given and never changed, it  *)
(* is only favourable on a dry run that passed, and a twin once withdrawn  *)
(* is answered no more.                                                    *)
(***************************************************************************)
CONSTANT Twins

VARIABLES evidence,   \* outcome of the dry run last attached
          verdict,    \* "none", "green", "amber" or "red"
          withdrawn

vars == <<evidence, verdict, withdrawn>>

Init == /\ evidence = [t \in Twins |-> "none"]
        /\ verdict = [t \in Twins |-> "none"]
        /\ withdrawn = [t \in Twins |-> FALSE]

Open(t) == verdict[t] = "none" /\ ~withdrawn[t]

Attach(t) ==
    /\ Open(t)
    /\ \E e \in {"passed", "failed", "partial"} : evidence' = [evidence EXCEPT ![t] = e]
    /\ UNCHANGED <<verdict, withdrawn>>

(* Evidence attached last may be replaced by that the verdict rests on. *)
Decide(t) ==
    /\ Open(t)
    /\ evidence[t] # "none"
    /\ \E e \in {"passed", "failed", "partial"}, v \in {"green", "amber", "red"} :
          /\ e # "passed" => v = "red"
          /\ evidence' = [evidence EXCEPT ![t] = e]
          /\ verdict' = [verdict EXCEPT ![t] = v]
    /\ UNCHANGED withdrawn

Withdraw(t) ==
    /\ ~withdrawn[t]
    /\ withdrawn' = [withdrawn EXCEPT ![t] = TRUE]
    /\ UNCHANGED <<evidence, verdict>>

Next == \E t \in Twins : Attach(t) \/ Decide(t) \/ Withdraw(t)

VerdictSpec == Init /\ [][Next]_vars
=============================================================================
