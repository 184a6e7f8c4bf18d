----------------------------- MODULE TwinDrift -----------------------------
(***************************************************************************)
(* The drift twin: a later snapshot compared with the baseline taken when  *)
(* the twin was made (namespace_twin/drift_twin.py). Only kinds the        *)
(* collector lists can be compared.                                        *)
(***************************************************************************)
EXTENDS TwinDelta

WorkloadKinds == {"Deployment", "StatefulSet", "DaemonSet", "Job", "CronJob", "Pod"}

Level == [none |-> 0, minor |-> 1, major |-> 2, critical |-> 3]

(* What is compared as intent; health is compared when intent is the same.  *)
(* The revision is part of a manifest, and only an attribute of a summary.  *)
Declared(o) == [form |-> o.form, spec |-> o.spec, safety |-> o.safety, release |-> o.release,
                revision |-> IF o.form = "full" THEN o.revision ELSE "attribute"]

DriftChange(old, new) ==
    LET type == CASE old = {} -> "created"
                  [] old # {} /\ new = {} -> "deleted"
                  [] old # {} /\ new # {} ->
                        LET o == CHOOSE x \in old : TRUE
                            n == CHOOSE x \in new : TRUE
                        IN IF Declared(o) # Declared(n) THEN "updated"
                           ELSE IF o.health # n.health THEN "status_only" ELSE "same"
        sample == CHOOSE x \in (IF new # {} THEN new ELSE old) : TRUE
        Differs(F(_)) == old # {} /\ new # {} /\ F(CHOOSE x \in old : TRUE) # F(sample)
        safety   == Differs(LAMBDA o : o.safety)
        revision == Differs(LAMBDA o : o.revision)
    IN [id |-> Identity(sample), type |-> type,
        class |-> IF safety THEN "critical"
                  ELSE IF type = "deleted" \/ revision \/ sample.kind \in WorkloadKinds THEN "major" ELSE "minor"]

(* Fault: an object is only compared while both snapshots hold it. *)
CommonOnly(before, after) ==
    LET ids == {Identity(o) : o \in before} \cap {Identity(o) : o \in after}
        At(s, id) == {o \in s : Identity(o) = id}
    IN {c \in {DriftChange(At(before, id), At(after, id)) : id \in ids} : c.type # "same"}

DriftChanges(before, after) ==
    LET ids == {Identity(o) : o \in before \cup after}
        At(s, id) == {o \in s : Identity(o) = id}
    IN {c \in {DriftChange(At(before, id), At(after, id)) : id \in ids} : c.type # "same"}

Assessment(changes, status, stale) ==
    [changes |-> changes, status |-> status,
     disabled |-> status \in {"major", "critical", "unknown"} \/ stale,
     invalidated |-> status \in {"major", "critical"}]

InitialDrift(baseline) == Assessment({}, IF baseline.available THEN "none" ELSE "unknown", FALSE)

(* Fault: an unread namespace counts as an empty one. *)
UnreadAsEmpty(baseline, current, stale) ==
    LET changes == DriftChanges(baseline.resources, current.resources)
        worst   == Max({0} \cup {Level[c.class] : c \in changes})
        status  == IF worst = 0 /\ stale THEN "minor" ELSE CHOOSE l \in DOMAIN Level : Level[l] = worst
    IN Assessment(changes, status, stale)

AssessDrift(baseline, current, stale) ==
    LET changes == DriftChanges(baseline.resources, current.resources)
        worst   == Max({0} \cup {Level[c.class] : c \in changes})
        status  == IF worst = 0 /\ stale THEN "minor" ELSE CHOOSE l \in DOMAIN Level : Level[l] = worst
    IN IF baseline.available /\ current.available THEN Assessment(changes, status, stale)
       ELSE Assessment({}, "unknown", stale)
=============================================================================
