----------------------------- MODULE TwinDelta -----------------------------
(***************************************************************************)
(* The release delta: every planned manifest against the live snapshot,    *)
(* and the deletions the plan states (namespace_twin/delta.py, identity    *)
(* from namespace_twin/canonicalization.py).                               *)
(*                                                                         *)
(*   planned  sequence of [kind, name, api, release, ignored, spec,        *)
(*            privileged, path]; spec is a function from fields to values  *)
(***************************************************************************)
EXTENDS TwinSnapshot, Integers

(* Without an API version of its own a summary row gets the identity of a   *)
(* core object.                                                             *)
CoreKinds == {"Pod", "Service", "PersistentVolumeClaim"}

Identity(o) == [kind |-> o.kind, name |-> o.name,
                api  |-> IF o.api = "given" \/ o.kind \in CoreKinds THEN "own" ELSE "v1"]

ImmutableFields ==
    [Deployment |-> {"selector"}, StatefulSet |-> {"selector", "serviceName"},
     Service |-> {"clusterIP", "ipFamilies"},
     PersistentVolumeClaim |-> {"storageClassName", "volumeMode", "volumeName", "dataSource"}]

HighRiskFields == {"selector", "hostNetwork", "hostPID", "serviceAccountName", "persistentVolumeClaim"}

ClusterScopedKinds == {"ClusterRole", "ClusterRoleBinding", "CustomResourceDefinition",
                       "Namespace", "Node", "PersistentVolume", "StorageClass"}

(* Fields whose values differ; a summary has no specification, so that the  *)
(* specification as a whole differs from the planned one.                   *)
FieldChanges(current, planned) ==
    IF current.form = "summary" THEN {"spec", "summary"}
    ELSE {f \in DOMAIN planned.spec : current.spec[f] # planned.spec[f]}

ImmutableConflict(kind, changes) ==
    kind \in DOMAIN ImmutableFields /\ ImmutableFields[kind] \cap changes # {}

DeltaRisk(planned, action, changes) ==
    CASE action = "unknown" -> "unknown"
      [] action # "unknown" /\ (\/ action = "immutable_conflict"
                                \/ planned.kind \in ClusterScopedKinds \cup {"Secret"}) -> "critical"
      [] OTHER ->
            IF planned.kind \in {"PersistentVolumeClaim", "Role", "RoleBinding", "ServiceAccount"}
            THEN "high"
            ELSE IF planned.privileged THEN "critical"
            ELSE IF changes \cap HighRiskFields # {} THEN "high"
            ELSE IF planned.kind \in {"Ingress", "Service", "NetworkPolicy"} THEN "medium" ELSE "low"

Skipped(p, snapshot, installs) ==
    \/ p.ignored
    \/ /\ snapshot.inventory
       /\ p.release # "none"
       /\ p.release \notin snapshot.installed \cup installs

(* The release is shown on a row only while the inventory knows it. *)
RowRelease(release, action, snapshot) ==
    IF snapshot.inventory /\ action # "create" /\ release \notin snapshot.installed
    THEN "none" ELSE release

(* Fault: an object that was not read is an object that does not exist. *)
AbsentMeansCreate(p, snapshot) ==
    LET current == {o \in snapshot.resources : Identity(o) = Identity(p)}
        live    == CHOOSE o \in current : TRUE
        changes == IF current = {} THEN {} ELSE FieldChanges(live, p)
        action  == IF current = {} THEN IF snapshot.available THEN "create" ELSE "unknown"
                   ELSE IF changes = {} THEN "no_op"
                   ELSE IF ImmutableConflict(p.kind, changes) THEN "immutable_conflict" ELSE "update"
    IN [id |-> Identity(p), action |-> action, changes |-> changes,
        risk |-> DeltaRisk(p, action, changes),
        release |-> RowRelease(p.release, action, snapshot)]

PlannedRow(p, snapshot) ==
    LET current == {o \in snapshot.resources : Identity(o) = Identity(p)}
        live    == CHOOSE o \in current : TRUE
        changes == IF current = {} THEN {} ELSE FieldChanges(live, p)
        action  == CASE current = {} /\ snapshot.available /\ p.kind \in snapshot.complete -> "create"
                     [] current = {} /\ ~(snapshot.available /\ p.kind \in snapshot.complete) -> "unknown"
                     [] current # {} /\ changes = {} -> "no_op"
                     [] current # {} /\ changes # {} ->
                            IF ImmutableConflict(p.kind, changes) THEN "immutable_conflict" ELSE "update"
    IN [id |-> Identity(p), action |-> action, changes |-> changes,
        risk |-> DeltaRisk(p, action, changes),
        release |-> RowRelease(p.release, action, snapshot)]

(* A path names the last manifest of its file, of those that are planned. *)
LastAt(plan, planned, path) ==
    LET at == {i \in planned : plan[i].path = path}
    IN {plan[i] : i \in {j \in at : \A k \in at : k <= j}}

(* The manifests of the plan that are compared, by position. *)
Compared(plan, snapshot, installs) == {i \in DOMAIN plan : ~Skipped(plan[i], snapshot, installs)}

(* The manifests whose deletion the plan states, of objects that were seen. *)
Deleted(plan, planned, snapshot, deletes) ==
    {p \in UNION {LastAt(plan, planned, path) : path \in deletes} :
        \E o \in snapshot.resources : Identity(o) = Identity(p)}

DeletedRow(p, snapshot) ==
    [id |-> Identity(p), action |-> "explicit_delete", changes |-> {}, risk |-> "high",
     release |-> RowRelease((CHOOSE o \in snapshot.resources : Identity(o) = Identity(p)).release,
                            "explicit_delete", snapshot)]

(* The later manifest of an identity. *)
Latest(plan, planned) ==
    {i \in planned : \A j \in planned : Identity(plan[j]) = Identity(plan[i]) => j <= i}

(* Fault: the deletion is shown beside the row of the manifest. *)
RowsBesideDeletions(plan, snapshot, installs, deletes) ==
    LET planned == Compared(plan, snapshot, installs)
    IN {DeletedRow(p, snapshot) : p \in Deleted(plan, planned, snapshot, deletes)}
        \cup {PlannedRow(plan[i], snapshot) : i \in planned}

(* Fault: the row of the manifest is written over the stated deletion. *)
PlanRowWins(plan, snapshot, installs, deletes) ==
    {PlannedRow(plan[i], snapshot) : i \in Latest(plan, Compared(plan, snapshot, installs))}

(* One row per identity: a stated deletion wins, then the later manifest. *)
ReleaseDelta(plan, snapshot, installs, deletes) ==
    LET planned == Compared(plan, snapshot, installs)
        deleted == Deleted(plan, planned, snapshot, deletes)
        kept    == {i \in Latest(plan, planned) : \A p \in deleted : Identity(p) # Identity(plan[i])}
    IN {DeletedRow(p, snapshot) : p \in deleted} \cup {PlannedRow(plan[i], snapshot) : i \in kept}
=============================================================================
