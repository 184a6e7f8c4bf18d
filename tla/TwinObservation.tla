-------------------------- MODULE TwinObservation --------------------------
(***************************************************************************)
(* A namespace seen twice: the collector, the delta and the drift twin     *)
(* composed over a cluster that others change in between. `cluster' is     *)
(* external; the rest is what one twin keeps of it.                        *)
(***************************************************************************)
EXTENDS TwinDrift

CONSTANTS Clusters,   \* what the namespace may hold at first
          Releases,   \* what the Helm inventory would list
          Calls,      \* outcomes of the collector's calls
          Plans,      \* [plan, installs, deletes] of a bundle
          Edits(_),   \* clusters one change away
          MaxEdits

(* The kinds the collector asks for. *)
Kinds == UNION {DOMAIN calls.rest : calls \in Calls}

(* An object of a kind that is listed, with the fields a listing may show;  *)
(* others are never read.                                                   *)
IsObject(o) ==
    /\ DOMAIN o = {"kind", "name", "api", "form", "release", "annotated", "revision", "spec", "safety", "health"}
    /\ o.kind \in Kinds /\ o.annotated \in BOOLEAN

ASSUME ObservationAssumption ==
    /\ Calls \subseteq [enabled : BOOLEAN, key : BOOLEAN, rest : [Kinds -> Outcomes], mcp : [Kinds -> Outcomes],
                        helmKey : BOOLEAN, helmRest : Outcomes, helmMcp : Outcomes, installedOnly : BOOLEAN]
    /\ Kinds \subseteq CollectedKinds
    /\ \A p \in Plans : DOMAIN p.plan = 1..Len(p.plan)
    /\ \A c \in Clusters : \A o \in c : IsObject(o)
    /\ \A r \in Releases : r.name # "none"

VARIABLES cluster, origin, request, first, snapshot, rows, last, drift, edits

vars == <<cluster, origin, request, first, snapshot, rows, last, drift, edits>>

Init ==
    /\ cluster \in Clusters /\ origin = cluster
    /\ request \in Plans
    /\ first \in Calls /\ last = first
    /\ snapshot = Collect(cluster, Releases, first)
    /\ rows = ReleaseDelta(request.plan, snapshot, request.installs, request.deletes)
    /\ drift = InitialDrift(snapshot)
    /\ edits = 0

(* Somebody else changes the namespace. *)
Edit ==
    /\ edits < MaxEdits
    /\ edits' = edits + 1
    /\ cluster' \in Edits(cluster) /\ \A o \in cluster' : IsObject(o)
    /\ UNCHANGED <<origin, request, first, snapshot, rows, last, drift>>

(* An operator asks for the drift against the baseline; the age of the      *)
(* baseline is whatever it is.                                              *)
Refresh ==
    \E calls \in Calls, stale \in BOOLEAN :
        /\ last' = calls
        /\ drift' = AssessDrift(snapshot, Collect(cluster, Releases, calls), stale)
        /\ UNCHANGED <<cluster, origin, request, first, snapshot, rows, edits>>

Next == Edit \/ Refresh

Spec == Init /\ [][Next]_vars

---------------------------------------------------------------------------
(* How the calls answered for a kind. *)
Heard(calls, kind) ==
    LET restFailed == \A k \in DOMAIN calls.rest : calls.rest[k] = "failed"
    IN IF calls.key /\ ~restFailed THEN calls.rest[kind] ELSE calls.mcp[kind]

(* The kinds, statuses and actions stay in their sets, and an identity has  *)
(* one row.                                                                 *)
TypeOK ==
    /\ snapshot.complete \subseteq CollectedKinds
    /\ drift.status \in DOMAIN Level \cup {"unknown"}
    /\ \A r \in rows : r.action \in {"create", "update", "no_op", "unknown",
                                     "immutable_conflict", "explicit_delete"}
    /\ \A r, s \in rows : r.id = s.id => r = s

(* An object that exists is never announced as a creation, however many of  *)
(* the calls failed, as long as the answers could be read: a failed listing *)
(* is not an empty one.                                                     *)
NoFalseCreate ==
    \A r \in rows : r.action = "create" =>
        \A o \in origin : o.api = "given" /\ Heard(first, o.kind) # "unreadable" =>
            \/ Identity(o) # r.id
            \/ o.release \in snapshot.ignored
            \/ o.annotated /\ o.release \in {x.name : x \in {y \in Releases : y.ignored}}

(* A deletion the plan states, of an object that was seen, is what the      *)
(* report shows for it, even though the manifest to delete is also planned. *)
DeletionShown ==
    LET planned == Compared(request.plan, snapshot, request.installs)
        At(i)   == request.plan[i]
    IN \A i \in planned :
        /\ At(i).path \in request.deletes
        /\ \A j \in planned : At(j).path = At(i).path => j <= i
        /\ \E o \in snapshot.resources : Identity(o) = Identity(At(i))
        => \E r \in rows : r.id = Identity(At(i)) /\ r.action = "explicit_delete"

(* What a reading covered. *)
Covered(calls) == <<[k \in DOMAIN calls.mcp |-> Heard(calls, k)], HelmOutcome(calls)>>

Readable(calls) == calls.enabled /\ \E k \in DOMAIN calls.mcp : Heard(calls, k) # "failed"

(* A decision is withdrawn for drift only when something changed in the     *)
(* namespace or the two readings did not cover the same things; a namespace *)
(* that could not be read, then or now, withdraws nothing.                  *)
DriftHasCause ==
    [][Refresh /\ drift'.invalidated =>
          /\ Readable(first) /\ Readable(last')
          /\ cluster # origin \/ Covered(first) # Covered(last')]_vars

(* An object of the baseline that is gone, in a kind that was read again,   *)
(* withdraws the decision.                                                  *)
LossIsSeen ==
    [][\A o \in snapshot.resources :
          /\ Refresh
          /\ ~\E x \in cluster : x.kind = o.kind
          /\ Heard(last', o.kind) # "failed" /\ last'.enabled
          => drift'.invalidated]_vars

(* "Drift could not be determined from complete read-only snapshot          *)
(* evidence." is what the code says when it cannot tell: otherwise an       *)
(* object reported as deleted is gone.                                      *)
DeletedIsGone ==
    [][\A c \in drift'.changes :
          Refresh /\ c.type = "deleted" => ~\E o \in cluster : Identity(o) = c.id]_vars
=============================================================================
