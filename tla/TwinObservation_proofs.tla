----------------------- MODULE TwinObservation_proofs -----------------------
(***************************************************************************)
(* Proofs about TwinObservation for every namespace, every answer of the   *)
(* inspectors and every plan.                                              *)
(***************************************************************************)
EXTENDS TwinObservation, TLAPS

-----------------------------------------------------------------------------
(* What a collection keeps, said of what was heard.                         *)

Complete(calls) == {k \in Kinds : Heard(calls, k) # "failed"}
Listed(c, calls) == {CollectedItem(o) : o \in {x \in c : Heard(calls, x.kind) = "rows"}}
Known(calls) == {r \in Releases : HelmOutcome(calls) = "rows" /\ r.here /\ r.installed}
IgnoredNow(calls) == {r.name : r \in {x \in Known(calls) : x.ignored}}
Prefixed == {r.name : r \in {x \in Releases : x.ignored}}
Shown(o, calls) == o.release \notin IgnoredNow(calls) /\ ~(o.annotated /\ o.release \in Prefixed)

Hears(calls) ==
    IF calls.key /\ ~(\A k \in DOMAIN calls.rest : calls.rest[k] = "failed") THEN calls.rest ELSE calls.mcp

LEMMA HearsType ==
  ASSUME NEW calls \in Calls
  PROVE  /\ Hears(calls) \in [Kinds -> Outcomes]
         /\ \A k : Heard(calls, k) = Hears(calls)[k]
         /\ DOMAIN calls.mcp = Kinds
<1>1. calls \in [enabled : BOOLEAN, key : BOOLEAN, rest : [Kinds -> Outcomes], mcp : [Kinds -> Outcomes],
                 helmKey : BOOLEAN, helmRest : Outcomes, helmMcp : Outcomes, installedOnly : BOOLEAN]
  BY ObservationAssumption
<1>2. calls.rest \in [Kinds -> Outcomes] /\ calls.mcp \in [Kinds -> Outcomes] /\ calls.key \in BOOLEAN
  BY <1>1
<1> QED
  BY <1>2 DEF Hears, Heard

LEMMA ListingIs ==
  ASSUME NEW calls \in Calls, NEW c, \A o \in c : IsObject(o)
  PROVE  LET s == KindListing(c, calls)
         IN /\ s.available = (Complete(calls) # {}) /\ s.complete = Complete(calls)
            /\ s.resources = Listed(c, calls)
            /\ DOMAIN s = DOMAIN NoSnapshot
<1>1. Hears(calls) \in [Kinds -> Outcomes] /\ \A k : Heard(calls, k) = Hears(calls)[k]
  BY HearsType
<1>2. PICK w : KindListing(c, calls) = Listing(c, Hears(calls), w)
  BY DEF KindListing, Hears
<1>3. {k \in DOMAIN Hears(calls) : Hears(calls)[k] # "failed"} = Complete(calls)
  BY <1>1 DEF Complete
<1>4. {CollectedItem(o) : o \in {x \in c : Hears(calls)[x.kind] = "rows"}} = Listed(c, calls)
  BY <1>1 DEF Listed
<1> QED
  BY <1>2, <1>3, <1>4 DEF Listing, NoSnapshot

LEMMA CollectIs ==
  ASSUME NEW calls \in Calls, NEW c, \A o \in c : IsObject(o)
  PROVE  LET s == Collect(c, Releases, calls)
         IN /\ ~calls.enabled => ~s.available /\ s.resources = {} /\ s.complete = {} /\ s.ignored = {}
            /\ calls.enabled => /\ s.available = (Complete(calls) # {})
                                /\ s.complete = Complete(calls)
                                /\ s.resources = {o \in Listed(c, calls) : Shown(o, calls)}
                                /\ s.ignored = IgnoredNow(calls)
<1>1. CASE ~calls.enabled
  BY <1>1 DEF Collect, NoSnapshot
<1>2. CASE calls.enabled
  <2> DEFINE s == KindListing(c, calls)
  <2>1. /\ s.available = (Complete(calls) # {}) /\ s.complete = Complete(calls)
        /\ s.resources = Listed(c, calls)
        /\ DOMAIN s = DOMAIN NoSnapshot
    BY ListingIs
  <2>2. Collect(c, Releases, calls) = WithHelmInventory(s, Releases, calls)
    BY <1>2 DEF Collect
  <2>3. DOMAIN s = {"available", "complete", "resources", "warned", "inventory", "installed", "ignored"}
    BY <2>1 DEF NoSnapshot
  <2> HIDE DEF s
  <2>4. /\ WithHelmInventory(s, Releases, calls).available = s.available
        /\ WithHelmInventory(s, Releases, calls).complete = s.complete
        /\ WithHelmInventory(s, Releases, calls).ignored = IgnoredNow(calls)
    BY <2>3 DEF WithHelmInventory, IgnoredNow, Known
  <2>5. WithHelmInventory(s, Releases, calls).resources = {o \in s.resources : Shown(o, calls)}
    BY <2>3 DEF WithHelmInventory, IgnoredNow, Known, Prefixed, Shown
  <2> QED
    BY <1>2, <2>1, <2>2, <2>4, <2>5
<1> QED
  BY <1>1, <1>2

-----------------------------------------------------------------------------
(* What an assessment of drift says.                                        *)

LEMMA SameIsNoChange ==
  ASSUME NEW X, X # {}
  PROVE  DriftChange(X, X).type = "same"
  BY DEF DriftChange

LEMMA GoneIsMajor ==
  ASSUME NEW X, X # {}
  PROVE  /\ DriftChange(X, {}).type = "deleted"
         /\ DriftChange(X, {}).class \in {"major", "critical"}
  BY DEF DriftChange

LEMMA ChangeClass ==
  ASSUME NEW X, NEW Y
  PROVE  DriftChange(X, Y).class \in {"minor", "major", "critical"}
  BY DEF DriftChange

LEMMA MaxIs ==
  ASSUME NEW S \in SUBSET (0..3), S # {}
  PROVE  Max(S) \in S /\ \A y \in S : Max(S) >= y
<1>1. \E x \in S : \A y \in S : x >= y
  <2>1. CASE 3 \in S
    BY <2>1
  <2>2. CASE 3 \notin S /\ 2 \in S
    BY <2>2
  <2>3. CASE 3 \notin S /\ 2 \notin S /\ 1 \in S
    BY <2>3
  <2>4. CASE 3 \notin S /\ 2 \notin S /\ 1 \notin S
    <3>1. \A y \in S : y = 0
      BY <2>4
    <3>2. PICK y \in S : y = 0
      BY <3>1
    <3>3. \A z \in S : y >= z
      BY <3>1, <3>2
    <3> QED
      BY <3>2, <3>3
  <2> QED
    BY <2>1, <2>2, <2>3, <2>4
<1> QED
  BY <1>1 DEF Max

LEMMA LevelIs ==
  /\ DOMAIN Level = {"none", "minor", "major", "critical"}
  /\ Level["none"] = 0 /\ Level["minor"] = 1 /\ Level["major"] = 2 /\ Level["critical"] = 3
  BY DEF Level

LEMMA StatusIs ==
  ASSUME NEW changes, \A c \in changes : c.class \in {"minor", "major", "critical"},
         NEW stale \in BOOLEAN
  PROVE  LET worst  == Max({0} \cup {Level[c.class] : c \in changes})
             status == IF worst = 0 /\ stale THEN "minor" ELSE CHOOSE l \in DOMAIN Level : Level[l] = worst
         IN /\ status \in DOMAIN Level
            /\ changes = {} => status \in {"none", "minor"}
            /\ (\E c \in changes : c.class \in {"major", "critical"}) => status \in {"major", "critical"}
<1> DEFINE S      == {0} \cup {Level[c.class] : c \in changes}
           worst  == Max(S)
           level  == CHOOSE l \in DOMAIN Level : Level[l] = worst
<1>1. S \in SUBSET (0..3) /\ S # {}
  BY LevelIs
<1>2. worst \in S /\ \A y \in S : worst >= y
  BY <1>1, MaxIs
<1>3. worst \in 0..3
  BY <1>1, <1>2
<1>4. changes = {} => worst = 0
  BY <1>2
<1>5. ASSUME NEW c \in changes, c.class \in {"major", "critical"} PROVE worst \in {2, 3}
  <2>1. Level[c.class] \in {2, 3}
    BY <1>5, LevelIs
  <2>2. worst >= Level[c.class]
    BY <1>2
  <2> QED
    BY <2>1, <2>2, <1>3
<1> HIDE DEF S, worst
<1>6. level \in DOMAIN Level /\ Level[level] = worst
  <2>1. \E l \in DOMAIN Level : Level[l] = worst
    BY <1>3, LevelIs
  <2> QED
    BY <2>1
<1> HIDE DEF level
<1>7. /\ worst = 0 => level = "none"
      /\ worst \in {2, 3} => level \in {"major", "critical"}
  BY <1>6, LevelIs
<1> QED
  BY <1>4, <1>5, <1>6, <1>7, LevelIs DEF S, worst, level

LEMMA DriftIs ==
  ASSUME NEW before, NEW after, NEW stale \in BOOLEAN
  PROVE  LET changes == DriftChanges(before.resources, after.resources)
             d       == AssessDrift(before, after, stale)
         IN /\ d.status \in DOMAIN Level \cup {"unknown"}
            /\ d.invalidated => before.available /\ after.available /\ changes # {}
            /\ before.available /\ after.available /\ (\E c \in changes : c.class \in {"major", "critical"})
                   => d.invalidated
<1> DEFINE changes == DriftChanges(before.resources, after.resources)
           worst   == Max({0} \cup {Level[c.class] : c \in changes})
           status  == IF worst = 0 /\ stale THEN "minor" ELSE CHOOSE l \in DOMAIN Level : Level[l] = worst
<1>1. \A c \in changes : c.class \in {"minor", "major", "critical"}
  BY ChangeClass DEF DriftChanges
<1>2. AssessDrift(before, after, stale)
        = IF before.available /\ after.available THEN Assessment(changes, status, stale)
          ELSE Assessment({}, "unknown", stale)
  BY DEF AssessDrift
<1> HIDE DEF changes
<1>3. /\ status \in DOMAIN Level
      /\ changes = {} => status \in {"none", "minor"}
      /\ (\E c \in changes : c.class \in {"major", "critical"}) => status \in {"major", "critical"}
  BY <1>1, StatusIs, ZenonT(30)
<1> HIDE DEF worst, status
<1>4. AssessDrift(before, after, stale).invalidated
        = (before.available /\ after.available /\ status \in {"major", "critical"})
  BY <1>2 DEF Assessment
<1>5. AssessDrift(before, after, stale).status \in {status, "unknown"}
  BY <1>2 DEF Assessment
<1> QED
  BY <1>3, <1>4, <1>5 DEF changes

LEMMA NothingChanged ==
  ASSUME NEW X
  PROVE  DriftChanges(X, X) = {}
<1> SUFFICES ASSUME NEW c \in DriftChanges(X, X) PROVE FALSE
  OBVIOUS
<1>1. PICK id \in {Identity(o) : o \in X} :
         /\ c = DriftChange({o \in X : Identity(o) = id}, {o \in X : Identity(o) = id})
         /\ c.type # "same"
  BY DEF DriftChanges
<1>2. {o \in X : Identity(o) = id} # {}
  BY <1>1
<1> QED
  BY <1>1, <1>2, SameIsNoChange

LEMMA LossIsMajor ==
  ASSUME NEW X, NEW Y, NEW o \in X, \A y \in Y : Identity(y) # Identity(o)
  PROVE  \E c \in DriftChanges(X, Y) : c.class \in {"major", "critical"}
<1> DEFINE old == {x \in X : Identity(x) = Identity(o)}
           new == {x \in Y : Identity(x) = Identity(o)}
           c   == DriftChange(old, new)
<1>1. new = {} /\ old # {}
  OBVIOUS
<1>2. c.type = "deleted" /\ c.class \in {"major", "critical"}
  BY <1>1, GoneIsMajor
<1>3. Identity(o) \in {Identity(x) : x \in X \cup Y}
  OBVIOUS
<1>4. c \in DriftChanges(X, Y)
  BY <1>2, <1>3 DEF DriftChanges
<1> QED
  BY <1>2, <1>4

-----------------------------------------------------------------------------
(* The inductive invariant: what a twin keeps is what was read.             *)

Kept ==
    /\ request \in Plans
    /\ first \in Calls /\ last \in Calls
    /\ \A o \in origin \cup cluster : IsObject(o)
    /\ snapshot = Collect(origin, Releases, first)
    /\ rows = ReleaseDelta(request.plan, snapshot, request.installs, request.deletes)

LEMMA AlwaysKept == Spec => []Kept
<1>1. Init => Kept
  BY ObservationAssumption DEF Init, Kept
<1>2. Kept /\ [Next]_vars => Kept'
  <2> SUFFICES ASSUME Kept, [Next]_vars PROVE Kept'
    OBVIOUS
  <2>1. CASE Edit
    BY <2>1 DEF Kept, Edit
  <2>2. CASE Refresh
    BY <2>2 DEF Kept, Refresh
  <2>3. CASE UNCHANGED vars
    BY <2>3 DEF Kept, vars
  <2> QED
    BY <2>1, <2>2, <2>3 DEF Next
<1> QED
  BY <1>1, <1>2, PTL DEF Spec

-----------------------------------------------------------------------------
(* The properties.                                                          *)

\* A row is a stated deletion of an object that was seen, or comes from the last
\* manifest of an identity nobody deletes.
LEMMA RowsAre ==
  ASSUME NEW plan, NEW s, NEW installs, NEW deletes,
         NEW r \in ReleaseDelta(plan, s, installs, deletes)
  PROVE  LET planned == Compared(plan, s, installs)
             deleted == Deleted(plan, planned, s, deletes)
         IN \/ \E p \in deleted : r = DeletedRow(p, s)
            \/ \E i \in Latest(plan, planned) : /\ \A p \in deleted : Identity(p) # Identity(plan[i])
                                                /\ r = PlannedRow(plan[i], s)
<1> DEFINE planned == Compared(plan, s, installs)
           deleted == Deleted(plan, planned, s, deletes)
           kept    == {i \in Latest(plan, planned) : \A p \in deleted : Identity(p) # Identity(plan[i])}
<1>1. ReleaseDelta(plan, s, installs, deletes)
        = {DeletedRow(p, s) : p \in deleted} \cup {PlannedRow(plan[i], s) : i \in kept}
  BY DEF ReleaseDelta
<1> HIDE DEF planned, deleted
<1> QED
  BY <1>1 DEF planned, deleted

\* The identity and the action of a row.
LEMMA RowIs ==
  ASSUME NEW p, NEW s
  PROVE  /\ DeletedRow(p, s).id = Identity(p) /\ DeletedRow(p, s).action = "explicit_delete"
         /\ PlannedRow(p, s).id = Identity(p)
         /\ PlannedRow(p, s).action \in {"create", "update", "no_op", "unknown", "immutable_conflict"}
<1>1. DeletedRow(p, s).id = Identity(p) /\ DeletedRow(p, s).action = "explicit_delete"
  BY DEF DeletedRow
<1> DEFINE current == {o \in s.resources : Identity(o) = Identity(p)}
           changes == IF current = {} THEN {} ELSE FieldChanges(CHOOSE o \in current : TRUE, p)
           action  == CASE current = {} /\ s.available /\ p.kind \in s.complete -> "create"
                        [] current = {} /\ ~(s.available /\ p.kind \in s.complete) -> "unknown"
                        [] current # {} /\ changes = {} -> "no_op"
                        [] current # {} /\ changes # {} ->
                              IF ImmutableConflict(p.kind, changes) THEN "immutable_conflict" ELSE "update"
<1>2. action \in {"create", "update", "no_op", "unknown", "immutable_conflict"}
  <2> HIDE DEF current, changes
  <2> QED
    OBVIOUS
<1>3. PlannedRow(p, s).id = Identity(p) /\ PlannedRow(p, s).action = action
  BY DEF PlannedRow
<1> QED
  BY <1>1, <1>2, <1>3

\* A deletion is shown the same whichever manifest states it.
LEMMA SameDeletion ==
  ASSUME NEW p, NEW q, NEW s, Identity(p) = Identity(q)
  PROVE  DeletedRow(p, s) = DeletedRow(q, s)
  BY DEF DeletedRow

\* An identity has one row.
LEMMA OneRow ==
  ASSUME NEW plan, DOMAIN plan = 1..Len(plan), NEW s, NEW installs, NEW deletes,
         NEW r \in ReleaseDelta(plan, s, installs, deletes),
         NEW t \in ReleaseDelta(plan, s, installs, deletes), r.id = t.id
  PROVE  r = t
<1> DEFINE planned == Compared(plan, s, installs)
           deleted == Deleted(plan, planned, s, deletes)
           Stated(x)   == \E p \in deleted : x = DeletedRow(p, s)
           Manifest(x) == \E i \in Latest(plan, planned) : /\ \A p \in deleted : Identity(p) # Identity(plan[i])
                                                           /\ x = PlannedRow(plan[i], s)
<1>1. (Stated(r) \/ Manifest(r)) /\ (Stated(t) \/ Manifest(t))
  BY RowsAre
<1>2. planned \subseteq Int
  BY DEF Compared
<1> HIDE DEF planned, deleted
<1>3. CASE Stated(r) /\ Stated(t)
  BY <1>3, RowIs, SameDeletion
<1>4. CASE Manifest(r) /\ Manifest(t)
  <2>1. PICK i \in Latest(plan, planned) : r = PlannedRow(plan[i], s)
    BY <1>4
  <2>2. PICK j \in Latest(plan, planned) : t = PlannedRow(plan[j], s)
    BY <1>4
  <2>3. Identity(plan[i]) = Identity(plan[j])
    BY <2>1, <2>2, RowIs
  <2>4. i = j
    BY <1>2, <2>3 DEF Latest
  <2> QED
    BY <2>1, <2>2, <2>4
<1> QED
  BY <1>1, <1>3, <1>4, RowIs

\* What the collector keeps of an object.
LEMMA ItemIs ==
  ASSUME NEW o, IsObject(o)
  PROVE  LET item == CollectedItem(o)
         IN /\ item.kind = o.kind /\ item.name = o.name
            /\ item.api = IF o.form = "full" THEN "given" ELSE o.api
            /\ item.release = (IF o.form = "full" THEN o.release ELSE "none")
            /\ item.annotated = (IF o.form = "full" THEN o.annotated ELSE FALSE)
<1>1. DOMAIN o = {"kind", "name", "api", "form", "release", "annotated", "revision", "spec", "safety", "health"}
  BY DEF IsObject
<1> QED
  BY <1>1 DEF CollectedItem

\* What is said of the drift is one of the levels, or that it is not known.
DriftTyped == drift.status \in DOMAIN Level \cup {"unknown"}

(* What the collector keeps and what the reports say stay in their sets,    *)
(* and delta.py shows one row for an identity: a stated deletion wins over  *)
(* the manifests, and the last of these over the others.                    *)
THEOREM ObservationTyped == Spec => []TypeOK
<1>1. Init => DriftTyped
  BY LevelIs DEF Init, InitialDrift, Assessment, DriftTyped
<1>2. DriftTyped /\ [Next]_vars => DriftTyped'
  <2>1. Refresh => DriftTyped'
    BY DriftIs DEF Refresh, DriftTyped
  <2> QED
    BY <2>1 DEF Next, Edit, vars, DriftTyped
<1>3. Kept /\ DriftTyped => TypeOK
  <2> SUFFICES ASSUME Kept, DriftTyped PROVE TypeOK
    OBVIOUS
  <2>1. snapshot.complete \subseteq CollectedKinds
    <3>1. snapshot.complete \in {{}, Complete(first)}
      <4>1. first \in Calls /\ (\A o \in origin : IsObject(o)) /\ snapshot = Collect(origin, Releases, first)
        BY DEF Kept
      <4> QED
        BY <4>1, CollectIs
    <3> QED
      BY <3>1, ObservationAssumption DEF Complete
  <2>2. rows = ReleaseDelta(request.plan, snapshot, request.installs, request.deletes)
    BY DEF Kept
  <2>3. ASSUME NEW r \in rows
        PROVE  r.action \in {"create", "update", "no_op", "unknown", "immutable_conflict", "explicit_delete"}
    <3>1. \E p : r = DeletedRow(p, snapshot) \/ r = PlannedRow(p, snapshot)
      BY <2>2, <2>3, RowsAre
    <3> QED
      BY <3>1, RowIs
  <2>4. DOMAIN request.plan = 1..Len(request.plan)
    BY ObservationAssumption DEF Kept
  <2>5. ASSUME NEW r \in rows, NEW t \in rows, r.id = t.id PROVE r = t
    BY <2>2, <2>4, <2>5, OneRow
  <2> QED
    BY <2>1, <2>3, <2>5 DEF TypeOK, DriftTyped
<1> QED
  BY <1>1, <1>2, <1>3, AlwaysKept, PTL DEF Spec

(* An object that exists is never announced as a creation, however many of  *)
(* the inspectors' calls failed: delta.py creates only what a complete      *)
(* listing of its kind lacks.                                               *)
THEOREM CreationsAreReal == Spec => []NoFalseCreate
<1>1. Kept => NoFalseCreate
  <2> SUFFICES ASSUME Kept, NEW r \in rows, r.action = "create",
                      NEW o \in origin, o.api = "given", Heard(first, o.kind) # "unreadable",
                      Identity(o) = r.id
               PROVE  \/ o.release \in snapshot.ignored
                      \/ o.annotated /\ o.release \in {x.name : x \in {y \in Releases : y.ignored}}
    BY DEF NoFalseCreate
  <2>1. PICK p : r = PlannedRow(p, snapshot)
    <3>1. \E p : r = DeletedRow(p, snapshot) \/ r = PlannedRow(p, snapshot)
      <4>1. r \in ReleaseDelta(request.plan, snapshot, request.installs, request.deletes)
        BY DEF Kept
      <4> QED
        BY <4>1, RowsAre
    <3>2. \A p : DeletedRow(p, snapshot).action # "create"
      BY DEF DeletedRow
    <3> QED
      BY <3>1, <3>2
  <2>2. /\ r.id = Identity(p)
        /\ {x \in snapshot.resources : Identity(x) = Identity(p)} = {}
        /\ snapshot.available /\ p.kind \in snapshot.complete
    BY <2>1 DEF PlannedRow
  <2>3. IsObject(o) /\ first \in Calls /\ \A x \in origin : IsObject(x)
    BY DEF Kept
  <2>4. snapshot = Collect(origin, Releases, first)
    BY DEF Kept
  <2>5. o.kind = p.kind
    BY <2>2 DEF Identity
  <2>6. /\ first.enabled
        /\ snapshot.complete = Complete(first)
        /\ snapshot.resources = {x \in Listed(origin, first) : Shown(x, first)}
        /\ snapshot.ignored = IgnoredNow(first)
    <3>1. first.enabled
      BY <2>2, <2>3, <2>4, CollectIs
    <3> QED
      BY <3>1, <2>3, <2>4, CollectIs
  <2>7. Heard(first, o.kind) = "rows"
    <3>1. o.kind \in Kinds /\ Heard(first, o.kind) # "failed"
      BY <2>2, <2>5, <2>6 DEF Complete
    <3>2. Heard(first, o.kind) \in Outcomes
      BY <2>3, <3>1, HearsType
    <3> QED
      BY <3>1, <3>2 DEF Outcomes
  <2> DEFINE item == CollectedItem(o)
  <2>8. item \in Listed(origin, first)
    BY <2>7 DEF Listed
  <2>9. /\ item.kind = o.kind /\ item.name = o.name
        /\ item.api = "given"
        /\ item.release = (IF o.form = "full" THEN o.release ELSE "none")
        /\ item.annotated = (IF o.form = "full" THEN o.annotated ELSE FALSE)
    BY <2>3, ItemIs
  <2> HIDE DEF item
  <2>10. Identity(item) = Identity(p)
    BY <2>2, <2>9 DEF Identity
  <2>11. ~Shown(item, first)
    BY <2>2, <2>6, <2>8, <2>10
  <2>12. "none" \notin IgnoredNow(first)
    BY ObservationAssumption DEF IgnoredNow, Known
  <2> QED
    BY <2>6, <2>9, <2>11, <2>12 DEF Shown, Prefixed
<1> QED
  BY <1>1, AlwaysKept, PTL

(* A deletion the plan states, of an object that was seen, is what the      *)
(* report shows for it (delta.py merges the stated deletions last).         *)
THEOREM DeletionsAreShown == Spec => []DeletionShown
<1>1. Kept => DeletionShown
  <2> DEFINE At(i)   == request.plan[i]
             planned == Compared(request.plan, snapshot, request.installs)
             deleted == Deleted(request.plan, planned, snapshot, request.deletes)
  <2> SUFFICES ASSUME Kept, NEW i \in planned,
                      At(i).path \in request.deletes,
                      \A j \in planned : At(j).path = At(i).path => j <= i,
                      \E o \in snapshot.resources : Identity(o) = Identity(At(i))
               PROVE  \E r \in rows : r.id = Identity(At(i)) /\ r.action = "explicit_delete"
    BY DEF DeletionShown
  <2>1. {DeletedRow(p, snapshot) : p \in deleted} \subseteq rows
    BY DEF Kept, ReleaseDelta
  <2> HIDE DEF planned
  <2>2. At(i) \in LastAt(request.plan, planned, At(i).path)
    BY DEF LastAt
  <2>3. At(i) \in deleted
    BY <2>2 DEF Deleted
  <2>4. DeletedRow(At(i), snapshot) \in rows
    BY <2>1, <2>3
  <2> QED
    BY <2>4, RowIs
<1> QED
  BY <1>1, AlwaysKept, PTL

(* A decision is withdrawn for drift only when something changed or the two *)
(* readings did not cover the same things: a failed call alone, on the same *)
(* listings, withdraws nothing (drift_twin.py).                             *)
THEOREM DriftIsCaused == Spec => DriftHasCause
<1>1. Kept /\ [Next]_vars =>
        [Refresh /\ drift'.invalidated =>
          /\ Readable(first) /\ Readable(last')
          /\ cluster # origin \/ Covered(first) # Covered(last')]_vars
  <2> SUFFICES ASSUME Kept, Refresh, drift'.invalidated
               PROVE  /\ Readable(first) /\ Readable(last')
                      /\ cluster # origin \/ Covered(first) # Covered(last')
    OBVIOUS
  <2>1. PICK calls \in Calls, stale \in BOOLEAN :
           /\ last' = calls
           /\ drift' = AssessDrift(snapshot, Collect(cluster, Releases, calls), stale)
    BY DEF Refresh
  <2> DEFINE current == Collect(cluster, Releases, calls)
  <2>2. /\ snapshot.available /\ current.available
        /\ DriftChanges(snapshot.resources, current.resources) # {}
    BY <2>1, DriftIs
  <2>3. /\ first \in Calls /\ snapshot = Collect(origin, Releases, first)
        /\ (\A o \in origin : IsObject(o)) /\ (\A o \in cluster : IsObject(o))
    BY DEF Kept
  <2>4. first.enabled /\ calls.enabled
    BY <2>2, <2>3, CollectIs
  <2>5. /\ Complete(first) # {}
        /\ snapshot.resources = {o \in Listed(origin, first) : Shown(o, first)}
    BY <2>2, <2>3, <2>4, CollectIs
  <2>6. /\ Complete(calls) # {}
        /\ current.resources = {o \in Listed(cluster, calls) : Shown(o, calls)}
    BY <2>2, <2>3, <2>4, CollectIs
  <2>7. DOMAIN first.mcp = Kinds /\ DOMAIN calls.mcp = Kinds
    BY <2>3, HearsType
  <2>8. Readable(first) /\ Readable(calls)
    BY <2>4, <2>5, <2>6, <2>7 DEF Readable, Complete
  <2> HIDE DEF current
  <2>9. ASSUME cluster = origin, Covered(first) = Covered(calls) PROVE FALSE
    <3>1. /\ [k \in Kinds |-> Heard(first, k)] = [k \in Kinds |-> Heard(calls, k)]
          /\ HelmOutcome(first) = HelmOutcome(calls)
      BY <2>7, <2>9 DEF Covered
    <3>2. \A k \in Kinds : Heard(first, k) = Heard(calls, k)
      BY <3>1
    <3>3. \A o \in origin : o.kind \in Kinds
      BY <2>3 DEF IsObject
    <3>4. Listed(origin, first) = Listed(cluster, calls)
      BY <2>9, <3>2, <3>3 DEF Listed
    <3>5. \A o : Shown(o, first) = Shown(o, calls)
      BY <3>1 DEF Shown, IgnoredNow, Known
    <3>6. snapshot.resources = current.resources
      BY <2>5, <2>6, <3>4, <3>5
    <3> QED
      BY <2>2, <3>6, NothingChanged
  <2> QED
    BY <2>1, <2>8, <2>9
<1> QED
  BY <1>1, AlwaysKept, PTL DEF Spec, DriftHasCause

(* An object of the baseline whose kind was read again and is empty         *)
(* withdraws the decision.                                                  *)
THEOREM LossesAreSeen == Spec => LossIsSeen
<1>1. Kept /\ [Next]_vars =>
        [\A o \in snapshot.resources :
          /\ Refresh
          /\ ~\E x \in cluster : x.kind = o.kind
          /\ Heard(last', o.kind) # "failed" /\ last'.enabled
          => drift'.invalidated]_vars
  <2> SUFFICES ASSUME Kept, NEW o \in snapshot.resources, Refresh,
                      ~\E x \in cluster : x.kind = o.kind,
                      Heard(last', o.kind) # "failed", last'.enabled
               PROVE  drift'.invalidated
    OBVIOUS
  <2>1. PICK calls \in Calls, stale \in BOOLEAN :
           /\ last' = calls
           /\ drift' = AssessDrift(snapshot, Collect(cluster, Releases, calls), stale)
    BY DEF Refresh
  <2> DEFINE current == Collect(cluster, Releases, calls)
  <2>2. /\ first \in Calls /\ snapshot = Collect(origin, Releases, first)
        /\ (\A x \in origin : IsObject(x)) /\ (\A x \in cluster : IsObject(x))
    BY DEF Kept
  <2>3. first.enabled
    BY <2>2, CollectIs
  <2>4. /\ snapshot.available = (Complete(first) # {})
        /\ o \in Listed(origin, first)
    BY <2>2, <2>3, CollectIs
  <2>5. PICK x \in origin : o = CollectedItem(x) /\ Heard(first, x.kind) = "rows"
    BY <2>4 DEF Listed
  <2>6. o.kind = x.kind /\ o.kind \in Kinds
    <3>1. IsObject(x)
      BY <2>2
    <3> QED
      BY <2>5, <3>1, ItemIs DEF IsObject
  <2>7. snapshot.available
    BY <2>4, <2>5, <2>6 DEF Complete
  <2>8. /\ current.available = (Complete(calls) # {})
        /\ current.resources \subseteq Listed(cluster, calls)
    BY <2>1, <2>2, CollectIs
  <2>9. current.available
    BY <2>1, <2>6, <2>8 DEF Complete
  <2>10. \A y \in current.resources : Identity(y) # Identity(o)
    <3> SUFFICES ASSUME NEW y \in Listed(cluster, calls), Identity(y) = Identity(o) PROVE FALSE
      BY <2>8
    <3>1. PICK z \in cluster : y = CollectedItem(z)
      BY DEF Listed
    <3>2. y.kind = z.kind
      BY <2>2, <3>1, ItemIs
    <3>3. y.kind = o.kind
      BY DEF Identity
    <3> QED
      BY <3>2, <3>3
  <2>11. \E c \in DriftChanges(snapshot.resources, current.resources) : c.class \in {"major", "critical"}
    BY <2>10, LossIsMajor
  <2> HIDE DEF current
  <2> QED
    BY <2>1, <2>7, <2>9, <2>11, DriftIs DEF current
<1> QED
  BY <1>1, AlwaysKept, PTL DEF Spec, LossIsSeen
=============================================================================
