---------------------------- MODULE TwinSnapshot ----------------------------
(***************************************************************************)
(* The live snapshot a twin is compared with: which calls of the two       *)
(* inspectors answered, and what is kept of their answers                  *)
(* (namespace_twin/live_snapshot.py).                                      *)
(*                                                                         *)
(*   object  [kind, name, api, form, release, annotated, revision, spec,   *)
(*            safety, health]: form "full" or "summary"; api "given" or    *)
(*            "none"; release a Helm release or "none", annotated when it  *)
(*            is written as an annotation; spec a function from fields;    *)
(*            safety "none" when the manifest sets no safety control       *)
(*   calls   [enabled, key, rest, mcp, helmKey, helmRest, helmMcp,         *)
(*            installedOnly]: rest and mcp give the outcome per kind       *)
(*   release row  [name, ignored, installed, here]                         *)
(***************************************************************************)
EXTENDS FiniteSets, SequencesExt

CollectedKinds == {"Pod", "Service", "PersistentVolumeClaim", "Deployment", "StatefulSet", "Ingress"}

(* An answer that cannot be parsed is an answer without rows. *)
Outcomes == {"rows", "unreadable", "failed"}

NoSnapshot == [available |-> FALSE, complete |-> {}, resources |-> {}, warned |-> TRUE,
               inventory |-> FALSE, installed |-> {}, ignored |-> {}]

(* A summary row has no labels, no annotations and no specification, and    *)
(* without an API version of its own it is filed under "v1".                *)
CollectedItem(o) ==
    IF o.form = "full" THEN [o EXCEPT !.api = "given"]
    ELSE [o EXCEPT !.release = "none", !.annotated = FALSE, !.safety = "none",
                   !.spec = [f \in DOMAIN @ |-> "unread"]]

Listing(cluster, outcome, warned) ==
    LET complete == {k \in DOMAIN outcome : outcome[k] # "failed"}
    IN [NoSnapshot EXCEPT
            !.available = complete # {}, !.complete = complete,
            !.resources = {CollectedItem(o) : o \in {x \in cluster : outcome[x.kind] = "rows"}},
            !.warned = warned \/ complete # DOMAIN outcome]

(* The second inspector is asked when there is no key for the first, or     *)
(* when the first answers for no kind at all.                               *)
KindListing(cluster, calls) ==
    LET restFailed == \A k \in DOMAIN calls.rest : calls.rest[k] = "failed"
    IN IF calls.key /\ ~restFailed THEN Listing(cluster, calls.rest, FALSE)
       ELSE Listing(cluster, calls.mcp, calls.key)

HelmOutcome(calls) ==
    IF calls.helmKey /\ calls.helmRest # "failed" THEN calls.helmRest ELSE calls.helmMcp

WithHelmInventory(snapshot, releases, calls) ==
    LET outcome   == HelmOutcome(calls)
        here      == {r \in releases : outcome = "rows" /\ r.here /\ r.installed}
        ignored   == {r.name : r \in {x \in here : x.ignored}}
        prefixed  == {r.name : r \in {x \in releases : x.ignored}}
    IN [snapshot EXCEPT
            !.resources = {o \in @ : /\ o.release \notin ignored
                                     /\ ~(o.annotated /\ o.release \in prefixed)},
            !.warned = @ \/ outcome = "failed" \/ (calls.helmKey /\ calls.helmRest = "failed"),
            !.inventory = outcome # "failed" /\ calls.installedOnly,
            !.installed = {r.name : r \in here} \ ignored,
            !.ignored = ignored]

Collect(cluster, releases, calls) ==
    IF ~calls.enabled THEN NoSnapshot
    ELSE WithHelmInventory(KindListing(cluster, calls), releases, calls)

---------------------------------------------------------------------------
(* Summary and events for the runtime twin. Each of the two calls has one   *)
(* outcome; "none" says that the payload is empty.                          *)
RuntimeFacts(calls) ==
    LET Facts(summary, events, warned) ==
            [available |-> summary = "rows" \/ events = "rows",
             collected |-> events # "failed", warned |-> warned]
    IN IF ~calls.enabled THEN [available |-> FALSE, collected |-> FALSE, warned |-> TRUE]
       ELSE IF calls.key /\ (calls.summary # "failed" \/ calls.events # "failed")
       THEN [Facts(calls.summary, calls.events, "failed" \in {calls.summary, calls.events})
                EXCEPT !.available = TRUE]
       ELSE Facts(calls.mcpSummary, calls.mcpEvents,
                  calls.key \/ "failed" \in {calls.mcpSummary, calls.mcpEvents})
=============================================================================
