---------------------------- MODULE TwinEvidence ----------------------------
(***************************************************************************)
(* Evidence the twin accepts from outside: an isolated replay              *)
(* (namespace_twin/mop_replay_twin.py) and the claims of a release note    *)
(* (namespace_twin/release_note_validation.py).                            *)
(***************************************************************************)
EXTENDS Integers, FiniteSets, SequencesExt

(* A replay payload as the validation tells payloads apart:                 *)
(*   approved, approvalId, mode, target, secretsCopied, dataCopied,         *)
(*   strategy, timeline (seq of [sequence, status, complete]),              *)
(*   checks (set of [type, status]), cleanup                                *)
ReplayModes == {"mimic_namespace", "ephemeral_cluster"}
TimelineStatuses == {"pending", "running", "passed", "warning", "failed", "skipped"}
RequiredChecks == {"readiness", "smoke_test", "cleanup"}
CheckTypes == RequiredChecks \cup {"helm_hook", "init_container", "pvc_binding", "service", "log"}
CheckStatuses == {"passed", "warning", "failed", "skipped", "not_available"}

TimelineOk(timeline) ==
    /\ timeline # << >>
    /\ \A i \in DOMAIN timeline : /\ timeline[i].sequence = i
                                  /\ timeline[i].status \in TimelineStatuses
                                  /\ timeline[i].complete

ChecksOk(checks) ==
    /\ \A c \in checks : c.type \in CheckTypes /\ c.status \in CheckStatuses
    /\ RequiredChecks \subseteq {c.type : c \in checks}

(* target: "esda_twin" (a DNS label with the replay prefix), "other",       *)
(* "source", "target" and "target_cluster" (what it must not be).           *)
Isolated(p) == \/ p.mode = "mimic_namespace" /\ p.target = "esda_twin"
               \/ p.mode = "ephemeral_cluster" /\ p.target \notin {"none", "target_cluster"}

ReplayAccepted(p) ==
    /\ p.approved /\ p.approvalId
    /\ p.mode \in ReplayModes
    /\ Isolated(p)
    /\ ~p.secretsCopied /\ ~p.dataCopied
    /\ p.strategy \in {"synthetic", "placeholder", "redacted"}
    /\ TimelineOk(p.timeline)
    /\ ChecksOk(p.checks)
    /\ p.cleanup \in {"completed", "failed"}

ReplayStatus(p) ==
    IF \/ p.cleanup = "failed"
       \/ \E i \in DOMAIN p.timeline : p.timeline[i].status = "failed"
       \/ \E c \in p.checks : c.status = "failed"
    THEN "failed" ELSE "passed"

(* Fault: the outcome of the checks is left out of the result. *)
ChecksIgnored(p) ==
    IF \/ p.cleanup = "failed"
       \/ \E i \in DOMAIN p.timeline : p.timeline[i].status = "failed"
    THEN "failed" ELSE "passed"

---------------------------------------------------------------------------
(* A release note: claims (seq of [category, text], text one of "plain",    *)
(* "negated", "blank"), against the deltas and facts of the twin.           *)
(*   delta [kind, words, action]; facts [rollback, risky, observed, drift,  *)
(*   runtime]                                                               *)
ClaimCategories == {"image", "configuration", "migration", "pvc_storage", "rbac", "route",
                    "rollback", "breaking_change", "known_risk", "other"}

DeltaCategory(d) ==
    CASE "migrat" \in d.words -> {"migration"}
      [] "migrat" \notin d.words /\ (d.kind \in {"persistentvolumeclaim"} \/ "pvc" \in d.words)
            -> {"pvc_storage"}
      [] OTHER -> IF d.kind = "configmap" \/ "config" \in d.words THEN {"configuration"}
                  ELSE IF d.kind \in {"role", "rolebinding", "serviceaccount"} THEN {"rbac"}
                  ELSE IF d.kind \in {"ingress", "service"} THEN {"route"}
                  ELSE IF "image" \in d.words THEN {"image"} ELSE {}

EvidenceCategories(deltas, facts) ==
    (UNION {DeltaCategory(d) : d \in deltas})
        \cup (IF \E d \in deltas : d.action \in {"explicit_delete", "immutable_conflict"}
              THEN {"breaking_change"} ELSE {})
        \cup (IF facts.rollback THEN {"rollback"} ELSE {})
        \cup (IF \/ facts.risky \/ facts.observed \/ facts.drift
                 \/ facts.runtime \in {"medium", "high", "critical", "unknown"}
              THEN {"known_risk"} ELSE {})
        \cup (IF deltas # {} THEN {"other"} ELSE {})

ClaimCategory(claim) == IF claim.category \in ClaimCategories THEN claim.category ELSE "other"

ClaimStatus(claim, evidence) ==
    IF ClaimCategory(claim) \notin evidence THEN "unsupported"
    ELSE IF claim.text = "negated" THEN "contradicted" ELSE "supported"

(* Fault: a claim without text still marks its category as documented. *)
BlankClaims(claims, deltas, facts) ==
    LET evidence == EvidenceCategories(deltas, facts)
        said     == {i \in DOMAIN claims : claims[i].text # "blank"}
        rows     == {[category |-> ClaimCategory(claims[i]), status |-> ClaimStatus(claims[i], evidence)]
                        : i \in said}
        missing  == {[category |-> c, status |-> "missing"]
                        : c \in evidence \ ({"other"} \cup {ClaimCategory(claims[i]) : i \in DOMAIN claims})}
        all      == rows \cup missing
        Some(st) == \E r \in all : r.status = st
    IN [rows |-> all,
        status |-> IF Some("contradicted") THEN "failed"
                   ELSE IF Some("unsupported") \/ Some("missing") THEN "warning" ELSE "passed"]

ValidateNote(claims, deltas, facts) ==
    LET evidence == EvidenceCategories(deltas, facts)
        said     == {i \in DOMAIN claims : claims[i].text # "blank"}
        rows     == {[category |-> ClaimCategory(claims[i]), status |-> ClaimStatus(claims[i], evidence)]
                        : i \in said}
        missing  == {[category |-> c, status |-> "missing"]
                        : c \in evidence \ ({"other"} \cup {r.category : r \in rows})}
        all      == rows \cup missing
        Some(st) == \E r \in all : r.status = st
    IN [rows |-> all,
        status |-> IF Some("contradicted") THEN "failed"
                   ELSE IF Some("unsupported") \/ Some("missing") THEN "warning" ELSE "passed"]
=============================================================================
