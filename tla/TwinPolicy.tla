----------------------------- MODULE TwinPolicy -----------------------------
(***************************************************************************)
(* The policy twin: findings, evidence checks and risk rules of a bundle,  *)
(* projected to green, amber or red (namespace_twin/policy_twin.py).       *)
(*                                                                         *)
(* An input is the bundle and the live facts as the rules tell them apart: *)
(*   blocks      guardrails that blocked, from the policy engine           *)
(*   privileged, humanApproval, autoApproval, deletes                      *)
(*   indexed, live, missingNodes, rollback, rollbackRequired               *)
(*   rows        release-delta rows [kind, action, release, changes]       *)
(*   pvcRisk, statefulRisk                                                 *)
(*   inferred    inferred Helm steps [values], valuesFiles, rendered       *)
(***************************************************************************)
EXTENDS Integers, FiniteSets, SequencesExt

Category ==
    [namespace_scope |-> "namespace_boundary", cluster_scope |-> "cluster_scope",
     secret_guard |-> "secret_handling", production_data_guard |-> "pvc_data_safety",
     approval_gate |-> "approval_policy", limits |-> "resource_quotas",
     dry_run_gate |-> "bundle_dry_run_freshness_integrity"]

Finding(category, effect) == [category |-> category, effect |-> effect]

PolicyFindings(in) ==
    {Finding(Category[b], "deny") : b \in in.blocks}
        \cup (IF in.privileged THEN {Finding("privileged_host_access", "deny")} ELSE {})
        \cup (IF in.humanApproval /\ ~in.autoApproval
              THEN {Finding("approval_policy", "approval_required")} ELSE {})
        \cup (IF in.deletes THEN {Finding("pvc_data_safety", "approval_required")} ELSE {})

Verdict(findings) ==
    IF \E f \in findings : f.effect = "deny" THEN "deny"
    ELSE IF findings # {} THEN "approval_required" ELSE "allow"

---------------------------------------------------------------------------
Satisfied(in) ==
    [bundle_integrity |-> in.indexed,
     live_namespace_snapshot |-> in.live,
     dependency_integrity |-> in.missingNodes = 0,
     rollback_evidence |-> in.rollback \/ ~in.rollbackRequired,
     authoritative_dry_run |-> FALSE]

MissingEvidence(in) == LET sat == Satisfied(in) IN {c \in DOMAIN sat : ~sat[c]}

Classification(missing) ==
    IF "bundle_integrity" \in missing THEN "unavailable"
    ELSE IF missing = {} THEN "complete" ELSE "partial"

---------------------------------------------------------------------------
Weight ==
    [pvc_create_or_explicit_delete |-> 30, statefulset_change |-> 25,
     helm_release_upgrade |-> 20, image_change |-> 15, configmap_change |-> 15,
     ingress_change |-> 15, service_selector_change |-> 20, large_replica_change |-> 10,
     missing_rollback_step |-> 30, inferred_chart_or_value |-> 20,
     partial_or_stale_live_evidence |-> 20, previous_similar_failure |-> 20,
     drift_detected |-> 25]

InferredHelmChange(in, active) ==
    LET changed == {r.release : r \in active} \ {"none"}
    IN /\ changed # {}
       /\ in.inferred # {}
       /\ ~ /\ in.valuesFiles
            /\ \A s \in in.inferred : s.values
            /\ changed \cap in.rendered # {}

RiskFacts(in, missing) ==
    LET active == {r \in in.rows : r.action # "no_op"}
        Some(P(_)) == \E r \in active : P(r)
    IN [pvc_create_or_explicit_delete |->
            in.pvcRisk /\ (in.deletes \/ Some(LAMBDA r : /\ r.kind = "PersistentVolumeClaim"
                                                          /\ r.action = "create")),
        statefulset_change |-> in.statefulRisk /\ Some(LAMBDA r : r.kind = "StatefulSet"),
        helm_release_upgrade |-> Some(LAMBDA r : r.release # "none" /\ r.action = "update"),
        image_change |-> Some(LAMBDA r : "image" \in r.changes),
        configmap_change |-> Some(LAMBDA r : r.kind = "ConfigMap"),
        ingress_change |-> Some(LAMBDA r : r.kind = "Ingress"),
        service_selector_change |->
            Some(LAMBDA r : r.kind = "Service" /\ "spec.selector" \in r.changes),
        large_replica_change |-> Some(LAMBDA r : "replicas_by_3" \in r.changes),
        missing_rollback_step |->
            in.rollbackRequired /\ (active # {} \/ in.deletes) /\ ~in.rollback,
        inferred_chart_or_value |-> InferredHelmChange(in, active),
        partial_or_stale_live_evidence |-> Classification(missing) # "complete",
        previous_similar_failure |-> FALSE,
        drift_detected |-> FALSE]

MatchedRules(in, missing) == LET facts == RiskFacts(in, missing)
                             IN {rule \in DOMAIN facts : facts[rule]}

RiskScore(matched) ==
    LET Of(rule) == IF rule \in matched THEN Weight[rule] ELSE 0
    IN Min({100, Of("pvc_create_or_explicit_delete") + Of("statefulset_change")
                 + Of("helm_release_upgrade") + Of("image_change") + Of("configmap_change")
                 + Of("ingress_change") + Of("service_selector_change") + Of("large_replica_change")
                 + Of("missing_rollback_step") + Of("inferred_chart_or_value")
                 + Of("partial_or_stale_live_evidence") + Of("previous_similar_failure")
                 + Of("drift_detected")})

RiskLevel(score) == CASE score <= 30 -> "low"
                      [] score \in 31..70 -> "medium"
                      [] score \in 71..90 -> "high"
                      [] score > 90 -> "critical"

---------------------------------------------------------------------------
(* Fault: a high score is only red when the policy has nothing to ask. *)
ApprovalBeforeRisk(verdict, missing, score, dryRunFailed) ==
    << [on |-> verdict = "deny", level |-> "red"],
       [on |-> dryRunFailed, level |-> "red"],
       [on |-> verdict = "approval_required", level |-> "amber"],
       [on |-> score >= 71, level |-> "red"],
       [on |-> Classification(missing) # "complete", level |-> "amber"],
       [on |-> score >= 31, level |-> "amber"],
       [on |-> TRUE, level |-> "green"] >>

(* The first rule that holds decides. *)
DecisionRules(verdict, missing, score, dryRunFailed) ==
    << [on |-> verdict = "deny", level |-> "red"],
       [on |-> dryRunFailed, level |-> "red"],
       [on |-> score >= 71, level |-> "red"],
       [on |-> verdict = "approval_required", level |-> "amber"],
       [on |-> Classification(missing) # "complete", level |-> "amber"],
       [on |-> score >= 31, level |-> "amber"],
       [on |-> TRUE, level |-> "green"] >>

Projection(verdict, missing, score, dryRunFailed) ==
    LET rules == DecisionRules(verdict, missing, score, dryRunFailed)
    IN rules[SelectInSeq(rules, LAMBDA r : r.on)].level

(* The assessment made with the twin, before any dry run. *)
EvaluatePolicy(in) ==
    LET missing == MissingEvidence(in)
        matched == MatchedRules(in, missing)
        verdict == Verdict(PolicyFindings(in))
    IN [verdict |-> verdict, missing |-> missing, matched |-> matched,
        level |-> Projection(verdict, missing, RiskScore(matched), FALSE)]

(* Fault: the patch keeps the risk weight of the evidence it has just completed. *)
StaleWeightFinalize(twin, status) ==
    LET failed  == status # "passed"
        missing == (twin.missing \ {"authoritative_dry_run"})
                       \cup (IF failed THEN {"authoritative_dry_run"} ELSE {})
    IN [twin EXCEPT !.missing = missing,
                    !.level = Projection(twin.verdict, missing, RiskScore(twin.matched), failed)]

(* The same assessment patched with the result of the dry run: the check is *)
(* replaced, the evidence rule re-weighed, the projection made again.       *)
FinalizePolicy(twin, status) ==
    LET failed  == status # "passed"
        missing == (twin.missing \ {"authoritative_dry_run"})
                       \cup (IF failed THEN {"authoritative_dry_run"} ELSE {})
        rule    == "partial_or_stale_live_evidence"
        matched == (twin.matched \ {rule})
                       \cup (IF Classification(missing) # "complete" THEN {rule} ELSE {})
    IN [twin EXCEPT !.missing = missing, !.matched = matched,
                    !.level = Projection(twin.verdict, missing, RiskScore(matched), failed)]
=============================================================================
