---------------------------- MODULE TwinRollback ----------------------------
(***************************************************************************)
(* The rollback twin: which forward steps of a plan a rollback step undoes,*)
(* what evidence there is for it, and the confidence that follows          *)
(* (namespace_twin/rollback_twin.py).                                      *)
(*                                                                         *)
(*   step    [id, named, type, mutates, says, links, refs, release,        *)
(*            commands, revision]                                          *)
(*           named: ids or titles speak of a rollback; says: a command     *)
(*           does; commands: set of "dry_run", "destructive", "pvc_delete",*)
(*           "plain"                                                       *)
(*   bundle  [steps, pvc, stateful, manifests, values, history]            *)
(*   evidence  set of observations [step, says, outcome]                   *)
(***************************************************************************)
EXTENDS Integers, FiniteSets, FiniteSetsExt

ForwardTypes == {"k8s_apply", "k8s_delete", "helm_install", "helm_upgrade"}
HelmTypes == {"helm_install", "helm_upgrade"}

ForwardSteps(bundle) ==
    {s \in bundle.steps : (s.type \in ForwardTypes \/ s.mutates) /\ ~s.named}

RollbackSteps(bundle) == {s \in bundle.steps : s.named \/ s.says}

(* Explicit references first, then shared artifacts or the same release,    *)
(* then the only pair there is.                                             *)
LinkedTo(step, forward, rollback) ==
    LET explicit == {f \in forward : f.id \in step.links}
        shared   == {f \in forward : \/ step.refs \cap f.refs # {}
                                     \/ step.release # "none" /\ step.release = f.release}
    IN IF explicit # {} THEN explicit
       ELSE IF shared # {} THEN shared
       ELSE IF Cardinality(forward) = 1 /\ Cardinality(rollback) = 1 THEN forward
       ELSE {}

LinkedForward(bundle) ==
    LET forward  == ForwardSteps(bundle)
        rollback == RollbackSteps(bundle)
    IN UNION {LinkedTo(s, forward, rollback) : s \in rollback}

HelmEvidence(bundle) ==
    LET helm == {s \in ForwardSteps(bundle) : s.type \in HelmTypes}
    IN [required |-> helm # {},
        history  |-> \/ bundle.history
                     \/ \E s \in helm \cup RollbackSteps(bundle) : s.revision > 0]

PvcReversibility(bundle) ==
    IF ~bundle.pvc /\ ~bundle.stateful THEN "not_applicable"
    ELSE IF \E s \in RollbackSteps(bundle) : "pvc_delete" \in s.commands
    THEN "not_reversible" ELSE "conditional"

DestructiveSteps(bundle) == {s \in RollbackSteps(bundle) : "destructive" \in s.commands}

RollbackProof(evidence, steps) ==
    LET ids == {s.id : s \in steps}
        observed == {o \in evidence : o.step \in ids \/ o.says}
        rejected == {o \in observed : o.outcome \in {"rejected", "warning", "unknown"}}
        accepted == {o \in observed : o.outcome = "accepted"}
    IN IF rejected # {} THEN "failed" ELSE IF accepted # {} THEN "passed" ELSE "not_run"

RollbackConfidence(score, steps, destructive) ==
    CASE destructive -> "low"
      [] ~destructive /\ steps = {} -> "unavailable"
      [] OTHER -> IF score >= 80 THEN "high" ELSE IF score >= 55 THEN "medium" ELSE "low"

Gap(condition, code) == IF condition THEN {code} ELSE {}

Points(condition, n) == IF condition THEN n ELSE 0

AssessRollback(bundle, evidence) ==
    LET forward == ForwardSteps(bundle)
        steps   == RollbackSteps(bundle)
        linked  == LinkedForward(bundle)
        helm    == HelmEvidence(bundle)
        pvc     == PvcReversibility(bundle)
        proof   == RollbackProof(evidence, steps)
        defined == steps # {} /\ linked = forward
        proven  == defined /\ proof = "passed"
        destructive == DestructiveSteps(bundle) # {}
        gaps == Gap(steps = {}, "ROLLBACK_STEP_MISSING")
                \cup Gap(steps # {} /\ linked # forward, "ROLLBACK_LINK_INCOMPLETE")
                \cup Gap(helm.required /\ ~helm.history, "HELM_HISTORY_MISSING")
                \cup Gap(~bundle.manifests /\ ~bundle.values, "PREVIOUS_ARTIFACTS_MISSING")
                \cup Gap(pvc = "conditional", "PVC_ROLLBACK_CONDITIONAL")
                \cup Gap(pvc = "not_reversible", "PVC_ROLLBACK_NOT_REVERSIBLE")
                \cup Gap(destructive, "DATA_DESTRUCTIVE_ROLLBACK")
                \cup Gap(proof # "passed", "ROLLBACK_NOT_PROVEN")
        irreversible == pvc = "not_reversible" \/ destructive
        score == IF irreversible THEN 0
                 ELSE Max({0, 100 - Points(steps = {} \/ linked # forward, 30)
                                  - Points(helm.required /\ ~helm.history, 20)
                                  - Points(~bundle.manifests /\ ~bundle.values, 15)
                                  - Points(pvc = "conditional", 20)
                                  - Points(proof # "passed", 10)})
        confidence == RollbackConfidence(score, steps, destructive)
        capped == defined /\ ~proven /\ confidence = "high"
    IN [defined |-> defined, proven |-> proven, proof |-> proof, gaps |-> gaps,
        steps |-> steps, irreversible |-> irreversible,
        score |-> IF capped THEN Min({score, 79}) ELSE score,
        confidence |-> IF capped THEN "medium" ELSE confidence]

(* Fault: the proof counts although the steps it proves do not cover the plan. *)
UncoveredEnrich(assessment, evidence) ==
    LET proof  == RollbackProof(evidence, assessment.steps)
        proven == proof = "passed"
        score  == IF proven THEN Min({100, assessment.score + 30}) ELSE assessment.score
    IN [assessment EXCEPT
            !.proof = proof, !.proven = proven, !.score = score,
            !.gaps = (@ \ {"ROLLBACK_NOT_PROVEN"}) \cup Gap(~proven, "ROLLBACK_NOT_PROVEN"),
            !.confidence = RollbackConfidence(score, assessment.steps, assessment.irreversible)]

(* The dry run of the twin patches the proof into the first assessment. *)
EnrichRollback(assessment, evidence) ==
    LET proof  == RollbackProof(evidence, assessment.steps)
        proven == assessment.defined /\ proof = "passed"
        score  == IF proven THEN Min({100, assessment.score + 10}) ELSE assessment.score
    IN [assessment EXCEPT
            !.proof = proof, !.proven = proven, !.score = score,
            !.gaps = (@ \ {"ROLLBACK_NOT_PROVEN"}) \cup Gap(~proven, "ROLLBACK_NOT_PROVEN"),
            !.confidence = RollbackConfidence(score, assessment.steps, assessment.irreversible)]
=============================================================================
