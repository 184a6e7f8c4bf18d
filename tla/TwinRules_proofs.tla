-------------------------- MODULE TwinRules_proofs --------------------------
(***************************************************************************)
(* What the rules of the namespace twin guarantee, for every input: a      *)
(* release note that leaves nothing silent, a policy that never decides    *)
(* better for worse inputs and whose patched assessment is the recomputed  *)
(* one, a runtime score that no further signal lowers, a rollback          *)
(* assessment whose patch agrees with a direct one, references of the      *)
(* graph that are found when they are planned, and cycles of the graph     *)
(* that are reported exactly when there are any. A case never changes once *)
(* it is taken, so each theorem is the rule's own argument about one input *)
(* of its rule (CaseInvariant).                                            *)
(***************************************************************************)
EXTENDS TwinRules, FiniteSetTheorems, FunctionTheorems, WellFoundedInduction, TLAPS

-----------------------------------------------------------------------------
(* A case is taken from the inputs of its rule.                             *)

CaseInv ==
    /\ Is("policy")   => case.in \in PolicyInputs
    /\ Is("runtime")  => case.in \in RuntimeInputs
    /\ Is("graph")    => case.in \in GraphInputs

\* A case once taken stays, so its input is one of the inputs of its rule.
LEMMA CaseInvariant == Spec => []CaseInv
<1>1. Init => CaseInv
  BY DEF Init, NoCase, CaseInv, Is
<1>2. CaseInv /\ [Next]_case => CaseInv'
  <2> SUFFICES ASSUME CaseInv, [Next]_case PROVE CaseInv'
    OBVIOUS
  <2>1. CASE PolicyCase
    BY <2>1 DEF PolicyCase, CaseInv, Is
  <2>2. CASE RuntimeCase
    BY <2>2 DEF RuntimeCase, CaseInv, Is
  <2>3. CASE RollbackCase
    BY <2>3 DEF RollbackCase, CaseInv, Is
  <2>4. CASE NoteCase
    BY <2>4 DEF NoteCase, CaseInv, Is
  <2>5. CASE GraphCase
    BY <2>5 DEF GraphCase, CaseInv, Is
  <2>6. CASE UNCHANGED case
    BY <2>6 DEF CaseInv, Is
  <2> QED
    BY <2>1, <2>2, <2>3, <2>4, <2>5, <2>6 DEF Next
<1> QED
  BY <1>1, <1>2, PTL DEF Spec

\* The least and the greatest of two numbers.
LEMMA MinMax ==
  ASSUME NEW a \in Int, NEW b \in Int
  PROVE  /\ Min({a, b}) = IF a <= b THEN a ELSE b
         /\ Max({a, b}) = IF a >= b THEN a ELSE b
<1>1. ASSUME NEW x \in {a, b}, NEW y \in {a, b}, \A z \in {a, b} : x <= z, \A z \in {a, b} : y <= z
      PROVE  x = y
  BY <1>1
<1>2. ASSUME NEW x \in {a, b}, NEW y \in {a, b}, \A z \in {a, b} : x >= z, \A z \in {a, b} : y >= z
      PROVE  x = y
  BY <1>2
<1> DEFINE m == IF a <= b THEN a ELSE b
           n == IF a >= b THEN a ELSE b
<1>3. m \in {a, b} /\ \A z \in {a, b} : m <= z
  OBVIOUS
<1>4. n \in {a, b} /\ \A z \in {a, b} : n >= z
  OBVIOUS
<1> HIDE DEF m, n
<1>5. Min({a, b}) = m
  BY <1>1, <1>3 DEF Min
<1>6. Max({a, b}) = n
  BY <1>2, <1>4 DEF Max
<1> QED
  BY <1>5, <1>6 DEF m, n

-----------------------------------------------------------------------------
(* Release notes.                                                           *)

(* What changed is either claimed in words or reported missing, and a note  *)
(* passes only when both directions agree (release_note_validation.py).     *)
THEOREM NothingChangesSilently == Spec => []NoSilentCategory
<1>1. NoSilentCategory
  <2> SUFFICES ASSUME Is("note") PROVE NoSilentCategory
    BY DEF NoSilentCategory
  <2> DEFINE claims   == case.in.claims
             found    == EvidenceCategories(case.in.deltas, case.in.facts)
             spoken   == {i \in DOMAIN claims : claims[i].text # "blank"}
             claimed  == {claims[i].category : i \in spoken}
             rows     == {[category |-> ClaimCategory(claims[i]), status |-> ClaimStatus(claims[i], found)]
                             : i \in spoken}
             missing  == {[category |-> c, status |-> "missing"]
                             : c \in found \ ({"other"} \cup {r.category : r \in rows})}
             note     == ValidateNote(case.in.claims, case.in.deltas, case.in.facts)
  <2>1. /\ note.rows = rows \cup missing
        /\ note.status = "passed" => ~\E r \in rows \cup missing : r.status = "missing"
    BY DEF ValidateNote
  <2>2. ASSUME NEW c \in (found \ {"other"}) \ claimed
        PROVE  [category |-> c, status |-> "missing"] \in missing
    <3>1. ASSUME NEW i \in spoken PROVE ClaimCategory(claims[i]) # c
      BY <2>2 DEF ClaimCategory
    <3>2. \A r \in rows : r.category # c
      BY <3>1
    <3> QED
      BY <3>2
  <2> HIDE DEF claims, found, rows, missing, note
  <2>3. ASSUME note.status = "passed", NEW c \in found \ {"other"} PROVE c \in claimed
    <3>1. c \notin claimed => [category |-> c, status |-> "missing"] \in rows \cup missing
      BY <2>2, <2>3
    <3>2. [category |-> c, status |-> "missing"].status = "missing"
      OBVIOUS
    <3> QED
      BY <2>1, <2>3, <3>1, <3>2
  <2> QED
    BY <2>1, <2>2, <2>3 DEF NoSilentCategory, note, found, claims
<1> QED
  BY <1>1, PTL

-----------------------------------------------------------------------------
(* The policy twin.                                                         *)

\* The evidence the policy checks.
Evidence == {"bundle_integrity", "live_namespace_snapshot", "dependency_integrity",
             "rollback_evidence", "authoritative_dry_run"}

\* Evidence a fresh computation would miss once the dry run is known.
FreshMissing(in, ok) == {c \in Evidence : ~[Satisfied(in) EXCEPT !.authoritative_dry_run = ok][c]}

\* The recomputed missing evidence is what the patch makes of the old one.
LEMMA MissingIs ==
  ASSUME NEW in, NEW ok \in BOOLEAN
  PROVE  FreshMissing(in, ok)
           = (MissingEvidence(in) \ {"authoritative_dry_run"})
                 \cup (IF ~ok THEN {"authoritative_dry_run"} ELSE {})
<1> DEFINE sat == Satisfied(in)
           now == [sat EXCEPT !.authoritative_dry_run = ok]
<1>1. /\ DOMAIN sat = Evidence /\ DOMAIN now = Evidence
      /\ now["authoritative_dry_run"] = ok
      /\ \A c \in Evidence \ {"authoritative_dry_run"} : now[c] = sat[c]
      /\ "authoritative_dry_run" \in Evidence
  BY DEF Satisfied, Evidence
<1>2. FreshMissing(in, ok) = {c \in Evidence : ~now[c]} /\ MissingEvidence(in) = {c \in Evidence : ~sat[c]}
  BY <1>1 DEF FreshMissing, MissingEvidence
<1> HIDE DEF sat, now
<1> QED
  BY <1>1, <1>2

\* Which evidence is missing matters to one rule only.
LEMMA MatchedIs ==
  ASSUME NEW in, NEW before, NEW after
  PROVE  MatchedRules(in, after)
           = (MatchedRules(in, before) \ {"partial_or_stale_live_evidence"})
                 \cup (IF Classification(after) # "complete" THEN {"partial_or_stale_live_evidence"} ELSE {})
<1> DEFINE old == RiskFacts(in, before)
           new == RiskFacts(in, after)
           rule == "partial_or_stale_live_evidence"
<1>1. /\ DOMAIN old = DOMAIN Weight /\ DOMAIN new = DOMAIN Weight /\ rule \in DOMAIN Weight
      /\ new[rule] = (Classification(after) # "complete")
  BY DEF RiskFacts, Weight
<1>2. \A r \in DOMAIN Weight \ {rule} : new[r] = old[r]
  <2>1. /\ new.pvc_create_or_explicit_delete = old.pvc_create_or_explicit_delete
        /\ new.statefulset_change = old.statefulset_change
        /\ new.helm_release_upgrade = old.helm_release_upgrade
        /\ new.image_change = old.image_change
        /\ new.configmap_change = old.configmap_change
        /\ new.ingress_change = old.ingress_change
        /\ new.service_selector_change = old.service_selector_change
        /\ new.large_replica_change = old.large_replica_change
        /\ new.missing_rollback_step = old.missing_rollback_step
        /\ new.inferred_chart_or_value = old.inferred_chart_or_value
        /\ new.previous_similar_failure = old.previous_similar_failure
        /\ new.drift_detected = old.drift_detected
    BY DEF RiskFacts
  <2> HIDE DEF old, new
  <2> QED
    BY <2>1 DEF Weight
<1>3. /\ MatchedRules(in, before) = {r \in DOMAIN Weight : old[r]}
      /\ MatchedRules(in, after) = {r \in DOMAIN Weight : new[r]}
  BY <1>1 DEF MatchedRules
<1> HIDE DEF old, new
<1> QED
  BY <1>1, <1>2, <1>3

\* The patched assessment is the one recomputed with the result of the dry run.
LEMMA FinalizedIs ==
  ASSUME NEW in, NEW status \in {"passed", "failed", "partial"}
  PROVE  LET missing == FreshMissing(in, status = "passed")
             matched == MatchedRules(in, missing)
             twin    == FinalizePolicy(EvaluatePolicy(in), status)
         IN /\ twin.missing = missing /\ twin.matched = matched
            /\ twin.level = Projection(Verdict(PolicyFindings(in)), missing,
                                       RiskScore(matched), status # "passed")
<1> DEFINE ok      == status = "passed"
           missing == FreshMissing(in, ok)
           matched == MatchedRules(in, missing)
           twin    == EvaluatePolicy(in)
<1>1. /\ DOMAIN twin = {"verdict", "missing", "matched", "level"}
      /\ twin.verdict = Verdict(PolicyFindings(in))
      /\ twin.missing = MissingEvidence(in)
      /\ twin.matched = MatchedRules(in, MissingEvidence(in))
  BY DEF EvaluatePolicy
<1>2. missing = (twin.missing \ {"authoritative_dry_run"})
                    \cup (IF status # "passed" THEN {"authoritative_dry_run"} ELSE {})
  BY <1>1, MissingIs
<1>3. matched = (twin.matched \ {"partial_or_stale_live_evidence"})
                    \cup (IF Classification(missing) # "complete"
                          THEN {"partial_or_stale_live_evidence"} ELSE {})
  BY <1>1, MatchedIs
<1> HIDE DEF missing, matched, twin
<1>4. FinalizePolicy(twin, status)
        = [twin EXCEPT !.missing = missing, !.matched = matched,
                       !.level = Projection(twin.verdict, missing, RiskScore(matched), status # "passed")]
  BY <1>2, <1>3 DEF FinalizePolicy
<1>5. /\ FinalizePolicy(twin, status).missing = missing
      /\ FinalizePolicy(twin, status).matched = matched
      /\ FinalizePolicy(twin, status).level
           = Projection(twin.verdict, missing, RiskScore(matched), status # "passed")
  BY <1>1, <1>4
<1> QED
  BY <1>1, <1>5 DEF missing, matched, twin

(* Patching the first assessment with the result of the dry run gives what  *)
(* a recomputation of all the rules would give (policy_twin.py).            *)
THEOREM PatchedIsFresh == Spec => []FinalizeMatchesFresh
<1>1. FinalizeMatchesFresh
  BY FinalizedIs DEF FinalizeMatchesFresh, FreshMissing, Evidence
<1> QED
  BY <1>1, PTL

\* The least of a set of numbers that has one.
LEMMA MinIs ==
  ASSUME NEW S, S \subseteq Int, NEW m \in S, \A n \in S : m <= n
  PROVE  Min(S) = m
<1>1. \A n \in S : (\A y \in S : n <= y) => n = m
  OBVIOUS
<1> QED
  BY <1>1 DEF Min

\* The ordered rules as a condition for each level.
LEMMA ProjectionIs ==
  ASSUME NEW verdict, NEW missing, NEW score \in Int, NEW failed \in BOOLEAN
  PROVE  Projection(verdict, missing, score, failed)
           = IF verdict = "deny" \/ failed \/ score >= 71 THEN "red"
             ELSE IF \/ verdict = "approval_required" \/ Classification(missing) # "complete"
                     \/ score >= 31
                  THEN "amber" ELSE "green"
<1> DEFINE rules == DecisionRules(verdict, missing, score, failed)
           I     == {i \in 1..Len(rules) : rules[i].on}
           deny  == verdict = "deny"
           asks  == verdict = "approval_required"
           some  == Classification(missing) # "complete"
<1>1. /\ Len(rules) = 7
      /\ rules[1].on = deny /\ rules[2].on = failed /\ rules[3].on = (score >= 71)
      /\ rules[4].on = asks /\ rules[5].on = some /\ rules[6].on = (score >= 31) /\ rules[7].on = TRUE
  BY DEF DecisionRules
<1>2. /\ rules[1].level = "red" /\ rules[2].level = "red" /\ rules[3].level = "red"
      /\ rules[4].level = "amber" /\ rules[5].level = "amber" /\ rules[6].level = "amber"
      /\ rules[7].level = "green"
  BY DEF DecisionRules
<1>3. Projection(verdict, missing, score, failed) = rules[IF I # {} THEN Min(I) ELSE 0].level
  BY DEF Projection, SelectInSeq
<1> HIDE DEF rules, deny, asks, some
<1>4. /\ I \subseteq Int /\ 7 \in I
      /\ \A i \in I : i \in 1..7
      /\ 1 \in I <=> deny
      /\ 2 \in I <=> failed
      /\ 3 \in I <=> score >= 71
      /\ 4 \in I <=> asks
      /\ 5 \in I <=> some
      /\ 6 \in I <=> score >= 31
  <2>1. /\ I = {i \in 1..7 : rules[i].on}
        /\ {1, 2, 3, 4, 5, 6, 7} \subseteq 1..7
    BY <1>1
  <2> HIDE DEF I
  <2>2. I \subseteq Int /\ \A i \in I : i \in 1..7
    BY <2>1
  <2>3. \A i \in {1, 2, 3, 4, 5, 6, 7} : i \in I <=> rules[i].on
    BY <2>1
  <2>4. /\ 1 \in I <=> rules[1].on
        /\ 2 \in I <=> rules[2].on
        /\ 3 \in I <=> rules[3].on
        /\ 4 \in I <=> rules[4].on
        /\ 5 \in I <=> rules[5].on
        /\ 6 \in I <=> rules[6].on
        /\ 7 \in I <=> rules[7].on
    BY <2>3, Zenon
  <2> QED
    BY <1>1, <2>2, <2>4, Zenon
<1> HIDE DEF I
<1>5. Projection(verdict, missing, score, failed) = rules[Min(I)].level
  BY <1>3, <1>4
<1>6. CASE deny
  <2>1. \A n \in I : 1 <= n
    BY <1>4
  <2>2. Min(I) = 1
    BY <1>4, <1>6, <2>1, MinIs
  <2> QED
    BY <1>2, <1>5, <1>6, <2>2 DEF deny
<1>7. CASE ~deny /\ failed
  <2>1. \A n \in I : 2 <= n
    BY <1>4, <1>7
  <2>2. Min(I) = 2
    BY <1>4, <1>7, <2>1, MinIs
  <2> QED
    BY <1>2, <1>5, <1>7, <2>2
<1>8. CASE ~deny /\ ~failed /\ score >= 71
  <2>1. \A n \in I : 3 <= n
    BY <1>4, <1>8
  <2>2. Min(I) = 3
    BY <1>4, <1>8, <2>1, MinIs
  <2> QED
    BY <1>2, <1>5, <1>8, <2>2
<1>9. CASE ~deny /\ ~failed /\ ~(score >= 71) /\ asks
  <2>1. \A n \in I : 4 <= n
    BY <1>4, <1>9
  <2>2. Min(I) = 4
    BY <1>4, <1>9, <2>1, MinIs
  <2> QED
    BY <1>2, <1>5, <1>9, <2>2 DEF deny, asks
<1>10. CASE ~deny /\ ~failed /\ ~(score >= 71) /\ ~asks /\ some
  <2>1. \A n \in I : 5 <= n
    BY <1>4, <1>10
  <2>2. Min(I) = 5
    BY <1>4, <1>10, <2>1, MinIs
  <2> QED
    BY <1>2, <1>5, <1>10, <2>2 DEF deny, some
<1>11. CASE ~deny /\ ~failed /\ ~(score >= 71) /\ ~asks /\ ~some /\ score >= 31
  <2>1. \A n \in I : 6 <= n
    BY <1>4, <1>11
  <2>2. Min(I) = 6
    BY <1>4, <1>11, <2>1, MinIs
  <2> QED
    BY <1>2, <1>5, <1>11, <2>2 DEF deny
<1>12. CASE ~deny /\ ~failed /\ ~(score >= 71) /\ ~asks /\ ~some /\ ~(score >= 31)
  <2>1. \A n \in I : 7 <= n
    BY <1>4, <1>12
  <2>2. Min(I) = 7
    BY <1>4, <1>12, <2>1, MinIs
  <2> QED
    BY <1>2, <1>5, <1>12, <2>2 DEF deny, asks, some
<1> QED
  BY <1>6, <1>7, <1>8, <1>9, <1>10, <1>11, <1>12

\* Every matched rule adds its weight to the score.
LEMMA RiskGrows ==
  ASSUME NEW few, NEW many, few \subseteq many
  PROVE  /\ RiskScore(few) \in Int /\ RiskScore(many) \in Int
         /\ RiskScore(few) <= RiskScore(many)
<1> DEFINE Of(set, rule) == IF rule \in set THEN Weight[rule] ELSE 0
           Sum(set) == Of(set, "pvc_create_or_explicit_delete") + Of(set, "statefulset_change")
                 + Of(set, "helm_release_upgrade") + Of(set, "image_change") + Of(set, "configmap_change")
                 + Of(set, "ingress_change") + Of(set, "service_selector_change")
                 + Of(set, "large_replica_change") + Of(set, "missing_rollback_step")
                 + Of(set, "inferred_chart_or_value") + Of(set, "partial_or_stale_live_evidence")
                 + Of(set, "previous_similar_failure") + Of(set, "drift_detected")
<1>1. \A rule \in DOMAIN Weight : Weight[rule] \in Nat
  BY DEF Weight
<1>2. \A rule \in DOMAIN Weight : /\ Of(few, rule) \in Nat /\ Of(many, rule) \in Nat
                                  /\ Of(few, rule) <= Of(many, rule)
  BY <1>1
<1>3. DOMAIN Weight = {"pvc_create_or_explicit_delete", "statefulset_change", "helm_release_upgrade",
                       "image_change", "configmap_change", "ingress_change", "service_selector_change",
                       "large_replica_change", "missing_rollback_step", "inferred_chart_or_value",
                       "partial_or_stale_live_evidence", "previous_similar_failure", "drift_detected"}
  BY DEF Weight
<1>4. RiskScore(few) = Min({100, Sum(few)}) /\ RiskScore(many) = Min({100, Sum(many)})
  BY DEF RiskScore
<1> HIDE DEF Of
<1>5. Sum(few) \in Int /\ Sum(many) \in Int /\ Sum(few) <= Sum(many)
  BY <1>2, <1>3
<1> HIDE DEF Sum
<1>6. /\ RiskScore(few) = IF 100 <= Sum(few) THEN 100 ELSE Sum(few)
      /\ RiskScore(many) = IF 100 <= Sum(many) THEN 100 ELSE Sum(many)
  BY <1>4, <1>5, MinMax
<1> QED
  BY <1>5, <1>6

\* An input that asks for no less care in anything.
Worse(in, w) ==
    /\ w.rows = in.rows /\ w.inferred = in.inferred /\ w.rendered = in.rendered
    /\ in.blocks \subseteq w.blocks
    /\ in.privileged => w.privileged
    /\ in.humanApproval => w.humanApproval
    /\ w.autoApproval => in.autoApproval
    /\ in.deletes => w.deletes
    /\ w.indexed => in.indexed
    /\ w.live => in.live
    /\ w.missingNodes = 0 => in.missingNodes = 0
    /\ w.rollback => in.rollback
    /\ in.rollbackRequired => w.rollbackRequired
    /\ in.pvcRisk => w.pvcRisk
    /\ in.statefulRisk => w.statefulRisk
    /\ w.valuesFiles => in.valuesFiles

\* Each single change for the worse is one.
LEMMA WorsenIsWorse ==
  ASSUME NEW in, IsPolicyInput(in), NEW w \in Worsen(in)
  PROVE  Worse(in, w)
<1>1. /\ in.missingNodes \in Nat
      /\ DOMAIN in = {"blocks", "privileged", "humanApproval", "autoApproval", "deletes", "indexed", "live",
                      "missingNodes", "rollback", "rollbackRequired", "rows", "pvcRisk", "statefulRisk",
                      "inferred", "valuesFiles", "rendered"}
  BY DEF IsPolicyInput
<1>2. CASE w = [in EXCEPT !.blocks = @ \cup {"limits"}]
  BY <1>1, <1>2 DEF Worse
<1>3. CASE w = [in EXCEPT !.privileged = TRUE]
  BY <1>1, <1>3 DEF Worse
<1>4. CASE w = [in EXCEPT !.humanApproval = TRUE]
  BY <1>1, <1>4 DEF Worse
<1>5. CASE w = [in EXCEPT !.autoApproval = FALSE]
  BY <1>1, <1>5 DEF Worse
<1>6. CASE w = [in EXCEPT !.deletes = TRUE]
  BY <1>1, <1>6 DEF Worse
<1>7. CASE w = [in EXCEPT !.indexed = FALSE]
  BY <1>1, <1>7 DEF Worse
<1>8. CASE w = [in EXCEPT !.live = FALSE]
  BY <1>1, <1>8 DEF Worse
<1>9. CASE w = [in EXCEPT !.missingNodes = @ + 1]
  <2>1. w.missingNodes = in.missingNodes + 1
    BY <1>1, <1>9
  <2>2. w.missingNodes # 0
    BY <1>1, <2>1
  <2> QED
    BY <1>1, <1>9, <2>2 DEF Worse
<1>10. CASE w = [in EXCEPT !.rollback = FALSE]
  BY <1>1, <1>10 DEF Worse
<1>11. CASE w = [in EXCEPT !.rollbackRequired = TRUE]
  BY <1>1, <1>11 DEF Worse
<1>12. CASE w = [in EXCEPT !.pvcRisk = TRUE]
  BY <1>1, <1>12 DEF Worse
<1>13. CASE w = [in EXCEPT !.statefulRisk = TRUE]
  BY <1>1, <1>13 DEF Worse
<1>14. CASE w = [in EXCEPT !.valuesFiles = FALSE]
  BY <1>1, <1>14 DEF Worse
<1> QED
  BY <1>2, <1>3, <1>4, <1>5, <1>6, <1>7, <1>8, <1>9, <1>10, <1>11, <1>12, <1>13, <1>14 DEF Worsen

\* No finding of the milder input is gone from the worse one.
LEMMA FindingsGrow ==
  ASSUME NEW in, NEW w, Worse(in, w)
  PROVE  PolicyFindings(in) \subseteq PolicyFindings(w)
<1>1. {Finding(Category[b], "deny") : b \in in.blocks} \subseteq {Finding(Category[b], "deny") : b \in w.blocks}
  BY DEF Worse
<1>2. /\ in.privileged => w.privileged
      /\ in.humanApproval /\ ~in.autoApproval => w.humanApproval /\ ~w.autoApproval
      /\ in.deletes => w.deletes
  BY DEF Worse
<1> QED
  BY <1>1, <1>2 DEF PolicyFindings

\* No evidence the milder input misses is there in the worse one.
LEMMA MissingGrows ==
  ASSUME NEW in, NEW w, Worse(in, w), NEW ok \in BOOLEAN
  PROVE  FreshMissing(in, ok) \subseteq FreshMissing(w, ok)
<1>1. /\ "bundle_integrity" \in MissingEvidence(in) <=> ~in.indexed
      /\ "live_namespace_snapshot" \in MissingEvidence(in) <=> ~in.live
      /\ "dependency_integrity" \in MissingEvidence(in) <=> in.missingNodes # 0
      /\ "rollback_evidence" \in MissingEvidence(in) <=> ~(in.rollback \/ ~in.rollbackRequired)
      /\ MissingEvidence(in) \subseteq Evidence
  BY DEF MissingEvidence, Satisfied, Evidence
<1>2. /\ "bundle_integrity" \in MissingEvidence(w) <=> ~w.indexed
      /\ "live_namespace_snapshot" \in MissingEvidence(w) <=> ~w.live
      /\ "dependency_integrity" \in MissingEvidence(w) <=> w.missingNodes # 0
      /\ "rollback_evidence" \in MissingEvidence(w) <=> ~(w.rollback \/ ~w.rollbackRequired)
  BY DEF MissingEvidence, Satisfied
<1>3. MissingEvidence(in) \ {"authoritative_dry_run"} \subseteq MissingEvidence(w)
  BY <1>1, <1>2 DEF Worse, Evidence
<1> QED
  BY <1>3, MissingIs

\* No rule the milder input matches is unmatched by the worse one.
LEMMA MatchedGrows ==
  ASSUME NEW in, NEW w, Worse(in, w), NEW few, NEW many, few \subseteq many
  PROVE  MatchedRules(in, few) \subseteq MatchedRules(w, many)
<1> DEFINE mild == RiskFacts(in, few)
           bad  == RiskFacts(w, many)
<1>1. DOMAIN mild = DOMAIN Weight /\ DOMAIN bad = DOMAIN Weight
  BY DEF RiskFacts, Weight
<1>2. Classification(few) # "complete" => Classification(many) # "complete"
  BY DEF Classification
<1>3. \A active : InferredHelmChange(in, active) => InferredHelmChange(w, active)
  BY DEF InferredHelmChange, Worse
<1>4. /\ mild.pvc_create_or_explicit_delete => bad.pvc_create_or_explicit_delete
      /\ mild.statefulset_change => bad.statefulset_change
      /\ mild.helm_release_upgrade => bad.helm_release_upgrade
      /\ mild.image_change => bad.image_change
      /\ mild.configmap_change => bad.configmap_change
      /\ mild.ingress_change => bad.ingress_change
      /\ mild.service_selector_change => bad.service_selector_change
      /\ mild.large_replica_change => bad.large_replica_change
  BY DEF RiskFacts, Worse
<1>5. /\ mild.missing_rollback_step => bad.missing_rollback_step
      /\ mild.inferred_chart_or_value => bad.inferred_chart_or_value
      /\ mild.partial_or_stale_live_evidence => bad.partial_or_stale_live_evidence
      /\ ~mild.previous_similar_failure /\ ~mild.drift_detected
  BY <1>2, <1>3 DEF RiskFacts, Worse
<1>6. /\ MatchedRules(in, few) = {r \in DOMAIN Weight : mild[r]}
      /\ MatchedRules(w, many) = {r \in DOMAIN Weight : bad[r]}
  BY <1>1 DEF MatchedRules
<1> HIDE DEF mild, bad
<1>7. \A r \in DOMAIN Weight : mild[r] => bad[r]
  BY <1>4, <1>5 DEF Weight
<1> QED
  BY <1>6, <1>7

(* Any further guardrail, deletion, missing evidence or storage risk leaves *)
(* the decision where it was or makes it worse (policy_twin.py).            *)
THEOREM WorseDecidesNoBetter == Spec => []WorseIsNeverGreener
<1>1. CaseInv => WorseIsNeverGreener
  <2> SUFFICES ASSUME CaseInv, Is("policy"), NEW w \in Worsen(case.in), NEW status \in {"passed", "failed"}
               PROVE  Severity[FinalizePolicy(EvaluatePolicy(w), status).level]
                        >= Severity[FinalizePolicy(EvaluatePolicy(case.in), status).level]
    BY DEF WorseIsNeverGreener
  <2> DEFINE in     == case.in
             failed == status # "passed"
             few    == FreshMissing(in, status = "passed")
             many   == FreshMissing(w, status = "passed")
             mild   == RiskScore(MatchedRules(in, few))
             bad    == RiskScore(MatchedRules(w, many))
             before == Verdict(PolicyFindings(in))
             after  == Verdict(PolicyFindings(w))
  <2>1. Worse(in, w)
    BY RulesAssumption, WorsenIsWorse DEF CaseInv
  <2>2. /\ FinalizePolicy(EvaluatePolicy(in), status).level = Projection(before, few, mild, failed)
        /\ FinalizePolicy(EvaluatePolicy(w), status).level = Projection(after, many, bad, failed)
    BY FinalizedIs
  <2>3. few \subseteq many
    BY <2>1, MissingGrows
  <2>4. mild \in Int /\ bad \in Int /\ mild <= bad
    BY <2>1, <2>3, MatchedGrows, RiskGrows
  <2>5. /\ before = "deny" => after = "deny"
        /\ before = "approval_required" => after \in {"deny", "approval_required"}
    BY <2>1, FindingsGrow DEF Verdict
  <2>6. Classification(few) # "complete" => Classification(many) # "complete"
    BY <2>3 DEF Classification
  <2> HIDE DEF few, many, mild, bad, before, after, failed
  <2>7. failed \in BOOLEAN
    BY DEF failed
  <2>8. /\ Projection(before, few, mild, failed)
             = IF before = "deny" \/ failed \/ mild >= 71 THEN "red"
               ELSE IF before = "approval_required" \/ Classification(few) # "complete" \/ mild >= 31
                    THEN "amber" ELSE "green"
        /\ Projection(after, many, bad, failed)
             = IF after = "deny" \/ failed \/ bad >= 71 THEN "red"
               ELSE IF after = "approval_required" \/ Classification(many) # "complete" \/ bad >= 31
                    THEN "amber" ELSE "green"
    BY <2>4, <2>7, ProjectionIs
  <2>9. Severity["green"] = 0 /\ Severity["amber"] = 1 /\ Severity["red"] = 2
    BY DEF Severity
  <2>10. CASE before = "deny" \/ failed \/ mild >= 71
    <3>1. after = "deny" \/ failed \/ bad >= 71
      BY <2>4, <2>5, <2>10
    <3> QED
      BY <2>2, <2>8, <2>9, <2>10, <3>1
  <2>11. CASE /\ ~(before = "deny" \/ failed \/ mild >= 71)
              /\ before = "approval_required" \/ Classification(few) # "complete" \/ mild >= 31
    <3>1. \/ after = "deny" \/ failed \/ bad >= 71
          \/ after = "approval_required" \/ Classification(many) # "complete" \/ bad >= 31
      BY <2>4, <2>5, <2>6, <2>11
    <3>2. Projection(after, many, bad, failed) \in {"amber", "red"}
      BY <2>8, <3>1
    <3>3. Projection(before, few, mild, failed) = "amber"
      BY <2>8, <2>11
    <3> QED
      BY <2>2, <2>9, <3>2, <3>3
  <2>12. CASE /\ ~(before = "deny" \/ failed \/ mild >= 71)
              /\ ~(before = "approval_required" \/ Classification(few) # "complete" \/ mild >= 31)
    <3>1. Projection(after, many, bad, failed) \in {"green", "amber", "red"}
      BY <2>8
    <3>2. Projection(before, few, mild, failed) = "green"
      BY <2>8, <2>12
    <3> QED
      BY <2>2, <2>9, <3>1, <3>2
  <2> QED
    BY <2>10, <2>11, <2>12
<1> QED
  BY <1>1, CaseInvariant, PTL

-----------------------------------------------------------------------------
(* The runtime twin.                                                        *)

\* A longer sequence has the old elements at the old positions.
LEMMA AppendIs ==
  ASSUME NEW s, s \in Seq(Range(s)), NEW e
  PROVE  LET t == Append(s, e)
         IN /\ DOMAIN s \subseteq DOMAIN t
            /\ \A i \in DOMAIN s : t[i] = s[i]
            /\ IsFiniteSet(DOMAIN t)
<1> DEFINE T == Range(s) \cup {e}
<1>1. s \in Seq(T)
  OBVIOUS
<1>2. /\ Len(s) \in Nat /\ DOMAIN s = 1..Len(s)
      /\ DOMAIN Append(s, e) = 1..Len(s) + 1
      /\ \A i \in 1..Len(s) : Append(s, e)[i] = s[i]
  BY <1>1
<1>3. IsFiniteSet(1..Len(s) + 1)
  BY <1>2, FS_Interval
<1> QED
  BY <1>2, <1>3

\* Counts of a subset.
LEMMA CountGrows ==
  ASSUME NEW D, IsFiniteSet(D), NEW T \in SUBSET D, NEW S \in SUBSET T
  PROVE  Cardinality(S) \in Nat /\ Cardinality(T) \in Nat /\ Cardinality(S) <= Cardinality(T)
  BY FS_Subset, FS_CardinalityType

\* The resource pressures there are.
Pressures == {"none", "low", "medium", "high"}

\* With more events to look at, the resource pressure is no lower.
LEMMA PressureGrows ==
  ASSUME NEW events, NEW more, NEW now, NEW then, NEW D, IsFiniteSet(D), then \subseteq D,
         now \subseteq then, \A i \in now : more[i] = events[i]
  PROVE  /\ ResourcePressure(events, now) \in Pressures /\ ResourcePressure(more, then) \in Pressures
         /\ PressureScore[ResourcePressure(events, now)] <= PressureScore[ResourcePressure(more, then)]
<1> DEFINE S == Pressing(events, now)
           T == Pressing(more, then)
           a == ResourcePressure(events, now)
           b == ResourcePressure(more, then)
<1>1. S \subseteq T /\ T \subseteq D
  BY DEF Pressing
<1>2. Cardinality(S) \in Nat /\ Cardinality(T) \in Nat /\ Cardinality(S) <= Cardinality(T)
  BY <1>1, CountGrows
<1>3. (\E i \in S : events[i].reason \in HighPressure) => (\E i \in T : more[i].reason \in HighPressure)
  BY <1>1 DEF Pressing
<1>4. a = CASE S = {} -> "none"
            [] \E i \in S : events[i].reason \in HighPressure -> "high"
            [] OTHER -> IF Cardinality(S) >= 2 THEN "medium" ELSE "low"
  BY DEF ResourcePressure
<1>5. b = CASE T = {} -> "none"
            [] \E i \in T : more[i].reason \in HighPressure -> "high"
            [] OTHER -> IF Cardinality(T) >= 2 THEN "medium" ELSE "low"
  BY DEF ResourcePressure
<1> DEFINE high(X, e) == \E i \in X : e[i].reason \in HighPressure
<1>6. /\ S = {} => a = "none" /\ ~high(S, events)
      /\ high(S, events) => a = "high"
      /\ S # {} /\ ~high(S, events) => a = IF Cardinality(S) >= 2 THEN "medium" ELSE "low"
  BY <1>4
<1>7. /\ T = {} => b = "none" /\ ~high(T, more)
      /\ high(T, more) => b = "high"
      /\ T # {} /\ ~high(T, more) => b = IF Cardinality(T) >= 2 THEN "medium" ELSE "low"
  BY <1>5
<1> HIDE DEF S, T, a, b, high
<1>8. (high(S, events) => high(T, more)) /\ (S # {} => T # {})
  BY <1>1, <1>3 DEF high
<1>9. a \in Pressures /\ b \in Pressures
  BY <1>6, <1>7 DEF Pressures
<1>10. PressureScore[a] <= PressureScore[b]
  BY <1>2, <1>6, <1>7, <1>8 DEF PressureScore
<1> QED
  BY <1>9, <1>10 DEF a, b

\* More of everything scores no less.
LEMMA ScoreGrows ==
  ASSUME NEW s, NEW t,
         \A f \in {"notReady", "restarting", "highRestart", "crash", "image", "warnings"} :
             s[f] \in Nat /\ t[f] \in Nat /\ s[f] <= t[f],
         s.pressure \in Pressures, t.pressure \in Pressures,
         PressureScore[s.pressure] <= PressureScore[t.pressure]
  PROVE  RuntimeScore(s) <= RuntimeScore(t)
<1> DEFINE Ready(x) == IF x.notReady > 0 THEN Min({30, 10 + (x.notReady - 1) * 5}) ELSE 0
           Restart(x) == IF x.restarting > 0 THEN IF x.highRestart > 0 THEN 20 ELSE 10 ELSE 0
           Crash(x) == IF x.crash > 0 THEN 30 ELSE 0
           Image(x) == IF x.image > 0 THEN 25 ELSE 0
           Warn(x) == IF x.warnings > 0 THEN Min({15, 3 + x.warnings}) ELSE 0
           Press(x) == PressureScore[x.pressure]
           raw(x) == Ready(x) + Restart(x) + Crash(x) + Image(x) + Warn(x) + Press(x)
<1>1. /\ s.notReady \in Nat /\ t.notReady \in Nat /\ s.notReady <= t.notReady
      /\ s.restarting \in Nat /\ t.restarting \in Nat /\ s.restarting <= t.restarting
      /\ s.highRestart \in Nat /\ t.highRestart \in Nat /\ s.highRestart <= t.highRestart
      /\ s.crash \in Nat /\ t.crash \in Nat /\ s.crash <= t.crash
      /\ s.image \in Nat /\ t.image \in Nat /\ s.image <= t.image
      /\ s.warnings \in Nat /\ t.warnings \in Nat /\ s.warnings <= t.warnings
  OBVIOUS
<1>2. ASSUME NEW x \in Int, NEW y \in Int, x <= y
      PROVE  \A n \in Nat : Min({n, x}) \in Int /\ Min({n, y}) \in Int /\ Min({n, x}) <= Min({n, y})
                            /\ (0 <= x => 0 <= Min({n, x}))
  BY <1>2, MinMax
<1>3. Ready(s) \in Int /\ Ready(t) \in Int /\ Ready(s) <= Ready(t)
  <2> DEFINE v(n) == IF n > 0 THEN 10 + (n - 1) * 5 ELSE 0
             m(x) == Min({30, v(x.notReady)})
  <2>1. v(s.notReady) \in Int /\ v(t.notReady) \in Int /\ v(s.notReady) <= v(t.notReady)
        /\ 0 <= v(s.notReady) /\ 0 <= v(t.notReady)
    BY <1>1
  <2> HIDE DEF v
  <2>2. m(s) \in Int /\ m(t) \in Int /\ m(s) <= m(t) /\ 0 <= m(s) /\ 0 <= m(t)
    BY <1>2, <2>1
  <2>3. /\ Ready(s) = IF s.notReady > 0 THEN m(s) ELSE 0
        /\ Ready(t) = IF t.notReady > 0 THEN m(t) ELSE 0
    BY DEF v
  <2> HIDE DEF m, Ready
  <2> QED
    BY <1>1, <2>2, <2>3
<1>4. Restart(s) \in Int /\ Restart(t) \in Int /\ Restart(s) <= Restart(t)
  BY <1>1
<1>5. /\ Crash(s) \in Int /\ Crash(t) \in Int /\ Crash(s) <= Crash(t)
      /\ Image(s) \in Int /\ Image(t) \in Int /\ Image(s) <= Image(t)
  BY <1>1
<1>6. Warn(s) \in Int /\ Warn(t) \in Int /\ Warn(s) <= Warn(t)
  <2> DEFINE v(n) == 3 + n
             m(x) == Min({15, v(x.warnings)})
  <2>1. v(s.warnings) \in Int /\ v(t.warnings) \in Int /\ v(s.warnings) <= v(t.warnings)
        /\ 0 <= v(s.warnings) /\ 0 <= v(t.warnings)
    BY <1>1
  <2> HIDE DEF v
  <2>2. m(s) \in Int /\ m(t) \in Int /\ m(s) <= m(t) /\ 0 <= m(s) /\ 0 <= m(t)
    BY <1>2, <2>1, SMTT(30)
  <2>3. /\ Warn(s) = IF s.warnings > 0 THEN m(s) ELSE 0
        /\ Warn(t) = IF t.warnings > 0 THEN m(t) ELSE 0
    BY DEF v
  <2> HIDE DEF m, Warn
  <2> QED
    BY <1>1, <2>2, <2>3
<1>7. Press(s) \in Int /\ Press(t) \in Int /\ Press(s) <= Press(t)
  BY DEF PressureScore, Pressures
<1>8. RuntimeScore(s) = Min({raw(s), 100}) /\ RuntimeScore(t) = Min({raw(t), 100})
  BY DEF RuntimeScore
<1> HIDE DEF Ready, Restart, Crash, Image, Warn, Press
<1>9. raw(s) \in Int /\ raw(t) \in Int /\ raw(s) <= raw(t)
  BY <1>3, <1>4, <1>5, <1>6, <1>7
<1> HIDE DEF raw
<1>10. Min({raw(s), 100}) = Min({100, raw(s)}) /\ Min({raw(t), 100}) = Min({100, raw(t)})
  <2>1. \A x : {x, 100} = {100, x}
    OBVIOUS
  <2> QED
    BY <2>1
<1>11. Min({100, raw(s)}) <= Min({100, raw(t)})
  BY <1>2, <1>9
<1> QED
  BY <1>8, <1>10, <1>11

\* More pods and events, of which the old ones are the first, score no less.
LEMMA SignalsGrow ==
  ASSUME NEW in, NEW on, on.collected = in.collected,
         IsFiniteSet(DOMAIN on.pods), IsFiniteSet(DOMAIN on.events),
         DOMAIN in.pods \subseteq DOMAIN on.pods, \A i \in DOMAIN in.pods : on.pods[i] = in.pods[i],
         DOMAIN in.events \subseteq DOMAIN on.events, \A i \in DOMAIN in.events : on.events[i] = in.events[i]
  PROVE  AssessRuntime(in).score <= AssessRuntime(on).score
<1> DEFINE s == Signals(in)
           t == Signals(on)
<1>1. /\ RecentEvents(in) \subseteq RecentEvents(on)
      /\ RecentEvents(in) \subseteq DOMAIN in.events /\ RecentEvents(on) \subseteq DOMAIN on.events
  BY DEF RecentEvents
<1>2. s.notReady \in Nat /\ t.notReady \in Nat /\ s.notReady <= t.notReady
  <2> DEFINE S == {i \in DOMAIN in.pods : ~PodReady(in.pods[i])}
             T == {i \in DOMAIN on.pods : ~PodReady(on.pods[i])}
  <2>1. S \subseteq T /\ T \subseteq DOMAIN on.pods
    OBVIOUS
  <2>2. s.notReady = Cardinality(S) /\ t.notReady = Cardinality(T)
    BY DEF Signals
  <2> HIDE DEF S, T, s, t
  <2> QED
    BY <2>1, <2>2, CountGrows
<1>3. s.restarting \in Nat /\ t.restarting \in Nat /\ s.restarting <= t.restarting
  <2> DEFINE S == {i \in DOMAIN in.pods : in.pods[i].restarts > 0}
             T == {i \in DOMAIN on.pods : on.pods[i].restarts > 0}
  <2>1. S \subseteq T /\ T \subseteq DOMAIN on.pods
    OBVIOUS
  <2>2. s.restarting = Cardinality(S) /\ t.restarting = Cardinality(T)
    BY DEF Signals
  <2> HIDE DEF S, T, s, t
  <2> QED
    BY <2>1, <2>2, CountGrows
<1>4. s.highRestart \in Nat /\ t.highRestart \in Nat /\ s.highRestart <= t.highRestart
  <2> DEFINE S == {i \in DOMAIN in.pods : in.pods[i].restarts >= 5}
             T == {i \in DOMAIN on.pods : on.pods[i].restarts >= 5}
  <2>1. S \subseteq T /\ T \subseteq DOMAIN on.pods
    OBVIOUS
  <2>2. s.highRestart = Cardinality(S) /\ t.highRestart = Cardinality(T)
    BY DEF Signals
  <2> HIDE DEF S, T, s, t
  <2> QED
    BY <2>1, <2>2, CountGrows
<1>5. s.crash \in Nat /\ t.crash \in Nat /\ s.crash <= t.crash
  <2> DEFINE S == {i \in RecentEvents(in) : in.events[i].reason \in CrashReasons}
             T == {i \in RecentEvents(on) : on.events[i].reason \in CrashReasons}
  <2>1. S \subseteq T /\ T \subseteq DOMAIN on.events
    BY <1>1
  <2>2. s.crash = Cardinality(S) /\ t.crash = Cardinality(T)
    BY DEF Signals
  <2> HIDE DEF S, T, s, t
  <2> QED
    BY <2>1, <2>2, CountGrows
<1>6. s.image \in Nat /\ t.image \in Nat /\ s.image <= t.image
  <2> DEFINE S == {i \in RecentEvents(in) : in.events[i].reason \in ImageReasons}
             T == {i \in RecentEvents(on) : on.events[i].reason \in ImageReasons}
  <2>1. S \subseteq T /\ T \subseteq DOMAIN on.events
    BY <1>1
  <2>2. s.image = Cardinality(S) /\ t.image = Cardinality(T)
    BY DEF Signals
  <2> HIDE DEF S, T, s, t
  <2> QED
    BY <2>1, <2>2, CountGrows
<1>7. s.warnings \in Nat /\ t.warnings \in Nat /\ s.warnings <= t.warnings
  <2> DEFINE S == {i \in RecentEvents(in) : in.events[i].warning}
             T == {i \in RecentEvents(on) : on.events[i].warning}
  <2>1. S \subseteq T /\ T \subseteq DOMAIN on.events
    BY <1>1
  <2>2. s.warnings = Cardinality(S) /\ t.warnings = Cardinality(T)
    BY DEF Signals
  <2> HIDE DEF S, T, s, t
  <2> QED
    BY <2>1, <2>2, CountGrows
<1>8. /\ s.pressure = ResourcePressure(in.events, RecentEvents(in))
      /\ t.pressure = ResourcePressure(on.events, RecentEvents(on))
  BY DEF Signals
<1>9. AssessRuntime(in).score = RuntimeScore(s) /\ AssessRuntime(on).score = RuntimeScore(t)
  BY DEF AssessRuntime
<1> HIDE DEF s, t
<1>10. /\ s.pressure \in Pressures /\ t.pressure \in Pressures
       /\ PressureScore[s.pressure] <= PressureScore[t.pressure]
  BY <1>1, <1>8, PressureGrows
<1> QED
  BY <1>2, <1>3, <1>4, <1>5, <1>6, <1>7, <1>9, <1>10, ScoreGrows

(* Another event or another pod never lowers the score                      *)
(* (runtime_behavior_twin.py).                                              *)
THEOREM SignalsNeverCalm == Spec => []MoreSignalsNeverCalmer
<1>1. CaseInv => MoreSignalsNeverCalmer
  <2> SUFFICES ASSUME CaseInv, Is("runtime") PROVE MoreSignalsNeverCalmer
    BY DEF MoreSignalsNeverCalmer
  <2> DEFINE in == case.in
  <2>1. IsRuntimeInput(in)
    BY RulesAssumption DEF CaseInv
  <2>2. \A e : AssessRuntime(in).score <= AssessRuntime([in EXCEPT !.events = Append(@, e)]).score
    <3> TAKE e
    <3> DEFINE on == [in EXCEPT !.events = Append(@, e)]
    <3>1. on.collected = in.collected /\ on.pods = in.pods /\ on.events = Append(in.events, e)
      BY <2>1 DEF IsRuntimeInput
    <3>2. IsFiniteSet(DOMAIN in.pods)
      <4>1. DOMAIN in.pods \subseteq DOMAIN Append(in.pods, e) /\ IsFiniteSet(DOMAIN Append(in.pods, e))
        BY <2>1, AppendIs DEF IsRuntimeInput
      <4> QED
        BY <4>1, FS_Subset
    <3> HIDE DEF on
    <3>3. /\ DOMAIN in.events \subseteq DOMAIN on.events /\ IsFiniteSet(DOMAIN on.events)
          /\ \A i \in DOMAIN in.events : on.events[i] = in.events[i]
      <4>1. in.events \in Seq(Range(in.events))
        BY <2>1 DEF IsRuntimeInput
      <4> HIDE DEF in
      <4> QED
        BY <3>1, <4>1, AppendIs
    <3> HIDE DEF in
    <3>4. AssessRuntime(in).score <= AssessRuntime(on).score
      BY <3>1, <3>2, <3>3, SignalsGrow
    <3> QED
      BY <3>4 DEF on
  <2>3. \A p : AssessRuntime(in).score <= AssessRuntime([in EXCEPT !.pods = Append(@, p)]).score
    <3> TAKE p
    <3> DEFINE on == [in EXCEPT !.pods = Append(@, p)]
    <3>1. on.collected = in.collected /\ on.events = in.events /\ on.pods = Append(in.pods, p)
      BY <2>1 DEF IsRuntimeInput
    <3>2. IsFiniteSet(DOMAIN in.events)
      <4>1. DOMAIN in.events \subseteq DOMAIN Append(in.events, p) /\ IsFiniteSet(DOMAIN Append(in.events, p))
        BY <2>1, AppendIs DEF IsRuntimeInput
      <4> QED
        BY <4>1, FS_Subset
    <3> HIDE DEF on
    <3>3. /\ DOMAIN in.pods \subseteq DOMAIN on.pods /\ IsFiniteSet(DOMAIN on.pods)
          /\ \A i \in DOMAIN in.pods : on.pods[i] = in.pods[i]
      <4>1. in.pods \in Seq(Range(in.pods))
        BY <2>1 DEF IsRuntimeInput
      <4> HIDE DEF in
      <4> QED
        BY <3>1, <4>1, AppendIs
    <3> HIDE DEF in
    <3>4. AssessRuntime(in).score <= AssessRuntime(on).score
      BY <3>1, <3>2, <3>3, SignalsGrow
    <3> QED
      BY <3>4 DEF on
  <2> QED
    BY <2>2, <2>3 DEF MoreSignalsNeverCalmer
<1> QED
  BY <1>1, CaseInvariant, PTL

-----------------------------------------------------------------------------
(* The rollback twin.                                                       *)

\* What the plan loses, whatever is proven.
Costs(bundle) ==
    Points(RollbackSteps(bundle) = {} \/ LinkedForward(bundle) # ForwardSteps(bundle), 30)
      + Points(HelmEvidence(bundle).required /\ ~HelmEvidence(bundle).history, 20)
      + Points(~bundle.manifests /\ ~bundle.values, 15)
      + Points(PvcReversibility(bundle) = "conditional", 20)

\* What the rollback cannot undo, whether it covers every step, and its evidence.
Irreversible(bundle) == PvcReversibility(bundle) = "not_reversible" \/ DestructiveSteps(bundle) # {}
Complete(bundle) == RollbackSteps(bundle) # {} /\ LinkedForward(bundle) = ForwardSteps(bundle)
Proof(bundle, evidence) == RollbackProof(evidence, RollbackSteps(bundle))

\* The score before a plan that is complete but not proven is capped.
Score(bundle, evidence) ==
    IF Irreversible(bundle) THEN 0
    ELSE Max({0, 100 - Costs(bundle) - Points(Proof(bundle, evidence) # "passed", 10)})

\* Gaps that evidence of the rollback does not close.
Standing(bundle) ==
    Gap(RollbackSteps(bundle) = {}, "ROLLBACK_STEP_MISSING")
      \cup Gap(RollbackSteps(bundle) # {} /\ LinkedForward(bundle) # ForwardSteps(bundle),
               "ROLLBACK_LINK_INCOMPLETE")
      \cup Gap(HelmEvidence(bundle).required /\ ~HelmEvidence(bundle).history, "HELM_HISTORY_MISSING")
      \cup Gap(~bundle.manifests /\ ~bundle.values, "PREVIOUS_ARTIFACTS_MISSING")
      \cup Gap(PvcReversibility(bundle) = "conditional", "PVC_ROLLBACK_CONDITIONAL")
      \cup Gap(PvcReversibility(bundle) = "not_reversible", "PVC_ROLLBACK_NOT_REVERSIBLE")
      \cup Gap(DestructiveSteps(bundle) # {}, "DATA_DESTRUCTIVE_ROLLBACK")

\* The confidence the score earns, and when it is cut to medium.
Rated(bundle, evidence) ==
    RollbackConfidence(Score(bundle, evidence), RollbackSteps(bundle), DestructiveSteps(bundle) # {})

Capped(bundle, evidence) ==
    /\ Complete(bundle) /\ Proof(bundle, evidence) # "passed"
    /\ Rated(bundle, evidence) = "high"

\* When a rollback counts as proven.
LEMMA ProvenIs ==
  ASSUME NEW bundle, NEW evidence
  PROVE  AssessRollback(bundle, evidence).proven = (Complete(bundle) /\ Proof(bundle, evidence) = "passed")
  BY DEF AssessRollback, Complete, Proof

\* The gaps that are left.
LEMMA GapsAre ==
  ASSUME NEW bundle, NEW evidence
  PROVE  AssessRollback(bundle, evidence).gaps
           = Standing(bundle) \cup Gap(Proof(bundle, evidence) # "passed", "ROLLBACK_NOT_PROVEN")
  BY DEF AssessRollback, Standing, Proof

\* An assessment in these terms.
LEMMA AssessmentIs ==
  ASSUME NEW bundle, NEW evidence
  PROVE  LET a == AssessRollback(bundle, evidence)
         IN /\ DOMAIN a = {"defined", "proven", "proof", "gaps", "steps", "irreversible", "score", "confidence"}
            /\ a.defined = Complete(bundle)
            /\ a.proven = (Complete(bundle) /\ Proof(bundle, evidence) = "passed")
            /\ a.gaps = Standing(bundle) \cup Gap(Proof(bundle, evidence) # "passed", "ROLLBACK_NOT_PROVEN")
            /\ a.steps = RollbackSteps(bundle)
            /\ a.irreversible = Irreversible(bundle)
            /\ a.score = (IF Capped(bundle, evidence) THEN Min({Score(bundle, evidence), 79})
                          ELSE Score(bundle, evidence))
            /\ a.confidence = (IF Capped(bundle, evidence) THEN "medium" ELSE Rated(bundle, evidence))
<1> DEFINE a == AssessRollback(bundle, evidence)
<1>1. DOMAIN a = {"defined", "proven", "proof", "gaps", "steps", "irreversible", "score", "confidence"}
  BY DEF AssessRollback
<1>2. a.defined = Complete(bundle) /\ a.steps = RollbackSteps(bundle)
  BY DEF AssessRollback, Complete
<1>3. a.proven = (Complete(bundle) /\ Proof(bundle, evidence) = "passed")
  BY ProvenIs
<1>4. a.gaps = Standing(bundle) \cup Gap(Proof(bundle, evidence) # "passed", "ROLLBACK_NOT_PROVEN")
  BY GapsAre
<1>5. a.irreversible = Irreversible(bundle)
  BY DEF AssessRollback, Irreversible
<1> DEFINE open == RollbackSteps(bundle) = {} \/ LinkedForward(bundle) # ForwardSteps(bundle)
           raw == IF PvcReversibility(bundle) = "not_reversible" \/ DestructiveSteps(bundle) # {} THEN 0
                  ELSE Max({0, 100 - Points(open, 30)
                                   - Points(HelmEvidence(bundle).required /\ ~HelmEvidence(bundle).history, 20)
                                   - Points(~bundle.manifests /\ ~bundle.values, 15)
                                   - Points(PvcReversibility(bundle) = "conditional", 20)
                                   - Points(RollbackProof(evidence, RollbackSteps(bundle)) # "passed", 10)})
<1>6. raw = Score(bundle, evidence)
  <2>1. \A c : /\ Points(c, 30) \in {0, 30} /\ Points(c, 20) \in {0, 20}
               /\ Points(c, 15) \in {0, 15} /\ Points(c, 10) \in {0, 10}
    BY DEF Points
  <2> DEFINE p == Points(RollbackSteps(bundle) = {} \/ LinkedForward(bundle) # ForwardSteps(bundle), 30)
             q == Points(HelmEvidence(bundle).required /\ ~HelmEvidence(bundle).history, 20)
             r == Points(~bundle.manifests /\ ~bundle.values, 15)
             s == Points(PvcReversibility(bundle) = "conditional", 20)
             t == Points(Proof(bundle, evidence) # "passed", 10)
  <2>2. p \in Int /\ q \in Int /\ r \in Int /\ s \in Int /\ t \in Int
    BY <2>1
  <2>3. Costs(bundle) = p + q + r + s
    BY DEF Costs
  <2>4. raw = IF Irreversible(bundle) THEN 0 ELSE Max({0, 100 - p - q - r - s - t})
    BY DEF Irreversible, Proof
  <2> HIDE DEF p, q, r, s, t, raw
  <2>5. 100 - p - q - r - s - t = 100 - Costs(bundle) - t
    BY <2>2, <2>3
  <2> QED
    BY <2>4, <2>5 DEF Score, t
<1>7. /\ a.score = (IF Capped(bundle, evidence) THEN Min({raw, 79}) ELSE raw)
      /\ a.confidence = (IF Capped(bundle, evidence) THEN "medium"
                         ELSE RollbackConfidence(raw, RollbackSteps(bundle), DestructiveSteps(bundle) # {}))
  <2>1. Capped(bundle, evidence)
          = /\ Complete(bundle) /\ ~(Complete(bundle) /\ Proof(bundle, evidence) = "passed")
            /\ RollbackConfidence(raw, RollbackSteps(bundle), DestructiveSteps(bundle) # {}) = "high"
    BY <1>6 DEF Capped, Rated
  <2> QED
    BY <2>1 DEF AssessRollback, Complete, Proof
<1> HIDE DEF a, raw
<1> QED
  BY <1>1, <1>2, <1>3, <1>4, <1>5, <1>6, <1>7 DEF a, Rated

\* What a plan loses is a number.
LEMMA CostsAre == ASSUME NEW bundle PROVE Costs(bundle) \in Nat
<1>1. \A c : Points(c, 30) \in Nat /\ Points(c, 20) \in Nat /\ Points(c, 15) \in Nat
  BY DEF Points
<1> QED
  BY <1>1 DEF Costs

\* The score as a number, with and without the proof.
LEMMA ScoreIs ==
  ASSUME NEW bundle, NEW evidence
  PROVE  Score(bundle, evidence)
           = IF Irreversible(bundle) THEN 0
             ELSE IF Proof(bundle, evidence) = "passed"
             THEN IF Costs(bundle) <= 100 THEN 100 - Costs(bundle) ELSE 0
             ELSE IF Costs(bundle) <= 90 THEN 90 - Costs(bundle) ELSE 0
<1> DEFINE c == Costs(bundle)
           p == Points(Proof(bundle, evidence) # "passed", 10)
           v == 100 - c - p
<1>1. c \in Nat
  BY CostsAre
<1>2. p = IF Proof(bundle, evidence) = "passed" THEN 0 ELSE 10
  BY DEF Points
<1>3. v \in Int
  BY <1>1, <1>2
<1>4. Score(bundle, evidence) = IF Irreversible(bundle) THEN 0 ELSE Max({0, v})
  BY DEF Score
<1>5. Max({0, v}) = IF 0 >= v THEN 0 ELSE v
  <2> HIDE DEF v
  <2> QED
    BY <1>3, MinMax
<1> HIDE DEF c, p
<1> QED
  BY <1>1, <1>2, <1>4, <1>5 DEF c

\* The confidence as a condition for each grade.
LEMMA ConfidenceIs ==
  ASSUME NEW score \in Int, NEW steps, NEW destructive \in BOOLEAN
  PROVE  RollbackConfidence(score, steps, destructive)
           = IF destructive THEN "low"
             ELSE IF steps = {} THEN "unavailable"
             ELSE IF score >= 80 THEN "high" ELSE IF score >= 55 THEN "medium" ELSE "low"
  BY DEF RollbackConfidence

\* Nothing to revert cannot be irreversible.
LEMMA IrreversibleHasSteps ==
  ASSUME NEW bundle, Irreversible(bundle)
  PROVE  RollbackSteps(bundle) # {}
<1>1. CASE DestructiveSteps(bundle) # {}
  BY <1>1 DEF DestructiveSteps
<1>2. CASE PvcReversibility(bundle) = "not_reversible"
  BY <1>2 DEF PvcReversibility
<1> QED
  BY <1>1, <1>2 DEF Irreversible

\* What the patch makes of the first assessment.
LEMMA EnrichedIs ==
  ASSUME NEW bundle, NEW evidence
  PROVE  LET first   == AssessRollback(bundle, {})
             patched == EnrichRollback(first, evidence)
             proven  == Complete(bundle) /\ Proof(bundle, evidence) = "passed"
             score   == IF proven THEN Min({100, first.score + 10}) ELSE first.score
         IN /\ patched.proven = proven
            /\ patched.gaps = (first.gaps \ {"ROLLBACK_NOT_PROVEN"}) \cup Gap(~proven, "ROLLBACK_NOT_PROVEN")
            /\ patched.confidence = RollbackConfidence(score, RollbackSteps(bundle), Irreversible(bundle))
<1> DEFINE first   == AssessRollback(bundle, {})
           proven  == Complete(bundle) /\ Proof(bundle, evidence) = "passed"
           score   == IF proven THEN Min({100, first.score + 10}) ELSE first.score
           gaps    == (first.gaps \ {"ROLLBACK_NOT_PROVEN"}) \cup Gap(~proven, "ROLLBACK_NOT_PROVEN")
           rated   == RollbackConfidence(score, RollbackSteps(bundle), Irreversible(bundle))
<1>1. /\ DOMAIN first = {"defined", "proven", "proof", "gaps", "steps", "irreversible", "score", "confidence"}
      /\ first.defined = Complete(bundle) /\ first.steps = RollbackSteps(bundle)
      /\ first.irreversible = Irreversible(bundle)
  BY AssessmentIs
<1> HIDE DEF first
<1>2. EnrichRollback(first, evidence)
        = [first EXCEPT !.proof = Proof(bundle, evidence), !.proven = proven, !.score = score,
                        !.gaps = gaps, !.confidence = rated]
  BY <1>1 DEF EnrichRollback, Proof
<1> HIDE DEF proven, score, gaps, rated
<1>3. /\ EnrichRollback(first, evidence).proven = proven
      /\ EnrichRollback(first, evidence).gaps = gaps
      /\ EnrichRollback(first, evidence).confidence = rated
  BY <1>1, <1>2
<1> QED
  BY <1>3 DEF first, proven, score, gaps, rated

\* The evidence closes one gap and no other.
LEMMA StandingIs == ASSUME NEW bundle PROVE "ROLLBACK_NOT_PROVEN" \notin Standing(bundle)
<1>1. \A c : /\ "ROLLBACK_NOT_PROVEN" \notin Gap(c, "ROLLBACK_STEP_MISSING")
             /\ "ROLLBACK_NOT_PROVEN" \notin Gap(c, "ROLLBACK_LINK_INCOMPLETE")
             /\ "ROLLBACK_NOT_PROVEN" \notin Gap(c, "HELM_HISTORY_MISSING")
             /\ "ROLLBACK_NOT_PROVEN" \notin Gap(c, "PREVIOUS_ARTIFACTS_MISSING")
             /\ "ROLLBACK_NOT_PROVEN" \notin Gap(c, "PVC_ROLLBACK_CONDITIONAL")
             /\ "ROLLBACK_NOT_PROVEN" \notin Gap(c, "PVC_ROLLBACK_NOT_REVERSIBLE")
             /\ "ROLLBACK_NOT_PROVEN" \notin Gap(c, "DATA_DESTRUCTIVE_ROLLBACK")
  BY DEF Gap
<1> QED
  BY <1>1 DEF Standing

(* The proof of the dry run patched into the first assessment leaves what a *)
(* direct assessment on the same evidence says; where the plan has no       *)
(* complete rollback the patched one is the more careful (rollback_twin.py).*)
THEOREM EnrichedIsDirect == Spec => []EnrichAgreesWithAssess
<1>1. EnrichAgreesWithAssess
  <2> SUFFICES ASSUME Is("rollback") PROVE EnrichAgreesWithAssess
    BY DEF EnrichAgreesWithAssess
  <2> DEFINE bundle   == case.in.bundle
             evidence == case.in.evidence
             first    == AssessRollback(bundle, {})
             patched  == EnrichRollback(first, evidence)
             direct   == AssessRollback(bundle, evidence)
             passed   == Proof(bundle, evidence) = "passed"
             proven   == Complete(bundle) /\ passed
             score    == IF proven THEN Min({100, first.score + 10}) ELSE first.score
             steps    == RollbackSteps(bundle)
             wipes    == DestructiveSteps(bundle) # {}
             gone     == Irreversible(bundle)
             c        == Costs(bundle)
  <2>1. Proof(bundle, {}) # "passed"
    BY DEF Proof, RollbackProof
  <2>2. /\ patched.proven = proven
        /\ patched.gaps = (first.gaps \ {"ROLLBACK_NOT_PROVEN"}) \cup Gap(~proven, "ROLLBACK_NOT_PROVEN")
        /\ patched.confidence = RollbackConfidence(score, steps, gone)
    BY EnrichedIs
  <2>3. /\ direct.defined = Complete(bundle) /\ direct.proven = proven
        /\ direct.gaps = Standing(bundle) \cup Gap(~passed, "ROLLBACK_NOT_PROVEN")
        /\ direct.confidence = (IF Capped(bundle, evidence) THEN "medium" ELSE Rated(bundle, evidence))
    <3>1. direct.defined = Complete(bundle)
      BY AssessmentIs
    <3>2. direct.proven = proven
      BY ProvenIs
    <3>3. direct.gaps = Standing(bundle) \cup Gap(~passed, "ROLLBACK_NOT_PROVEN")
      BY GapsAre
    <3>4. direct.confidence = (IF Capped(bundle, evidence) THEN "medium" ELSE Rated(bundle, evidence))
      BY AssessmentIs, ZenonT(30)
    <3> QED
      BY <3>1, <3>2, <3>3, <3>4
  <2>4. /\ first.gaps = Standing(bundle) \cup {"ROLLBACK_NOT_PROVEN"}
        /\ first.score = (IF Capped(bundle, {}) THEN Min({Score(bundle, {}), 79}) ELSE Score(bundle, {}))
    BY <2>1, AssessmentIs DEF Gap
  <2>5. /\ direct.gaps \subseteq patched.gaps
        /\ direct.defined => patched.gaps = direct.gaps
    BY <2>2, <2>3, <2>4, StandingIs DEF Gap
  <2>6. /\ c \in Nat /\ wipes \in BOOLEAN /\ gone \in BOOLEAN
        /\ wipes => gone
        /\ gone => steps # {}
    BY CostsAre, IrreversibleHasSteps DEF Irreversible
  <2>7. /\ Score(bundle, {}) = (IF gone THEN 0 ELSE IF c <= 90 THEN 90 - c ELSE 0)
        /\ Score(bundle, evidence) = (IF gone THEN 0
                                      ELSE IF passed THEN IF c <= 100 THEN 100 - c ELSE 0
                                      ELSE IF c <= 90 THEN 90 - c ELSE 0)
    BY <2>1, ScoreIs
  <2> DEFINE Grade(n, d) == IF d THEN "low" ELSE IF steps = {} THEN "unavailable"
                            ELSE IF n >= 80 THEN "high" ELSE IF n >= 55 THEN "medium" ELSE "low"
             capped == Complete(bundle) /\ Grade(Score(bundle, {}), wipes) = "high"
             start  == IF capped THEN 79 ELSE Score(bundle, {})
             end    == IF proven THEN IF start <= 90 THEN start + 10 ELSE 100 ELSE start
  <2>8. /\ Rated(bundle, {}) = Grade(Score(bundle, {}), wipes)
        /\ Rated(bundle, evidence) = Grade(Score(bundle, evidence), wipes)
    <3>1. Score(bundle, {}) \in Int /\ Score(bundle, evidence) \in Int
      BY <2>6, <2>7
    <3> QED
      BY <2>6, <3>1, ConfidenceIs DEF Rated
  <2>9. Capped(bundle, {}) = capped
    BY <2>1, <2>8 DEF Capped
  <2>10. first.score = start /\ start \in 0..90
    <3>1. Score(bundle, {}) \in 0..90 /\ (capped => Score(bundle, {}) >= 80)
      <4>1. Score(bundle, {}) \in 0..90
        BY <2>6, <2>7
      <4> QED
        BY <4>1
    <3>2. Min({Score(bundle, {}), 79}) = IF Score(bundle, {}) <= 79 THEN Score(bundle, {}) ELSE 79
      BY <3>1, MinMax
    <3>3. first.score = (IF capped THEN Min({Score(bundle, {}), 79}) ELSE Score(bundle, {}))
      BY <2>4, <2>9
    <3> DEFINE raw == Score(bundle, {})
    <3> HIDE DEF first, capped, raw
    <3>4. raw \in 0..90 /\ (capped => raw >= 80)
      BY <3>1 DEF raw
    <3>5. first.score = IF capped THEN 79 ELSE raw
      BY <3>2, <3>3, <3>4 DEF raw
    <3> QED
      BY <3>4, <3>5 DEF raw
  <2>11. score = end
    <3>1. Min({100, first.score + 10}) = IF 100 <= first.score + 10 THEN 100 ELSE first.score + 10
      BY <2>10, MinMax
    <3> HIDE DEF first, start
    <3> QED
      BY <2>10, <3>1
  <2>12. end \in Int
    BY <2>10
  <2>13. patched.confidence = Grade(end, gone)
    BY <2>2, <2>6, <2>11, <2>12, ConfidenceIs
  <2>14. direct.confidence = IF Complete(bundle) /\ ~passed /\ Grade(Score(bundle, evidence), wipes) = "high"
                             THEN "medium" ELSE Grade(Score(bundle, evidence), wipes)
    BY <2>3, <2>8 DEF Capped
  <2>15. Complete(bundle) => steps # {}
    BY DEF Complete
  <2> HIDE DEF first, patched, direct, passed, steps, wipes, gone, c
  <2>16. /\ Confident[patched.confidence] <= Confident[direct.confidence]
         /\ direct.defined => patched.confidence = direct.confidence
    BY <2>3, <2>6, <2>7, <2>13, <2>14, <2>15 DEF Confident
  <2> QED
    BY <2>2, <2>3, <2>5, <2>16 DEF EnrichAgreesWithAssess, patched, direct, first
<1> QED
  BY <1>1, PTL

-----------------------------------------------------------------------------
(* The dependency graph.                                                    *)

\* What a node stands for, if it is missing: something made up, or a reference.
Accounted(resources, n) ==
    n.status = "missing" => n.kind \in MadeUpKinds \/ \E kind, ns, name : n = Resolve(resources, kind, ns, name)

\* The fields of the nodes and edges the graph is built from.
LEMMA NodeIs ==
  /\ \A r : PlannedNode(r).status = "present"
  /\ \A kind, ns, name, status : /\ Synthetic(kind, ns, name, status).kind = kind
                                 /\ Synthetic(kind, ns, name, status).ns = ns
                                 /\ Synthetic(kind, ns, name, status).name = name
                                 /\ Synthetic(kind, ns, name, status).status = status
  /\ \A src, dst, type : Edge(src, dst, type).src = src /\ Edge(src, dst, type).dst = dst
  BY DEF PlannedNode, Synthetic, Node, Edge

\* The nodes of which the edges are made are accounted for.
LEMMA SimpleNodes ==
  ASSUME NEW resources
  PROVE  /\ \A r : Accounted(resources, PlannedNode(r))
         /\ \A kind, ns, name : Accounted(resources, Resolve(resources, kind, ns, name))
         /\ \A kind, ns, name : Accounted(resources, Synthetic(kind, ns, name, "present"))
         /\ \A kind \in MadeUpKinds : \A ns, name, status :
                Accounted(resources, Synthetic(kind, ns, name, status))
         /\ \A plan, id : Accounted(resources, PhaseNode(plan, id))
<1>1. \A kind \in MadeUpKinds : \A ns, name, status : Accounted(resources, Synthetic(kind, ns, name, status))
  BY NodeIs DEF Accounted
<1>2. \A plan, id : Accounted(resources, PhaseNode(plan, id))
  BY NodeIs DEF Accounted, PhaseNode, MadeUpKinds
<1> QED
  BY <1>1, <1>2, NodeIs DEF Accounted

\* Both ends of the edges are accounted for.
Ends(resources, edges) == \A e \in edges : Accounted(resources, e.src) /\ Accounted(resources, e.dst)

\* Edges of one resource to what it needs.
LEMMA OwnEnds ==
  ASSUME NEW resources, NEW r
  PROVE  Ends(resources, OwnEdges(resources, r))
<1> SUFFICES ASSUME NEW e \in OwnEdges(resources, r)
             PROVE  Accounted(resources, e.src) /\ Accounted(resources, e.dst)
  BY DEF Ends
<1>1. \/ \E kind, ns, name, type : e = Edge(Resolve(resources, kind, ns, name), PlannedNode(r), type)
      \/ \E kind, ns, name, type : e = Edge(PlannedNode(r), Resolve(resources, kind, ns, name), type)
      \/ \E kind, ns, name, type : e = Edge(Synthetic(kind, ns, name, "present"), PlannedNode(r), type)
  BY DEF OwnEdges
<1> QED
  BY <1>1, SimpleNodes, NodeIs

\* Edges of a binding to its role and its subjects.
LEMMA BindingEnds ==
  ASSUME NEW resources, NEW r
  PROVE  Ends(resources, BindingEdges(resources, r))
<1> SUFFICES ASSUME NEW e \in BindingEdges(resources, r)
             PROVE  Accounted(resources, e.src) /\ Accounted(resources, e.dst)
  BY DEF Ends
<1>1. \/ \E kind, ns, name, type : e = Edge(Resolve(resources, kind, ns, name), PlannedNode(r), type)
      \/ \E kind, ns, name, type : e = Edge(PlannedNode(r), Resolve(resources, kind, ns, name), type)
  BY DEF BindingEdges
<1> QED
  BY <1>1, SimpleNodes, NodeIs

\* Edges of a selector to the workloads it selects.
LEMMA SelectorEnds ==
  ASSUME NEW resources, NEW r
  PROVE  Ends(resources, SelectorEdges(resources, r))
<1> SUFFICES ASSUME NEW e \in SelectorEdges(resources, r)
             PROVE  Accounted(resources, e.src) /\ Accounted(resources, e.dst)
  BY DEF Ends
<1>1. \/ \E ns, name, type : e = Edge(PlannedNode(r), Synthetic("SelectorTarget", ns, name, "missing"), type)
      \/ \E w, type : e = Edge(PlannedNode(r), PlannedNode(w), type)
  BY DEF SelectorEdges
<1>2. "SelectorTarget" \in MadeUpKinds
  BY DEF MadeUpKinds
<1> QED
  BY <1>1, <1>2, SimpleNodes, NodeIs

\* Edges of a custom resource to its definition.
LEMMA DefinitionEnds ==
  ASSUME NEW resources, NEW r
  PROVE  Ends(resources, DefinitionEdges(resources, r))
<1> SUFFICES ASSUME NEW e \in DefinitionEdges(resources, r)
             PROVE  Accounted(resources, e.src) /\ Accounted(resources, e.dst)
  BY DEF Ends
<1>1. \/ \E kind, ns, name, type : e = Edge(Resolve(resources, kind, ns, name), PlannedNode(r), type)
      \/ \E d, type : e = Edge(PlannedNode(d), PlannedNode(r), type)
  BY DEF DefinitionEdges
<1> QED
  BY <1>1, SimpleNodes, NodeIs

\* Edges between the phases of the plan and to the objects they apply.
LEMMA PlanEnds ==
  ASSUME NEW resources, NEW plan
  PROVE  Ends(resources, PlanEdges(resources, plan))
<1> SUFFICES ASSUME NEW e \in PlanEdges(resources, plan)
             PROVE  Accounted(resources, e.src) /\ Accounted(resources, e.dst)
  BY DEF Ends
<1>1. \/ \E a, b, type : e = Edge(PhaseNode(plan, a), PhaseNode(plan, b), type)
      \/ \E a, s, type : e = Edge(PhaseNode(plan, a), PlannedNode(s), type)
      \/ \E a, ns, name, type :
            e = Edge(PhaseNode(plan, a), Synthetic("ManifestArtifact", ns, name, "missing"), type)
  BY DEF PlanEdges
<1>2. "ManifestArtifact" \in MadeUpKinds
  BY DEF MadeUpKinds
<1> QED
  BY <1>1, <1>2, SimpleNodes, NodeIs

\* So every node of the graph is accounted for.
LEMMA NodesAccounted ==
  ASSUME NEW resources, NEW plan, NEW n \in GraphNodes(resources, plan)
  PROVE  Accounted(resources, n)
<1>1. ASSUME NEW e \in GraphEdges(resources, plan)
      PROVE  Accounted(resources, e.src) /\ Accounted(resources, e.dst)
  <2>1. e \in UNION {ResourceEdges(resources, r) : r \in resources} \/ e \in PlanEdges(resources, plan)
    BY Zenon DEF GraphEdges
  <2>2. (\E r \in resources : e \in ResourceEdges(resources, r)) \/ e \in PlanEdges(resources, plan)
    BY <2>1
  <2> QED
    BY <2>2, OwnEnds, BindingEnds, SelectorEnds, DefinitionEnds, PlanEnds DEF Ends, ResourceEdges
<1> QED
  BY <1>1, SimpleNodes DEF GraphNodes

\* A reference is missing only when nothing planned answers to it.
LEMMA MissingIsAbsent ==
  ASSUME NEW resources, IsFiniteSet(resources), NEW kind, NEW ns, NEW name,
         Resolve(resources, kind, ns, name).status = "missing"
  PROVE  /\ Resolve(resources, kind, ns, name) = Synthetic(kind, ns, name, "missing")
         /\ ~\E r \in resources : /\ r.kind = kind /\ r.name = name
                                  /\ r.ns = ns \/ (kind \in ClusterKinds /\ r.ns = "none")
<1> DEFINE At(space) == {r \in resources : r.kind = kind /\ r.ns = space /\ r.name = name}
           In(space) == {PlannedNode(r) : r \in At(space)}
           found     == IF In(ns) = {} /\ kind \in ClusterKinds THEN In("none") ELSE In(ns)
           node      == Resolve(resources, kind, ns, name)
<1>1. node = CASE Cardinality(found) = 1 -> CHOOSE n \in found : TRUE
               [] Cardinality(found) > 1 -> Synthetic(kind, ns, name, "uncertain")
               [] OTHER -> IF kind = "ServiceAccount" /\ name = "default" /\ ns # "none"
                           THEN Synthetic(kind, ns, name, "present")
                           ELSE Synthetic(kind, ns, name, "missing")
  BY DEF Resolve
<1>2. \A space : IsFiniteSet(In(space))
  <2> TAKE space
  <2>1. IsFiniteSet(At(space))
    BY FS_Subset
  <2>2. IsFiniteSet({PlannedNode(r) : r \in At(space)})
    <3> DEFINE f == [r \in At(space) |-> PlannedNode(r)]
    <3> HIDE DEF At
    <3>1. f \in [At(space) -> {PlannedNode(r) : r \in At(space)}]
      OBVIOUS
    <3>2. \A n \in {PlannedNode(r) : r \in At(space)} : \E r \in At(space) : f[r] = n
      OBVIOUS
    <3>3. f \in Surjection(At(space), {PlannedNode(r) : r \in At(space)})
      BY <3>1, <3>2, Fun_IsSurj
    <3> QED
      BY <2>1, <3>3, FS_Surjection
  <2> QED
    BY <2>2
<1>3. IsFiniteSet(found) /\ \A n \in found : n.status = "present"
  <2>1. \A space : \A n \in In(space) : n.status = "present"
    BY NodeIs
  <2> HIDE DEF In
  <2> QED
    BY <1>2, <2>1
<1>4. /\ Cardinality(found) \in Nat
      /\ Cardinality(found) = 0 => found = {}
      /\ Cardinality(found) = 1 => \E n : found = {n}
  BY <1>3, FS_CardinalityType, FS_EmptySet, FS_Singleton
<1> HIDE DEF found
<1>5. Cardinality(found) # 1
  <2> SUFFICES ASSUME Cardinality(found) = 1 PROVE FALSE
    OBVIOUS
  <2>1. (CHOOSE n \in found : TRUE) \in found
    BY <1>4
  <2> QED
    BY <1>1, <1>3, <2>1
<1>6. ~(Cardinality(found) > 1)
  BY <1>1, <1>5, NodeIs
<1>7. found = {}
  BY <1>4, <1>5, <1>6
<1>8. In(ns) = {} /\ (kind \in ClusterKinds => In("none") = {})
  BY <1>7 DEF found
<1>9. At(ns) = {} /\ (kind \in ClusterKinds => At("none") = {})
  BY <1>8
<1>10. node = Synthetic(kind, ns, name, "missing")
  BY <1>1, <1>5, <1>6, NodeIs
<1> QED
  BY <1>9, <1>10

(* What a planned object needs is found in the plan when the plan has it,   *)
(* in its namespace or, for kinds without one, in the cluster               *)
(* (dependency_graph.py).                                                   *)
THEOREM PlannedIsFound == Spec => []PlannedIsNeverMissing
<1>1. CaseInv => PlannedIsNeverMissing
  <2> SUFFICES ASSUME CaseInv, Is("graph"), NEW n \in TheNodes, n.status = "missing",
                      NEW r \in case.in.resources,
                      r.kind = n.kind /\ r.name = n.name,
                      r.ns = n.ns \/ (n.kind \in ClusterKinds /\ r.ns = "none")
               PROVE  FALSE
    BY DEF PlannedIsNeverMissing
  <2>1. IsFiniteSet(case.in.resources) /\ r.kind \notin MadeUpKinds
    BY RulesAssumption DEF CaseInv, IsGraphInput
  <2>2. Accounted(case.in.resources, n)
    BY NodesAccounted DEF TheNodes
  <2>3. PICK kind, ns, name : n = Resolve(case.in.resources, kind, ns, name)
    BY <2>1, <2>2 DEF Accounted
  <2>4. n = Synthetic(kind, ns, name, "missing")
    BY <2>1, <2>3, MissingIsAbsent
  <2>5. n.kind = kind /\ n.ns = ns /\ n.name = name
    BY <2>4, NodeIs
  <2> QED
    BY <2>1, <2>3, <2>5, MissingIsAbsent
<1> QED
  BY <1>1, CaseInvariant, PTL

-----------------------------------------------------------------------------
(* The dependency graph: a cycle is reported exactly when there is one.     *)
(* First that the search is defined: every call has less to do, which takes *)
(* a bound on what a call returns, so the two are shown together. Then what *)
(* a search that met no back edge left behind has no cycle, and where one   *)
(* is met there is a cycle.                                                 *)

IsListing(nodes, edges, order) ==
    /\ order \in Seq(nodes) /\ Range(order) = nodes
    /\ \A e \in edges : e.src \in nodes /\ e.dst \in nodes

\* The search a node is visited with, and the one it leaves for the rest.
Inner(s, edges, node) == [s EXCEPT !.todo = Targets(edges, node), !.open = @ \cup {node}]
Rest(s, node) == [s EXCEPT !.todo = @ \ {node}]
After(s, edges, node, inner) ==
    [Rest(s, node) EXCEPT
        !.done = inner.done \cup {node},
        !.back = inner.back + Cardinality(Targets(edges, node) \cap (s.open \cup {node}))]

\* What the search makes of s, given what it makes of the searches it calls.
Body(f, edges, order, s) ==
    IF s.todo = {} THEN s
    ELSE LET node  == First(order, s.todo)
             next  == Targets(edges, node)
             rest  == [s EXCEPT !.todo = @ \ {node}]
             inner == f[[s EXCEPT !.todo = next, !.open = @ \cup {node}]]
             after == [rest EXCEPT !.done = inner.done \cup {node},
                                   !.back = inner.back + Cardinality(next \cap (s.open \cup {node}))]
         IN f[IF node \in s.open \cup s.done THEN rest ELSE after]

\* The search as a recursive function of its body.
LEMMA VisitIs ==
  ASSUME NEW nodes, NEW edges, NEW order
  PROVE  Visit(nodes, edges, order) = CHOOSE f : f = [s \in Search(nodes) |-> Body(f, edges, order, s)]
  BY DEF Visit, Body

\* The body in terms of the searches it calls.
LEMMA BodyIs ==
  ASSUME NEW f, NEW edges, NEW order, NEW s, NEW node, node = First(order, s.todo)
  PROVE  Body(f, edges, order, s) =
             IF s.todo = {} THEN s
             ELSE IF node \in s.open \cup s.done THEN f[Rest(s, node)]
             ELSE f[After(s, edges, node, f[Inner(s, edges, node)])]
  BY DEF Body, Inner, Rest, After

\* Induction on natural numbers, over a set.
LEMMA LeastOf ==
  ASSUME NEW S \in SUBSET Nat, S # {}
  PROVE  \E n \in S : \A m \in S : n <= m
<1> DEFINE R == OpToRel(<, Nat)
<1>1. IsWellFoundedOn(R, Nat)
  BY NatLessThanWellFounded
<1>2. S \subseteq Nat
  OBVIOUS
<1> HIDE DEF R
<1>3. PICK x \in S : \A y \in S : ~ (<<y, x>> \in R)
  BY <1>1, <1>2, WFMin
<1>4. ASSUME NEW y \in S, y < x PROVE FALSE
  <2>1. <<y, x>> \in Nat \X Nat
    BY <1>2
  <2>2. <<y, x>>[1] < <<y, x>>[2]
    BY <1>4
  <2>3. <<y, x>> \in R
    BY ONLY <2>1, <2>2, Zenon DEF R, OpToRel
  <2> QED
    BY <1>3, <2>3
<1> QED
  BY <1>2, <1>4

\* Where the first node of a set stands.
LEMMA FirstIs ==
  ASSUME NEW nodes, NEW order \in Seq(nodes), NEW todo \in SUBSET Range(order), todo # {}
  PROVE  First(order, todo) \in todo
<1> DEFINE At == {i \in DOMAIN order : order[i] \in todo}
<1>1. DOMAIN order \subseteq Nat
  OBVIOUS
<1>2. At \in SUBSET Nat /\ At # {}
  BY <1>1 DEF Range
<1>3. \E i \in DOMAIN order : order[i] \in todo /\ \A j \in DOMAIN order : order[j] \in todo => i <= j
  <2>1. PICK i \in At : \A j \in At : i <= j
    BY <1>2, LeastOf
  <2> QED
    BY <2>1
<1> QED
  BY <1>3 DEF First

\* How much a search has left to do.
Left(nodes, s) == nodes \ (s.open \cup s.done)
WorkLeft(nodes, s) == Cardinality(Left(nodes, s)) * (Cardinality(nodes) + 1) + Cardinality(s.todo)

\* A call that opens a node has less to do, and one that leaves a node out too.
LEMMA LessLeft ==
  ASSUME NEW u \in Nat, NEW v \in Nat, NEW c \in Nat, NEW t \in Nat, NEW w \in Nat
  PROVE  /\ v < u /\ t < c => v * c + t < u * c + w
         /\ v <= u /\ t < w => v * c + t < u * c + w
<1>1. ASSUME v < u, t < c PROVE v * c + t < u * c + w
  <2>1. u = v + (u - v) /\ u - v \in Nat /\ u - v >= 1
    BY <1>1
  <2> DEFINE d == u - v
  <2> HIDE DEF d
  <2>2. u * c = v * c + d * c
    <3>1. u = v + d /\ d \in Nat
      BY <2>1 DEF d
    <3> QED
      BY <3>1
  <2>3. d * c >= c
    <3>1. d \in Nat /\ d >= 1
      BY <2>1 DEF d
    <3> QED
      BY <3>1
  <2>4. v * c \in Nat /\ u * c \in Nat /\ d * c \in Nat
    BY <2>1 DEF d
  <2> QED
    BY <1>1, <2>2, <2>3, <2>4
<1>2. ASSUME v <= u, t < w PROVE v * c + t < u * c + w
  <2>1. v * c <= u * c
    BY <1>2
  <2>2. v * c \in Nat /\ u * c \in Nat
    OBVIOUS
  <2> QED
    BY <1>2, <2>1, <2>2
<1> QED
  BY <1>1, <1>2

\* The nodes of a listing are finitely many.
LEMMA ListedIsFinite ==
  ASSUME NEW nodes, NEW edges, NEW order, IsListing(nodes, edges, order)
  PROVE  IsFiniteSet(nodes)
<1>1. DOMAIN order = 1..Len(order) /\ Len(order) \in Nat
  BY DEF IsListing
<1>2. IsFiniteSet(DOMAIN order)
  BY <1>1, FS_Interval
<1>3. order \in Surjection(DOMAIN order, nodes)
  <2>1. order \in [DOMAIN order -> nodes]
    BY <1>1 DEF IsListing
  <2>2. \A x \in nodes : \E i \in DOMAIN order : order[i] = x
    BY DEF IsListing, Range
  <2> QED
    BY <2>1, <2>2 DEF Surjection
<1> QED
  BY <1>2, <1>3, FS_Surjection

\* What is left to do is a number.
LEMMA WeightIsNat ==
  ASSUME NEW nodes, IsFiniteSet(nodes), NEW s \in Search(nodes)
  PROVE  /\ WorkLeft(nodes, s) \in Nat
         /\ WorkLeft(nodes, s) <= Cardinality(nodes) * (Cardinality(nodes) + 1) + Cardinality(nodes)
<1> DEFINE n == Cardinality(nodes)
           u == Cardinality(Left(nodes, s))
           t == Cardinality(s.todo)
<1>1. n \in Nat
  BY FS_CardinalityType
<1>2. Left(nodes, s) \subseteq nodes /\ s.todo \subseteq nodes
  BY DEF Left, Search
<1>3. u \in Nat /\ u <= n /\ t \in Nat /\ t <= n
  BY <1>2, FS_Subset, FS_CardinalityType
<1>4. \A x, y, c \in Nat : x <= y => x * c \in Nat /\ y * c \in Nat /\ x * c <= y * c
  OBVIOUS
<1> HIDE DEF n, u, t
<1>5. u * (n + 1) \in Nat /\ n * (n + 1) \in Nat /\ u * (n + 1) <= n * (n + 1)
  BY <1>1, <1>3, <1>4
<1>6. u * (n + 1) + t \in Nat /\ u * (n + 1) + t <= n * (n + 1) + n
  BY <1>1, <1>3, <1>5
<1> QED
  BY <1>6 DEF WorkLeft, n, u, t

\* What a search never undoes.
Keeps(nodes, s, r) ==
    r \in Search(nodes) /\ r.open = s.open /\ s.done \subseteq r.done /\ s.back <= r.back

\* The searches a search calls have less to do.
LEMMA CallsWeighLess ==
  ASSUME NEW nodes, NEW edges, NEW order, IsListing(nodes, edges, order),
         NEW s \in Search(nodes), s.todo # {}, NEW node, node = First(order, s.todo)
  PROVE  /\ node \in s.todo
         /\ Rest(s, node) \in Search(nodes) /\ WorkLeft(nodes, Rest(s, node)) < WorkLeft(nodes, s)
         /\ node \notin s.open \cup s.done =>
              /\ Inner(s, edges, node) \in Search(nodes)
              /\ WorkLeft(nodes, Inner(s, edges, node)) < WorkLeft(nodes, s)
              /\ \A inner : Keeps(nodes, Inner(s, edges, node), inner) =>
                    LET after == After(s, edges, node, inner)
                    IN /\ after \in Search(nodes) /\ WorkLeft(nodes, after) < WorkLeft(nodes, s)
                       /\ Keeps(nodes, s, after)
<1> USE DEF IsListing
<1>1. node \in s.todo /\ node \in nodes /\ s.todo \subseteq nodes
  BY FirstIs DEF Search
<1>2. IsFiniteSet(nodes)
  BY ListedIsFinite
<1>3. Targets(edges, node) \subseteq nodes
  BY DEF Targets
<1>4. IsFiniteSet(s.todo) /\ IsFiniteSet(Left(nodes, s)) /\ IsFiniteSet(Targets(edges, node))
  BY <1>1, <1>2, <1>3, FS_Subset DEF Left
<1> DEFINE c == Cardinality(nodes) + 1
           u == Cardinality(Left(nodes, s))
           w == Cardinality(s.todo)
<1>5. c \in Nat /\ u \in Nat /\ w \in Nat
  BY <1>2, <1>4, FS_CardinalityType
<1>e. ASSUME NEW S, IsFiniteSet(S), NEW x \in S
      PROVE  Cardinality(S \ {x}) \in Nat /\ Cardinality(S \ {x}) < Cardinality(S)
  <2>1. IsFiniteSet(S \ {x}) /\ Cardinality(S \ {x}) = Cardinality(S) - 1
    BY <1>e, FS_RemoveElement
  <2>2. Cardinality(S \ {x}) \in Nat /\ Cardinality(S) \in Nat
    BY <1>e, <2>1, FS_CardinalityType
  <2> QED
    BY <2>1, <2>2
<1>6. Cardinality(s.todo \ {node}) \in Nat /\ Cardinality(s.todo \ {node}) < w
  BY <1>1, <1>4, <1>e
<1>7. Rest(s, node) \in Search(nodes) /\ Rest(s, node).todo = s.todo \ {node}
      /\ Left(nodes, Rest(s, node)) = Left(nodes, s)
  BY <1>1 DEF Rest, Search, Left
<1>8. WorkLeft(nodes, Rest(s, node)) < WorkLeft(nodes, s)
  BY <1>5, <1>6, <1>7, LessLeft DEF WorkLeft
<1>9. ASSUME node \notin s.open \cup s.done
      PROVE  /\ Inner(s, edges, node) \in Search(nodes)
             /\ WorkLeft(nodes, Inner(s, edges, node)) < WorkLeft(nodes, s)
             /\ \A inner : Keeps(nodes, Inner(s, edges, node), inner) =>
                    LET after == After(s, edges, node, inner)
                    IN /\ after \in Search(nodes) /\ WorkLeft(nodes, after) < WorkLeft(nodes, s)
                       /\ Keeps(nodes, s, after)
  <2> DEFINE i == Inner(s, edges, node)
  <2>1. i \in Search(nodes) /\ i.todo = Targets(edges, node) /\ i.open = s.open \cup {node}
        /\ i.done = s.done /\ i.back = s.back
    BY <1>1, <1>3 DEF Inner, Search
  <2>2. Left(nodes, i) = Left(nodes, s) \ {node} /\ node \in Left(nodes, s)
    BY <1>1, <1>9, <2>1 DEF Left
  <2>3. Cardinality(Left(nodes, i)) \in Nat /\ Cardinality(Left(nodes, i)) < u
    BY <1>4, <1>e, <2>2
  <2>4. Cardinality(Targets(edges, node)) \in Nat /\ Cardinality(Targets(edges, node)) < c
    BY <1>2, <1>3, <1>4, FS_Subset, FS_CardinalityType
  <2>5. WorkLeft(nodes, i) < WorkLeft(nodes, s)
    BY <1>5, <2>1, <2>3, <2>4, LessLeft DEF WorkLeft
  <2>6. ASSUME NEW inner, Keeps(nodes, i, inner)
        PROVE  LET after == After(s, edges, node, inner)
               IN /\ after \in Search(nodes) /\ WorkLeft(nodes, after) < WorkLeft(nodes, s)
                  /\ Keeps(nodes, s, after)
    <3> DEFINE a == After(s, edges, node, inner)
               k == Cardinality(Targets(edges, node) \cap (s.open \cup {node}))
    <3>1. k \in Nat
      BY <1>4, FS_Intersection, FS_CardinalityType
    <3>2. inner \in Search(nodes) /\ inner.done \subseteq nodes /\ inner.back \in Nat
          /\ s.done \subseteq inner.done /\ s.back <= inner.back /\ s.back \in Nat
      BY <2>1, <2>6 DEF Keeps, Search
    <3>3. a.todo = s.todo \ {node} /\ a.open = s.open /\ a.done = inner.done \cup {node}
          /\ a.back = inner.back + k /\ a \in Search(nodes)
      <4> HIDE DEF k
      <4>1. a = [Rest(s, node) EXCEPT !.done = inner.done \cup {node}, !.back = inner.back + k]
        BY DEF After, k
      <4> DEFINE q == Rest(s, node)
      <4>2. q \in Search(nodes) /\ q.todo = s.todo \ {node} /\ q.open = s.open
        BY <1>7 DEF Rest, Search
      <4> HIDE DEF q, a
      <4>3. inner.done \cup {node} \in SUBSET nodes /\ inner.back + k \in Nat
        BY <1>1, <3>1, <3>2
      <4> QED
        BY <4>1, <4>2, <4>3 DEF Search, q
    <3> HIDE DEF a, k
    <3>4. Left(nodes, a) \subseteq Left(nodes, s)
      BY <3>2, <3>3 DEF Left
    <3>5. Cardinality(Left(nodes, a)) \in Nat /\ Cardinality(Left(nodes, a)) <= u
      BY <1>4, <3>4, FS_Subset, FS_CardinalityType
    <3>6. WorkLeft(nodes, a) < WorkLeft(nodes, s)
      BY <1>5, <1>6, <3>3, <3>5, LessLeft DEF WorkLeft
    <3>7. Keeps(nodes, s, a)
      BY <3>1, <3>2, <3>3 DEF Keeps
    <3> QED
      BY <3>3, <3>6, <3>7 DEF a
  <2> QED
    BY <2>1, <2>5, <2>6
<1> QED
  BY <1>1, <1>7, <1>8, <1>9

\* What a search makes of its nodes is fixed by the searches it calls, and
\* keeps what they keep.
LEMMA BodyKeeps ==
  ASSUME NEW nodes, NEW edges, NEW order, IsListing(nodes, edges, order),
         NEW s \in Search(nodes), NEW f, NEW g,
         \A t \in Search(nodes) : WorkLeft(nodes, t) < WorkLeft(nodes, s) =>
            Keeps(nodes, t, f[t]) /\ g[t] = f[t]
  PROVE  /\ Keeps(nodes, s, Body(f, edges, order, s))
         /\ Body(g, edges, order, s) = Body(f, edges, order, s)
<1> DEFINE node == First(order, s.todo)
           inner == Inner(s, edges, node)
           after == After(s, edges, node, f[inner])
<1>0. \A x, y, z : x \in Search(nodes) /\ Keeps(nodes, x, y) /\ Keeps(nodes, y, z) => Keeps(nodes, x, z)
  BY DEF Keeps, Search
<1>1. CASE s.todo = {}
  <2>1. Body(f, edges, order, s) = s /\ Body(g, edges, order, s) = s
    BY <1>1, BodyIs
  <2>2. Keeps(nodes, s, s)
    BY DEF Keeps, Search
  <2> QED
    BY <2>1, <2>2
<1>2. CASE s.todo # {} /\ node \in s.open \cup s.done
  <2>1. Body(f, edges, order, s) = f[Rest(s, node)] /\ Body(g, edges, order, s) = g[Rest(s, node)]
    BY <1>2, BodyIs
  <2>2. Rest(s, node) \in Search(nodes) /\ WorkLeft(nodes, Rest(s, node)) < WorkLeft(nodes, s)
    BY <1>2, CallsWeighLess
  <2>3. Keeps(nodes, s, Rest(s, node))
    BY <2>2 DEF Keeps, Rest, Search
  <2> HIDE DEF node
  <2> QED
    BY <1>0, <2>1, <2>2, <2>3
<1>3. CASE s.todo # {} /\ node \notin s.open \cup s.done
  <2>1. Body(f, edges, order, s) = f[after] /\ Body(g, edges, order, s) = g[After(s, edges, node, g[inner])]
    BY <1>3, BodyIs
  <2>2. inner \in Search(nodes) /\ WorkLeft(nodes, inner) < WorkLeft(nodes, s)
    BY <1>3, CallsWeighLess
  <2>3. Keeps(nodes, inner, f[inner]) /\ g[inner] = f[inner]
    BY <2>2
  <2>4. after \in Search(nodes) /\ WorkLeft(nodes, after) < WorkLeft(nodes, s) /\ Keeps(nodes, s, after)
    BY <1>3, <2>3, CallsWeighLess
  <2> HIDE DEF node, inner, after
  <2>5. Body(g, edges, order, s) = g[after]
    BY <2>1, <2>3 DEF after
  <2> QED
    BY <1>0, <2>1, <2>4, <2>5
<1> QED
  BY <1>1, <1>2, <1>3

\* A set of numbers that has 0 and each successor has them all.
LEMMA AllNumbers ==
  ASSUME NEW S \in SUBSET Nat, 0 \in S, \A n \in S : n + 1 \in S
  PROVE  S = Nat
<1> SUFFICES ASSUME Nat \ S # {} PROVE FALSE
  OBVIOUS
<1>1. PICK n \in Nat \ S : \A m \in Nat \ S : n <= m
  BY LeastOf
<1>2. n # 0 /\ n - 1 \in Nat
  BY <1>1
<1>3. n - 1 \in S
  BY <1>1, <1>2
<1>4. (n - 1) + 1 = n
  BY <1>1
<1> QED
  BY <1>1, <1>3, <1>4

Lighter(nodes, n) == {s \in Search(nodes) : WorkLeft(nodes, s) < n}

\* The search is a function that does what its definition says.
LEMMA VisitDefined ==
  ASSUME NEW nodes, NEW edges, NEW order, IsListing(nodes, edges, order), NEW visit,
         visit = Visit(nodes, edges, order)
  PROVE  visit = [s \in Search(nodes) |-> Body(visit, edges, order, s)]
<1> DEFINE Solves(f, n) ==
              \A s \in Lighter(nodes, n) : Keeps(nodes, s, f[s]) /\ f[s] = Body(f, edges, order, s)
           S == {n \in Nat : \E f : Solves(f, n)}
<1>0. IsFiniteSet(nodes)
  BY ListedIsFinite
<1>1. 0 \in S
  <2>1. Lighter(nodes, 0) = {}
    BY <1>0, WeightIsNat DEF Lighter
  <2> QED
    BY <2>1
<1>2. ASSUME NEW n \in S PROVE n + 1 \in S
  <2>1. n \in Nat
    OBVIOUS
  <2>2. PICK f : Solves(f, n)
    OBVIOUS
  <2> DEFINE g == [s \in Search(nodes) |->
                      IF s \in Lighter(nodes, n) THEN f[s] ELSE Body(f, edges, order, s)]
  <2>3. ASSUME NEW s \in Lighter(nodes, n + 1)
        PROVE  Keeps(nodes, s, g[s]) /\ g[s] = Body(g, edges, order, s)
    <3>1. s \in Search(nodes) /\ WorkLeft(nodes, s) <= n
      BY <1>0, <2>1, WeightIsNat DEF Lighter
    <3>2. ASSUME NEW t \in Search(nodes), WorkLeft(nodes, t) < WorkLeft(nodes, s)
          PROVE  Keeps(nodes, t, f[t]) /\ g[t] = f[t]
      <4>1. t \in Lighter(nodes, n)
        BY <1>0, <2>1, <3>1, <3>2, WeightIsNat DEF Lighter
      <4> QED
        BY <2>2, <4>1
    <3> HIDE DEF g
    <3>3. Keeps(nodes, s, Body(f, edges, order, s)) /\ Body(g, edges, order, s) = Body(f, edges, order, s)
      BY <3>1, <3>2, BodyKeeps
    <3>4. g[s] = Body(f, edges, order, s)
      BY <2>2, <3>1 DEF g
    <3> QED
      BY <3>3, <3>4
  <2> HIDE DEF g
  <2>4. Solves(g, n + 1)
    BY <2>3
  <2> QED
    BY <2>1, <2>4
<1> HIDE DEF Solves
<1>3. S = Nat
  BY <1>1, <1>2, AllNumbers
<1> DEFINE b == Cardinality(nodes) * (Cardinality(nodes) + 1) + Cardinality(nodes)
<1>4. b \in Nat
  <2>1. \A n \in Nat : n * (n + 1) + n \in Nat
    OBVIOUS
  <2> QED
    BY <1>0, <2>1, FS_CardinalityType
<1>5. b + 1 \in S
  BY <1>3, <1>4
<1>6. PICK f : Solves(f, b + 1)
  BY <1>5
<1>7. Lighter(nodes, b + 1) = Search(nodes)
  <2>1. ASSUME NEW s \in Search(nodes) PROVE s \in Lighter(nodes, b + 1)
    <3>1. WorkLeft(nodes, s) \in Nat /\ WorkLeft(nodes, s) <= b
      BY <1>0, WeightIsNat
    <3> HIDE DEF b
    <3>2. WorkLeft(nodes, s) < b + 1
      BY <1>4, <3>1
    <3> QED
      BY <3>2 DEF Lighter
  <2> QED
    BY <2>1 DEF Lighter
<1> DEFINE h == [s \in Search(nodes) |-> f[s]]
<1>8. h = [s \in Search(nodes) |-> Body(h, edges, order, s)]
  <2>1. ASSUME NEW s \in Search(nodes) PROVE h[s] = Body(h, edges, order, s)
    <3>1. ASSUME NEW t \in Search(nodes) PROVE Keeps(nodes, t, f[t]) /\ h[t] = f[t]
      BY <1>6, <1>7 DEF Solves
    <3>2. h[s] = f[s] /\ f[s] = Body(f, edges, order, s)
      BY <1>6, <1>7 DEF Solves
    <3> HIDE DEF h
    <3>3. Body(h, edges, order, s) = Body(f, edges, order, s)
      BY <3>1, BodyKeeps
    <3> QED
      BY <3>2, <3>3
  <2> QED
    BY <2>1
<1> HIDE DEF h
<1>9. \E x : x = [s \in Search(nodes) |-> Body(x, edges, order, s)]
  BY <1>8
<1> QED
  BY <1>9, VisitIs

\* Nothing leads out of a set, and in it nothing goes round.
Closed(edges, S) == \A e \in edges : e.src \in S => e.dst \in S
Settled(edges, S) ==
    /\ Closed(edges, S)
    /\ \A T \in SUBSET S : T # {} => \E n \in T : \A e \in edges : e.src = n => e.dst \notin T

\* Every set that has a and that nothing leads out of has b.
Reaches(nodes, edges, a, b) ==
    \A S \in SUBSET nodes : a \in S /\ Closed(edges, S) => b \in S

\* A node whose targets are settled is settled with them.
LEMMA NodeSettles ==
  ASSUME NEW edges, NEW D, NEW node, Settled(edges, D), Targets(edges, node) \subseteq D
  PROVE  Settled(edges, D \cup {node})
<1>1. \A e \in edges : e.src = node => e.dst \in D
  BY DEF Targets
<1>2. Closed(edges, D \cup {node})
  BY <1>1 DEF Settled, Closed
<1>3. ASSUME NEW T \in SUBSET (D \cup {node}), T # {},
             \A n \in T : \E e \in edges : e.src = n /\ e.dst \in T
      PROVE  FALSE
  <2>1. \A n \in T \cap D : \E e \in edges : e.src = n /\ e.dst \in T \cap D
    BY <1>3 DEF Settled, Closed
  <2>2. T \cap D # {}
    BY <1>1, <1>3
  <2>3. T \cap D \in SUBSET D
    OBVIOUS
  <2> QED
    BY <2>1, <2>2, <2>3 DEF Settled
<1> QED
  BY <1>2, <1>3, ZenonT(30) DEF Settled

\* An edge back to a node from which its source is reached closes a cycle.
LEMMA BackEdgeIsCycle ==
  ASSUME NEW nodes, NEW edges, NEW edge \in edges, \A e \in edges : e.src \in nodes /\ e.dst \in nodes,
         Reaches(nodes, edges, edge.dst, edge.src)
  PROVE  Cyclic(edges)
<1> DEFINE a == edge.dst
           b == edge.src
           T == {n \in nodes : Reaches(nodes, edges, a, n) /\ Reaches(nodes, edges, n, b)}
<1>1. \A n : Reaches(nodes, edges, n, n)
  BY DEF Reaches
<1>2. b \in T /\ a \in T
  BY <1>1
<1>3. ASSUME NEW n \in T PROVE \E e \in edges : e.src = n /\ e.dst \in T
  <2>1. CASE n = b
    BY <1>2, <2>1
  <2>2. CASE n # b
    <3> DEFINE S == {n} \cup {m \in nodes : ~Reaches(nodes, edges, m, b)}
    <3>1. S \in SUBSET nodes /\ n \in S /\ b \notin S
      BY <1>1, <2>2
    <3>2. ~Closed(edges, S)
      BY <3>1 DEF Reaches
    <3>3. PICK e \in edges : e.src \in S /\ e.dst \notin S
      BY <3>2 DEF Closed
    <3>4. Reaches(nodes, edges, e.dst, b)
      BY <3>3
    <3>5. Reaches(nodes, edges, e.src, b)
      BY <3>4 DEF Reaches, Closed
    <3>6. e.src = n
      BY <3>3, <3>5
    <3>7. Reaches(nodes, edges, a, e.dst)
      BY <3>6 DEF Reaches, Closed
    <3> QED
      BY <3>4, <3>6, <3>7
  <2> QED
    BY <2>1, <2>2
<1> HIDE DEF T
<1>4. T \in SUBSET {e.src : e \in edges}
  BY <1>3
<1> QED
  BY <1>2, <1>3, <1>4 DEF Cyclic

\* What a search did for its nodes: they are done or open; if it met no back
\* edge what is done is settled; and if it met one, there is a cycle.
Explored(nodes, edges, s, r) ==
    /\ Keeps(nodes, s, r)
    /\ s.todo \subseteq r.done \cup r.open
    /\ Settled(edges, s.done) /\ r.back = s.back => Settled(edges, r.done)
    /\ (\A o \in s.open, n \in s.todo : Reaches(nodes, edges, o, n)) /\ r.back > s.back => Cyclic(edges)

\* A search explores its nodes if the searches it calls explore theirs.
LEMMA BodyExplores ==
  ASSUME NEW nodes, NEW edges, NEW order, IsListing(nodes, edges, order),
         NEW s \in Search(nodes), NEW f,
         \A t \in Search(nodes) : WorkLeft(nodes, t) < WorkLeft(nodes, s) => Explored(nodes, edges, t, f[t])
  PROVE  Explored(nodes, edges, s, Body(f, edges, order, s))
<1> DEFINE node == First(order, s.todo)
           rest == Rest(s, node)
           inner == Inner(s, edges, node)
           after == After(s, edges, node, f[inner])
           r == Body(f, edges, order, s)
<1>0. Keeps(nodes, s, r)
  <2>1. \A t \in Search(nodes) : WorkLeft(nodes, t) < WorkLeft(nodes, s) => Keeps(nodes, t, f[t])
    BY DEF Explored
  <2> QED
    BY <2>1, BodyKeeps
<1>1. CASE s.todo = {}
  <2>1. r = s
    BY <1>1, BodyIs
  <2>2. Explored(nodes, edges, s, s)
    <3>1. Keeps(nodes, s, s)
      BY <1>0, <2>1
    <3>2. s.back \in Nat
      BY DEF Search
    <3> QED
      BY ONLY <1>1, <3>1, <3>2 DEF Explored
  <2> QED
    BY <2>1, <2>2
<1>2. CASE s.todo # {} /\ node \in s.open \cup s.done
  <2>1. r = f[rest] /\ rest \in Search(nodes) /\ WorkLeft(nodes, rest) < WorkLeft(nodes, s)
    BY <1>2, BodyIs, CallsWeighLess
  <2>2. rest.todo = s.todo \ {node} /\ rest.open = s.open /\ rest.done = s.done /\ rest.back = s.back
    BY DEF Rest, Search
  <2>3. Explored(nodes, edges, rest, r)
    BY <2>1
  <2>4. s.todo \subseteq r.done \cup r.open
    <3>1. rest.done \subseteq r.done /\ rest.open = r.open /\ rest.todo \subseteq r.done \cup r.open
      BY <2>3 DEF Explored, Keeps
    <3> HIDE DEF node, rest, r
    <3> QED
      BY <1>2, <2>2, <3>1
  <2>5. Settled(edges, s.done) /\ r.back = s.back => Settled(edges, r.done)
    BY <2>2, <2>3 DEF Explored
  <2>6. (\A o \in s.open, n \in s.todo : Reaches(nodes, edges, o, n)) /\ r.back > s.back => Cyclic(edges)
    BY <2>2, <2>3 DEF Explored
  <2> QED
    BY <1>0, <2>4, <2>5, <2>6 DEF Explored
<1>3. CASE s.todo # {} /\ node \notin s.open \cup s.done
  <2> DEFINE i == f[inner]
             next == Targets(edges, node)
             k == Cardinality(next \cap (s.open \cup {node}))
  <2>1. node \in s.todo /\ inner \in Search(nodes) /\ WorkLeft(nodes, inner) < WorkLeft(nodes, s)
    BY <1>3, CallsWeighLess
  <2>2. inner.todo = next /\ inner.open = s.open \cup {node} /\ inner.done = s.done /\ inner.back = s.back
    BY DEF Inner, Search
  <2>3. Explored(nodes, edges, inner, i)
    BY <2>1
  <2>4. r = f[after] /\ after \in Search(nodes) /\ WorkLeft(nodes, after) < WorkLeft(nodes, s)
    BY <1>3, <2>3, BodyIs, CallsWeighLess DEF Explored
  <2>5. after.todo = s.todo \ {node} /\ after.open = s.open /\ after.done = i.done \cup {node}
        /\ after.back = i.back + k
    <3> HIDE DEF k, node, i
    <3>1. after = [Rest(s, node) EXCEPT !.done = i.done \cup {node}, !.back = i.back + k]
      BY DEF After, k, i
    <3> HIDE DEF after
    <3> QED
      BY <3>1 DEF Rest, Search
  <2>6. Explored(nodes, edges, after, r)
    BY <2>4
  <2>7. k \in Nat /\ (k = 0 <=> next \cap (s.open \cup {node}) = {})
    <3>1. IsFiniteSet(next \cap (s.open \cup {node}))
      <4>1. next \subseteq nodes
        BY DEF IsListing, Targets
      <4> QED
        BY <4>1, ListedIsFinite, FS_Subset
    <3> QED
      BY <3>1, FS_EmptySet, FS_CardinalityType
  <2> HIDE DEF node, inner, after, r, i, k
  <2>8. i.back \in Nat /\ s.back \in Nat /\ r.back \in Nat /\ s.back <= i.back /\ i.back + k <= r.back
        /\ i.open = s.open \cup {node} /\ r.open = s.open /\ i.done \subseteq r.done /\ node \in r.done
    BY <1>0, <2>2, <2>3, <2>5, <2>6 DEF Explored, Keeps, Search
  <2>9. s.todo \subseteq r.done \cup r.open
    BY <2>5, <2>6, <2>8 DEF Explored
  <2>10. ASSUME Settled(edges, s.done), r.back = s.back PROVE Settled(edges, r.done)
    <3>1. i.back = s.back /\ k = 0 /\ r.back = after.back
      BY <2>5, <2>7, <2>8, <2>10
    <3>2. Settled(edges, i.done)
      BY <2>2, <2>3, <2>10, <3>1 DEF Explored
    <3>3. next \subseteq i.done
      BY <2>2, <2>3, <2>7, <2>8, <3>1 DEF Explored
    <3>4. Settled(edges, after.done)
      BY <2>5, <3>2, <3>3, NodeSettles
    <3> QED
      BY <2>6, <3>1, <3>4 DEF Explored
  <2>11. ASSUME \A o \in s.open, n \in s.todo : Reaches(nodes, edges, o, n), r.back > s.back
         PROVE  Cyclic(edges)
    <3>1. CASE r.back > after.back
      BY <2>5, <2>6, <2>11, <3>1 DEF Explored
    <3>2. CASE i.back > s.back
      <4>1. ASSUME NEW o \in inner.open, NEW n \in inner.todo PROVE Reaches(nodes, edges, o, n)
        <5>1. Reaches(nodes, edges, o, node)
          BY <2>1, <2>2, <2>11 DEF Reaches
        <5>2. PICK e \in edges : e.src = node /\ e.dst = n
          BY <2>2 DEF Targets
        <5> QED
          BY <5>1, <5>2 DEF Reaches, Closed
      <4> QED
        BY <2>2, <2>3, <3>2, <4>1 DEF Explored
    <3>3. CASE k # 0
      <4>1. PICK x \in next : x \in s.open \cup {node}
        BY <2>7, <3>3
      <4>2. PICK e \in edges : e.src = node /\ e.dst = x
        BY <4>1 DEF Targets
      <4>3. Reaches(nodes, edges, x, node)
        BY <2>1, <2>11, <4>1 DEF Reaches
      <4> QED
        BY <4>2, <4>3, BackEdgeIsCycle DEF IsListing
    <3> QED
      BY <2>5, <2>7, <2>8, <2>11, <3>1, <3>2, <3>3
  <2> QED
    BY <1>0, <2>9, <2>10, <2>11 DEF Explored, r
<1> QED
  BY <1>1, <1>2, <1>3

\* So every search explores its nodes, by induction over what is left to do.
LEMMA VisitExplores ==
  ASSUME NEW nodes, NEW edges, NEW order, IsListing(nodes, edges, order), NEW s \in Search(nodes)
  PROVE  Explored(nodes, edges, s, Visit(nodes, edges, order)[s])
<1> DEFINE visit == Visit(nodes, edges, order)
           S == {n \in Nat : \A t \in Lighter(nodes, n) : Explored(nodes, edges, t, visit[t])}
<1>0. IsFiniteSet(nodes)
  BY ListedIsFinite
<1>1. 0 \in S
  <2>1. Lighter(nodes, 0) = {}
    BY <1>0, WeightIsNat DEF Lighter
  <2> QED
    BY <2>1
<1>2. ASSUME NEW n \in S PROVE n + 1 \in S
  <2>1. ASSUME NEW t \in Lighter(nodes, n + 1) PROVE Explored(nodes, edges, t, visit[t])
    <3>1. t \in Search(nodes) /\ WorkLeft(nodes, t) <= n /\ n \in Nat
      BY <1>0, WeightIsNat DEF Lighter
    <3>2. \A x \in Search(nodes) : WorkLeft(nodes, x) < WorkLeft(nodes, t) => x \in Lighter(nodes, n)
      BY <1>0, <3>1, WeightIsNat DEF Lighter
    <3>3. visit[t] = Body(visit, edges, order, t)
      <4> HIDE DEF visit
      <4>1. visit = [x \in Search(nodes) |-> Body(visit, edges, order, x)]
        BY VisitDefined DEF visit
      <4> QED
        BY <3>1, <4>1
    <3> HIDE DEF visit
    <3>4. \A x \in Search(nodes) : WorkLeft(nodes, x) < WorkLeft(nodes, t) => Explored(nodes, edges, x, visit[x])
      BY <3>2
    <3> QED
      BY <3>1, <3>3, <3>4, BodyExplores
  <2> QED
    BY <2>1
<1>3. S = Nat
  BY <1>1, <1>2, AllNumbers
<1>4. WorkLeft(nodes, s) + 1 \in S /\ s \in Lighter(nodes, WorkLeft(nodes, s) + 1)
  BY <1>0, <1>3, WeightIsNat DEF Lighter
<1> QED
  BY <1>4

\* The search counts a back edge exactly when there is a cycle.
LEMMA CyclesAreCounted ==
  ASSUME NEW nodes, NEW edges, NEW order, IsListing(nodes, edges, order)
  PROVE  CycleCount(nodes, edges, order) > 0 <=> Cyclic(edges)
<1> DEFINE s == [todo |-> nodes, open |-> {}, done |-> {}, back |-> 0]
           r == Visit(nodes, edges, order)[s]
<1>1. s \in Search(nodes)
  BY DEF Search
<1>2. Explored(nodes, edges, s, r)
  BY <1>1, VisitExplores
<1>3. CycleCount(nodes, edges, order) = r.back
  BY DEF CycleCount
<1> HIDE DEF r
<1>4. r.back \in Nat /\ nodes \subseteq r.done
  BY <1>2 DEF Explored, Keeps, Search
<1>5. r.back > 0 => Cyclic(edges)
  BY <1>2 DEF Explored
<1>6. ASSUME r.back = 0, Cyclic(edges) PROVE FALSE
  <2>1. Settled(edges, {})
    BY DEF Settled, Closed
  <2>2. Settled(edges, r.done)
    BY <1>2, <1>6, <2>1 DEF Explored
  <2>3. PICK T \in SUBSET {e.src : e \in edges} : T # {} /\ \A n \in T : \E e \in edges : e.src = n /\ e.dst \in T
    BY <1>6 DEF Cyclic
  <2>4. T \in SUBSET r.done
    BY <1>4 DEF IsListing
  <2> QED
    BY <2>2, <2>3, <2>4 DEF Settled
<1> QED
  BY <1>3, <1>4, <1>5, <1>6

(* A cycle of the dependency graph is reported exactly when there is one,   *)
(* whichever order its nodes are visited in (dependency_graph.py).          *)
THEOREM CyclesAreReported == Spec => []CycleIsReported
<1>1. CaseInv => CycleIsReported
  <2> SUFFICES ASSUME CaseInv, Is("graph"), NEW o \in Orders(TheNodes)
               PROVE  (\E f \in GraphFindings(TheNodes, TheEdges, o) : f.code = "DEPENDENCY_CYCLE")
                        <=> Cyclic(TheEdges)
    BY DEF CycleIsReported
  <2> DEFINE cyclic == CycleCount(TheNodes, TheEdges, o) > 0
  <2>1. o \in Seq(TheNodes) /\ Range(o) = TheNodes
    BY RulesAssumption DEF CaseInv, TheNodes
  <2>2. \A e \in TheEdges : e.src \in TheNodes /\ e.dst \in TheNodes
    BY DEF TheEdges, TheNodes, GraphNodes
  <2>3. cyclic <=> Cyclic(TheEdges)
    BY <2>1, <2>2, CyclesAreCounted DEF IsListing
  <2>4. (\E f \in GraphFindings(TheNodes, TheEdges, o) : f.code = "DEPENDENCY_CYCLE") <=> cyclic
    <3> HIDE DEF cyclic
    <3>1. ASSUME cyclic
          PROVE  \E f \in GraphFindings(TheNodes, TheEdges, o) : f.code = "DEPENDENCY_CYCLE"
      <4>1. [code |-> "DEPENDENCY_CYCLE", node |-> Head(o)] \in GraphFindings(TheNodes, TheEdges, o)
        BY <3>1 DEF GraphFindings, cyclic
      <4> QED
        BY <4>1
    <3>2. ASSUME ~cyclic, NEW f \in GraphFindings(TheNodes, TheEdges, o) PROVE f.code # "DEPENDENCY_CYCLE"
      BY <3>2 DEF GraphFindings, cyclic
    <3> QED
      BY <3>1, <3>2
  <2> QED
    BY <2>3, <2>4
<1> QED
  BY <1>1, CaseInvariant, PTL
=============================================================================
