----------------------------- MODULE TwinRules -----------------------------
(***************************************************************************)
(* The rules of the namespace twin side by side: one case at a time is     *)
(* taken from the inputs of one rule, and what the rule must guarantee is  *)
(* an invariant of the case.                                               *)
(***************************************************************************)
EXTENDS TwinPolicy, TwinSnapshot, TwinRuntime, TwinRollback, TwinEvidence, TwinGraph

CONSTANTS PolicyInputs, RuntimeInputs, RollbackInputs, NoteInputs, GraphInputs,
          Orders(_)     \* in which the nodes of a graph may be visited

IsPolicyInput(in) ==
    /\ DOMAIN in = {"blocks", "privileged", "humanApproval", "autoApproval", "deletes", "indexed", "live",
                    "missingNodes", "rollback", "rollbackRequired", "rows", "pvcRisk", "statefulRisk",
                    "inferred", "valuesFiles", "rendered"}
    /\ in.blocks \subseteq DOMAIN Category /\ in.missingNodes \in Nat
    /\ {in.privileged, in.humanApproval, in.autoApproval, in.deletes, in.indexed, in.live, in.rollback,
        in.rollbackRequired, in.pvcRisk, in.statefulRisk, in.valuesFiles} \subseteq BOOLEAN

IsRuntimeInput(in) ==
    /\ DOMAIN in = {"available", "podsComplete", "warned", "collected", "pods", "events"}
    /\ in.pods \in Seq(Range(in.pods)) /\ in.events \in Seq(Range(in.events))

(* Kinds of the nodes the graph makes up; no manifest has one of them. *)
MadeUpKinds == {"PlanPhase", "ManifestArtifact", "SelectorTarget", "HelmRelease"}

IsGraphInput(in) == IsFiniteSet(in.resources) /\ \A r \in in.resources : r.kind \notin MadeUpKinds

ASSUME RulesAssumption ==
    /\ \A in \in PolicyInputs  : IsPolicyInput(in)
    /\ \A in \in RuntimeInputs : IsRuntimeInput(in)
    /\ \A in \in GraphInputs   : IsGraphInput(in)
    /\ \A in \in GraphInputs   : LET nodes == GraphNodes(in.resources, in.plan)
                                 IN \A o \in Orders(nodes) : o \in Seq(nodes) /\ Range(o) = nodes

VARIABLE case

NoCase == [rule |-> "none", in |-> {}]

Is(rule) == case.rule = rule

Init == case = NoCase

PolicyCase   == Is("none") /\ \E x \in PolicyInputs   : case' = [rule |-> "policy", in |-> x]
RuntimeCase  == Is("none") /\ \E x \in RuntimeInputs  : case' = [rule |-> "runtime", in |-> x]
RollbackCase == Is("none") /\ \E x \in RollbackInputs : case' = [rule |-> "rollback", in |-> x]
NoteCase     == Is("none") /\ \E x \in NoteInputs     : case' = [rule |-> "note", in |-> x]
GraphCase    == Is("none") /\ \E x \in GraphInputs    : case' = [rule |-> "graph", in |-> x]

Next == PolicyCase \/ RuntimeCase \/ RollbackCase \/ NoteCase \/ GraphCase

Spec == Init /\ [][Next]_case

---------------------------------------------------------------------------
(* The policy twin: assessment patched with the dry run.                    *)

Severity == [green |-> 0, amber |-> 1, red |-> 2]

(* Patching the first assessment with the result of the dry run gives what  *)
(* a recomputation of all the rules from the inputs would give: no finding, *)
(* evidence check or risk weight of the first assessment is left behind.    *)
FinalizeMatchesFresh ==
    Is("policy") => \A status \in {"passed", "failed", "partial"} :
        LET in      == case.in
            ok      == status = "passed"
            missing == {c \in {"bundle_integrity", "live_namespace_snapshot", "dependency_integrity",
                               "rollback_evidence", "authoritative_dry_run"} :
                            ~[Satisfied(in) EXCEPT !.authoritative_dry_run = ok][c]}
            matched == MatchedRules(in, missing)
            twin    == FinalizePolicy(EvaluatePolicy(in), status)
        IN /\ twin.missing = missing /\ twin.matched = matched
           /\ twin.level = Projection(Verdict(PolicyFindings(in)), missing, RiskScore(matched), ~ok)

(* Any further guardrail, deletion, missing evidence or storage risk leaves *)
(* the decision where it was or makes it worse.                             *)
Worsen(in) ==
    {[in EXCEPT !.blocks = @ \cup {"limits"}], [in EXCEPT !.privileged = TRUE],
     [in EXCEPT !.humanApproval = TRUE], [in EXCEPT !.autoApproval = FALSE],
     [in EXCEPT !.deletes = TRUE], [in EXCEPT !.indexed = FALSE], [in EXCEPT !.live = FALSE],
     [in EXCEPT !.missingNodes = @ + 1], [in EXCEPT !.rollback = FALSE],
     [in EXCEPT !.rollbackRequired = TRUE], [in EXCEPT !.pvcRisk = TRUE],
     [in EXCEPT !.statefulRisk = TRUE], [in EXCEPT !.valuesFiles = FALSE]}

WorseIsNeverGreener ==
    Is("policy") => \A w \in Worsen(case.in), status \in {"passed", "failed"} :
        Severity[FinalizePolicy(EvaluatePolicy(w), status).level]
            >= Severity[FinalizePolicy(EvaluatePolicy(case.in), status).level]

---------------------------------------------------------------------------
(* The runtime twin.                                                        *)

(* Another event or another pod never lowers the score. *)
MoreSignalsNeverCalmer ==
    Is("runtime") =>
        LET in == case.in
            Worse(x) == AssessRuntime(x).score >= AssessRuntime(in).score
        IN /\ \A e \in {in.events[i] : i \in DOMAIN in.events} \cup
                       {[reason |-> "evicted", warning |-> FALSE, age |-> "recent"]} :
                Worse([in EXCEPT !.events = Append(@, e)])
           /\ \A p \in {in.pods[i] : i \in DOMAIN in.pods} : Worse([in EXCEPT !.pods = Append(@, p)])

---------------------------------------------------------------------------
(* The rollback twin. *)

Confident == [unavailable |-> 0, low |-> 1, medium |-> 2, high |-> 3]

(* The proof patched into the first assessment leaves what a direct         *)
(* assessment on the same evidence says. Where the plan has no complete     *)
(* rollback the two differ, and the patched one is the more careful: it     *)
(* forgets no gap and is never more confident.                              *)
EnrichAgreesWithAssess ==
    Is("rollback") =>
        LET patched == EnrichRollback(AssessRollback(case.in.bundle, {}), case.in.evidence)
            direct  == AssessRollback(case.in.bundle, case.in.evidence)
        IN /\ patched.proven = direct.proven
           /\ direct.gaps \subseteq patched.gaps
           /\ Confident[patched.confidence] <= Confident[direct.confidence]
           /\ direct.defined => /\ patched.gaps = direct.gaps
                                /\ patched.confidence = direct.confidence

---------------------------------------------------------------------------
(* Release notes: what changed is either claimed in words or reported       *)
(* missing, and a note passes only when both directions agree.              *)
NoSilentCategory ==
    Is("note") =>
        LET note == ValidateNote(case.in.claims, case.in.deltas, case.in.facts)
            said == {case.in.claims[i].category :
                        i \in {j \in DOMAIN case.in.claims : case.in.claims[j].text # "blank"}}
            evidence == EvidenceCategories(case.in.deltas, case.in.facts) \ {"other"}
        IN /\ \A c \in evidence \ said : [category |-> c, status |-> "missing"] \in note.rows
           /\ note.status = "passed" => evidence \subseteq said

---------------------------------------------------------------------------
(* The dependency graph. *)

TheEdges == GraphEdges(case.in.resources, case.in.plan)
TheNodes == GraphNodes(case.in.resources, case.in.plan)

(* Some nodes have no way out: each has an edge to another one of them.      *)
Cyclic(edges) ==
    \E T \in SUBSET {e.src : e \in edges} :
        T # {} /\ \A n \in T : \E e \in edges : e.src = n /\ e.dst \in T

(* A cycle is reported exactly when there is one, whichever order the nodes *)
(* are visited in.                                                          *)
CycleIsReported ==
    Is("graph") => \A o \in Orders(TheNodes) :
        (\E f \in GraphFindings(TheNodes, TheEdges, o) : f.code = "DEPENDENCY_CYCLE") <=> Cyclic(TheEdges)

(* What a planned object needs is found in the plan when the plan has it:   *)
(* no object of the plan is also reported as missing, in its namespace or,  *)
(* for kinds without one, in the cluster.                                   *)
PlannedIsNeverMissing ==
    Is("graph") =>
        \A n \in TheNodes : n.status = "missing" =>
            ~\E r \in case.in.resources :
                /\ r.kind = n.kind /\ r.name = n.name
                /\ r.ns = n.ns \/ (n.kind \in ClusterKinds /\ r.ns = "none")
=============================================================================
