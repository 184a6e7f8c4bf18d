---------------------------- MODULE MCTwinRules ----------------------------
(* Inputs of the twin's rules, small enough to enumerate. *)
EXTENDS TwinRules

Row(kind, action, release, changes) ==
    [kind |-> kind, action |-> action, release |-> release, changes |-> changes]

Rows == {Row("PersistentVolumeClaim", "create", "none", {}),
         Row("StatefulSet", "update", "none", {"image"}),
         Row("Deployment", "update", "app", {"image", "replicas_by_3"}),
         Row("Service", "update", "none", {"spec.selector"}),
         Row("ConfigMap", "no_op", "none", {}),
         Row("Ingress", "create", "app", {})}

Quiet == [blocks |-> {}, privileged |-> FALSE, humanApproval |-> FALSE, autoApproval |-> FALSE,
          deletes |-> FALSE, indexed |-> TRUE, live |-> TRUE, missingNodes |-> 0, rollback |-> TRUE,
          rollbackRequired |-> FALSE, rows |-> {}, pvcRisk |-> FALSE, statefulRisk |-> FALSE,
          inferred |-> {}, valuesFiles |-> FALSE, rendered |-> {}]

Gates == {[Quiet EXCEPT !.blocks = b, !.privileged = p, !.humanApproval = h, !.autoApproval = a,
                        !.deletes = d, !.indexed = i, !.live = l, !.missingNodes = m,
                        !.rows = r, !.rollbackRequired = q, !.rollback = h] :
            b \in {{}, {"secret_guard"}}, p \in BOOLEAN, h \in BOOLEAN, a \in BOOLEAN, d \in BOOLEAN,
            i \in BOOLEAN, l \in BOOLEAN, m \in 0..1, q \in BOOLEAN,
            r \in {{}, {Row("ConfigMap", "update", "none", {})}}}

Risks == {[Quiet EXCEPT !.rows = r, !.rollback = b, !.rollbackRequired = TRUE, !.deletes = d,
                        !.pvcRisk = k, !.statefulRisk = k, !.inferred = i, !.valuesFiles = v,
                        !.rendered = {"app"}] :
            r \in SUBSET Rows, b \in BOOLEAN, d \in BOOLEAN, k \in BOOLEAN, v \in BOOLEAN,
            i \in {{}, {[values |-> TRUE]}, {[values |-> FALSE]}}}

MCPolicyInputs == Gates \cup Risks

Pods == {[shape |-> "flag", cur |-> 1, total |-> 1, phase |-> "Running", restarts |-> 0],
         [shape |-> "ratio", cur |-> 0, total |-> 2, phase |-> "Pending", restarts |-> 5],
         [shape |-> "none", cur |-> 0, total |-> 0, phase |-> "Running", restarts |-> 1],
         [shape |-> "none", cur |-> 0, total |-> 0, phase |-> "Succeeded", restarts |-> 0]}

Events == {[reason |-> "oomkilled", warning |-> TRUE, age |-> "recent"],
           [reason |-> "crashloopbackoff", warning |-> TRUE, age |-> "old"],
           [reason |-> "imagepullbackoff", warning |-> FALSE, age |-> "unknown"],
           [reason |-> "evicted", warning |-> TRUE, age |-> "recent"],
           [reason |-> "scheduled", warning |-> FALSE, age |-> "recent"]}

RuntimeCalls ==
    {[enabled |-> TRUE, key |-> k, summary |-> r, events |-> e, mcpSummary |-> "rows", mcpEvents |-> "none"] :
        k \in BOOLEAN, r \in {"rows", "failed"}, e \in {"rows", "failed"}}
        \cup {[enabled |-> FALSE]}

MCRuntimeInputs ==
    {[available |-> f.available, podsComplete |-> f.available, warned |-> f.warned,
      collected |-> f.collected, pods |-> p, events |-> e] :
        f \in {RuntimeFacts(c) : c \in RuntimeCalls}, p \in SeqOf(Pods, 3), e \in SeqOf(Events, 2)}

Step(id, named, type, links, refs, release, commands) ==
    [id |-> id, named |-> named, type |-> type, mutates |-> FALSE, says |-> named, links |-> links,
     refs |-> refs, release |-> release, commands |-> commands, revision |-> 0]

Steps == {Step("install", FALSE, "helm_upgrade", {}, {}, "app", {}),
          Step("apply", FALSE, "k8s_apply", {}, {"m"}, "none", {}),
          [Step("patch", FALSE, "command", {}, {}, "none", {}) EXCEPT !.mutates = TRUE],
          [Step("undo_all", TRUE, "command", {"install", "apply"}, {}, "none", {}) EXCEPT !.revision = 3],
          Step("undo_apply", TRUE, "command", {}, {"m"}, "none", {"plain"}),
          Step("undo_helm", TRUE, "command", {}, {}, "app", {"dry_run"}),
          Step("wipe", TRUE, "command", {"apply"}, {}, "none", {"destructive", "pvc_delete"})}

Observed == {[step |-> "undo_all", says |-> TRUE, outcome |-> "accepted"],
             [step |-> "undo_apply", says |-> TRUE, outcome |-> "accepted"],
             [step |-> "undo_apply", says |-> TRUE, outcome |-> "rejected"],
             [step |-> "apply", says |-> FALSE, outcome |-> "accepted"]}

MCRollbackInputs ==
    {[bundle |-> [steps |-> s, pvc |-> f[1], stateful |-> f[2], manifests |-> f[3], values |-> FALSE,
                  history |-> f[4]], evidence |-> e] :
        s \in UNION {kSubset(k, Steps) : k \in 0..4},
        f \in {<<FALSE, FALSE, TRUE, TRUE>>, <<TRUE, FALSE, TRUE, FALSE>>, <<FALSE, FALSE, FALSE, FALSE>>},
        e \in SUBSET Observed}

Claim(category, text) == [category |-> category, text |-> text]

Claims == {Claim("image", "plain"), Claim("configuration", "negated"), Claim("rollback", "blank"),
           Claim("known_risk", "plain"), Claim("other", "plain"), Claim("breaking_change", "blank")}

Changes == {[kind |-> "configmap", words |-> {}, action |-> "update"],
            [kind |-> "deployment", words |-> {"image"}, action |-> "explicit_delete"],
            [kind |-> "job", words |-> {"migrat", "config"}, action |-> "create"]}

MCNoteInputs ==
    {[claims |-> c, deltas |-> d,
      facts |-> [rollback |-> f[1], risky |-> f[2], observed |-> FALSE, drift |-> FALSE, runtime |-> f[3]]] :
        c \in SeqOf(Claims, 2), d \in SUBSET Changes,
        f \in {<<TRUE, FALSE, "low">>, <<FALSE, TRUE, "low">>, <<FALSE, FALSE, "unknown">>}}

---------------------------------------------------------------------------
Resource(kind, ns, name) ==
    [kind |-> kind, ns |-> ns, name |-> name, api |-> "v1", owners |-> {}, release |-> "none",
     refs |-> {}, backends |-> {}, role |-> {}, subjects |-> {}, labels |-> {}, selector |-> {},
     digest |-> "none", group |-> "builtin", defines |-> {}, definition |-> "none", path |-> "none"]

Ref(kind, name) == [kind |-> kind, name |-> name]

Resources ==
    {[Resource("Deployment", "ns", "app") EXCEPT
        !.refs = {Ref("ConfigMap", "cfg"), Ref("ServiceAccount", "sa")}, !.labels = {"app"}, !.path = "d"],
     [Resource("Deployment", "ns", "job") EXCEPT !.refs = {Ref("ServiceAccount", "default")}, !.release = "app"],
     [Resource("Service", "ns", "svc") EXCEPT !.selector = {"app"}, !.digest = "s1", !.path = "d"],
     [Resource("Ingress", "ns", "in") EXCEPT !.backends = {"svc"}, !.api = "networking",
                                           !.owners = {Ref("Deployment", "app")}],
     [Resource("ConfigMap", "ns", "cfg") EXCEPT !.owners = {Ref("Ingress", "in"), Ref("Deployment", "app")}],
     [Resource("ConfigMap", "ns", "cfg") EXCEPT !.api = "v2", !.owners = {Ref("Service", "svc")}],
     [Resource("ServiceAccount", "ns", "sa") EXCEPT !.owners = {Ref("ClusterRole", "admin")}],
     [Resource("RoleBinding", "ns", "rb") EXCEPT !.role = {Ref("ClusterRole", "admin")},
                                                !.subjects = {[name |-> "sa", ns |-> "ns"]}],
     Resource("ClusterRole", "none", "admin"),
     [Resource("Widget", "ns", "w") EXCEPT !.group = "acme", !.definition = "widgets.acme",
                                           !.owners = {Ref("CustomResourceDefinition", "widgets.acme")}],
     [Resource("CustomResourceDefinition", "none", "widgets.acme") EXCEPT !.defines = {<<"acme", "Widget">>}]}

Phase(id, deps, refs) == [id |-> id, deps |-> deps, refs |-> refs]

Phases == {{Phase("p1", {}, {"d"}), Phase("p2", {"p1"}, {"gone"})},
           {Phase("p1", {"p2"}, {}), Phase("p2", {"p1"}, {"d"})},
           {Phase("p1", {"p1"}, {}), Phase("p2", {"p3"}, {"skip"})}}

MCGraphInputs ==
    {[resources |-> r, plan |-> [ns |-> "ns", phases |-> p, ignored |-> {"skip"}]] :
        r \in UNION {kSubset(k, Resources) : k \in 0..4}, p \in Phases}

MCOrders(nodes) ==
    LET order == FoldSet(LAMBDA n, seq : Append(seq, n), << >>, nodes) IN {order, Reverse(order)}
=============================================================================
