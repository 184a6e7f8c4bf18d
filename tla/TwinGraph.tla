----------------------------- MODULE TwinGraph -----------------------------
(***************************************************************************)
(* The dependency graph of a bundle: planned objects, the objects they     *)
(* refer to, the plan's phases, and the edges between them                 *)
(* (namespace_twin/dependency_graph.py).                                   *)
(*                                                                         *)
(*   resource  [kind, ns, name, api, owners, release, refs, backends,      *)
(*              role, subjects, labels, selector, digest, group, defines,  *)
(*              definition, path]                                          *)
(*       owners, refs, role: sets of [kind, name]; subjects: [name, ns];   *)
(*       digest: name of the selector's target; group: API group of a      *)
(*       custom resource or "builtin", definition: the name its definition *)
(*       has; defines: <<group, kind>> pairs a definition declares         *)
(*   plan      [ns, phases, ignored]; phase [id, deps, refs]               *)
(* An owner reference to a Helm release is left out: the graph has such a  *)
(* node only for the releases it finds in metadata.                        *)
(***************************************************************************)
EXTENDS Integers, FiniteSets, SequencesExt

GraphWorkloads == {"CronJob", "DaemonSet", "Deployment", "Job", "Pod", "StatefulSet"}
ClusterKinds == {"ClusterRole", "CustomResourceDefinition", "Namespace"}

Node(kind, ns, name, api, status) ==
    [kind |-> kind, ns |-> ns, name |-> name, api |-> api, status |-> status]

PlannedNode(r) == Node(r.kind, r.ns, r.name, r.api, "present")

Synthetic(kind, ns, name, status) == Node(kind, ns, name, "reference", status)

(* Fault: a definition is only looked for among the namespaced objects. *)
NamespacedResolve(resources, kind, ns, name) ==
    LET found == {PlannedNode(r) : r \in {x \in resources :
                            x.kind = kind /\ x.ns = ns /\ x.name = name}}
    IN CASE Cardinality(found) = 1 -> CHOOSE n \in found : TRUE
         [] Cardinality(found) > 1 -> Synthetic(kind, ns, name, "uncertain")
         [] OTHER -> IF kind = "ServiceAccount" /\ name = "default" /\ ns # "none"
                     THEN Synthetic(kind, ns, name, "present")
                     ELSE Synthetic(kind, ns, name, "missing")

(* What a reference by kind, namespace and name stands for. *)
Resolve(resources, kind, ns, name) ==
    LET In(space) == {PlannedNode(r) : r \in {x \in resources :
                            x.kind = kind /\ x.ns = space /\ x.name = name}}
        found == IF In(ns) = {} /\ kind \in ClusterKinds THEN In("none") ELSE In(ns)
    IN CASE Cardinality(found) = 1 -> CHOOSE n \in found : TRUE
         [] Cardinality(found) > 1 -> Synthetic(kind, ns, name, "uncertain")
         [] OTHER -> IF kind = "ServiceAccount" /\ name = "default" /\ ns # "none"
                     THEN Synthetic(kind, ns, name, "present")
                     ELSE Synthetic(kind, ns, name, "missing")

Edge(src, dst, type) == [src |-> src, dst |-> dst, type |-> type]

RefEdge == [ConfigMap |-> "configmap_ref", Secret |-> "secret_name_ref",
            PersistentVolumeClaim |-> "pvc_ref", ServiceAccount |-> "service_account_ref"]

OwnEdges(resources, r) ==
    LET self == PlannedNode(r)
        At(kind, name) == Resolve(resources, kind, r.ns, name)
    IN {Edge(At(o.kind, o.name), self, "owner_reference") : o \in r.owners}
        \cup {Edge(Synthetic("HelmRelease", r.ns, h, "present"), self, "helm_owns_resource") :
                h \in {r.release} \ {"none"}}
        \cup {Edge(At(o.kind, o.name), self, RefEdge[o.kind]) :
                o \in {x \in r.refs : r.kind \in GraphWorkloads}}
        \cup {Edge(self, At("Service", b), "route_backend") :
                b \in {x \in r.backends : r.kind = "Ingress"}}

BindingEdges(resources, r) ==
    LET self == PlannedNode(r)
        Space(kind) == IF kind = "ClusterRole" THEN "none" ELSE r.ns
    IN IF r.kind # "RoleBinding" THEN {}
       ELSE {Edge(Resolve(resources, o.kind, Space(o.kind), o.name), self, "rbac_role_ref") : o \in r.role}
            \cup {Edge(self, Resolve(resources, "ServiceAccount", s.ns, s.name), "rbac_subject") :
                    s \in r.subjects}

SelectorEdges(resources, r) ==
    LET matched == {w \in resources : /\ w.kind \in GraphWorkloads
                                      /\ w.ns = r.ns /\ r.selector \subseteq w.labels}
    IN IF r.kind # "Service" \/ r.selector = {} THEN {}
       ELSE IF matched = {}
       THEN {Edge(PlannedNode(r), Synthetic("SelectorTarget", r.ns, r.digest, "missing"),
                  "selector_matches")}
       ELSE {Edge(PlannedNode(r), PlannedNode(w), "selector_matches") : w \in matched}

(* The definition of a custom resource is planned, or looked for by name. *)
DefinitionEdges(resources, r) ==
    LET defined == {d \in resources : d.kind = "CustomResourceDefinition" /\ <<r.group, r.kind>> \in d.defines}
        owner   == IF defined # {} THEN PlannedNode(CHOOSE d \in defined : TRUE)
                   ELSE Resolve(resources, "CustomResourceDefinition", "none", r.definition)
    IN IF r.group = "builtin" THEN {}
       ELSE {Edge(owner, PlannedNode(r), "crd_owns_custom_resource")}

PhaseNode(plan, id) ==
    Synthetic("PlanPhase", plan.ns, id,
              IF \E p \in plan.phases : p.id = id THEN "present" ELSE "missing")

PlanEdges(resources, plan) ==
    LET Applied(path) ==
            LET here == {r \in resources : r.path = path}
            IN IF here # {} THEN {PlannedNode(r) : r \in here}
               ELSE {Synthetic("ManifestArtifact", plan.ns, path, "missing")}
    IN UNION {{Edge(PhaseNode(plan, d), PhaseNode(plan, p.id), "plan_depends_on") : d \in p.deps}
                \cup {Edge(PhaseNode(plan, p.id), n, "plan_applies") :
                        n \in UNION {Applied(path) : path \in p.refs \ plan.ignored}} : p \in plan.phases}

ResourceEdges(resources, r) ==
    OwnEdges(resources, r) \cup BindingEdges(resources, r)
        \cup SelectorEdges(resources, r) \cup DefinitionEdges(resources, r)

(* An edge from a node to itself is dropped. *)
GraphEdges(resources, plan) ==
    LET all == (UNION {ResourceEdges(resources, r) : r \in resources}) \cup PlanEdges(resources, plan)
    IN {e \in all : e.src # e.dst}

GraphNodes(resources, plan) ==
    {PlannedNode(r) : r \in resources} \cup {PhaseNode(plan, p.id) : p \in plan.phases}
        \cup UNION {{e.src, e.dst} : e \in GraphEdges(resources, plan)}

---------------------------------------------------------------------------
(* Fault: only two nodes that depend on each other count. *)
MutualCycles(nodes, edges, order) ==
    Cardinality({e \in edges : \E f \in edges : f.src = e.dst /\ f.dst = e.src})

(* Where the edges lead from a node, and the node of a set that comes first *)
(* in an order.                                                             *)
Targets(edges, node) == {e.dst : e \in {x \in edges : x.src = node}}

First(order, todo) ==
    order[CHOOSE i \in DOMAIN order : order[i] \in todo /\ \A j \in DOMAIN order : order[j] \in todo => i <= j]

(* A depth first search: nodes to visit, nodes being visited, nodes done,   *)
(* and back edges met.                                                      *)
Search(nodes) == [todo : SUBSET nodes, open : SUBSET nodes, done : SUBSET nodes, back : Nat]

(* The code takes the roots by identity and the targets of a node in no     *)
(* particular order; here both come as in the order given.                  *)
Visit(nodes, edges, order) ==
    LET visit[s \in Search(nodes)] ==
            IF s.todo = {} THEN s
            ELSE LET node  == First(order, s.todo)
                     next  == Targets(edges, node)
                     rest  == [s EXCEPT !.todo = @ \ {node}]
                     inner == visit[[s EXCEPT !.todo = next, !.open = @ \cup {node}]]
                     after == [rest EXCEPT !.done = inner.done \cup {node},
                                           !.back = inner.back + Cardinality(next \cap (s.open \cup {node}))]
                 IN visit[IF node \in s.open \cup s.done THEN rest ELSE after]
    IN visit

CycleCount(nodes, edges, order) ==
    Visit(nodes, edges, order)[[todo |-> nodes, open |-> {}, done |-> {}, back |-> 0]].back

GraphFindings(nodes, edges, order) ==
    {[code |-> IF n.status = "missing" THEN "MISSING_DEPENDENCY" ELSE "UNCERTAIN_DEPENDENCY", node |-> n] :
        n \in {x \in nodes : x.status \in {"missing", "uncertain"}}}
    \cup (IF CycleCount(nodes, edges, order) > 0 THEN {[code |-> "DEPENDENCY_CYCLE", node |-> Head(order)]} ELSE {})
=============================================================================
