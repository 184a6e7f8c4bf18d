------------------------- MODULE MCTwinObservation -------------------------
(* A deployment and a service, of the planned release, of an ignored one or *)
(* of none, read by either inspector.                                       *)
EXTENDS TwinObservation

Spec0 == [selector |-> "0", image |-> "0"]

Object(kind, form, api, release, annotated) ==
    [kind |-> kind, name |-> "app", api |-> api, form |-> form, release |-> release,
     annotated |-> annotated, revision |-> "1", spec |-> Spec0, safety |-> "none", health |-> "ok"]

Deployments == {Object("Deployment", "full", "given", "none", FALSE),
                Object("Deployment", "summary", "given", "none", FALSE),
                Object("Deployment", "summary", "none", "none", FALSE),
                Object("Deployment", "full", "given", "bosgenesis-x", TRUE)}

Services == {Object("Service", "full", "given", "none", FALSE)}

MCClusters == {D \cup S : D \in {{d} : d \in Deployments} \cup {{}}, S \in {{s} : s \in Services} \cup {{}}}

MCReleases == {[name |-> "app", ignored |-> FALSE, installed |-> TRUE, here |-> TRUE],
               [name |-> "old", ignored |-> FALSE, installed |-> FALSE, here |-> TRUE],
               [name |-> "bosgenesis-x", ignored |-> TRUE, installed |-> TRUE, here |-> TRUE]}

AllOf(x) == [Deployment |-> x, Service |-> x]

\* Read in full, or in part: one kind fails, one cannot be read.
Answers == {AllOf("rows"), [AllOf("rows") EXCEPT !.Deployment = "failed"],
            [AllOf("rows") EXCEPT !.Service = "unreadable"]}

Call(key, rest, mcp, helm) ==
    [enabled |-> TRUE, key |-> key, rest |-> rest, mcp |-> mcp, helmKey |-> TRUE,
     helmRest |-> helm, helmMcp |-> "failed", installedOnly |-> TRUE]

MCCalls ==
    {Call(TRUE, a, AllOf("rows"), "rows") : a \in Answers}
        \cup {Call(FALSE, AllOf("failed"), [AllOf("rows") EXCEPT !.Service = "failed"], "rows"),
              Call(TRUE, AllOf("failed"), AllOf("failed"), "rows"),
              Call(TRUE, AllOf("rows"), AllOf("rows"), "failed"),
              [Call(TRUE, AllOf("rows"), AllOf("rows"), "rows") EXCEPT !.enabled = FALSE]}

Planned(kind, release, spec, path) ==
    [kind |-> kind, name |-> "app", api |-> "given", release |-> release,
     ignored |-> release = "bosgenesis-x", spec |-> spec, privileged |-> FALSE, path |-> path]

Update(field) == [Spec0 EXCEPT ![field] = "1"]

MCPlans ==
    {[plan |-> <<Planned("Deployment", "old", Update("selector"), "a"), Planned("Service", "none", Spec0, "a")>>,
      installs |-> {}, deletes |-> {"a"}],
     [plan |-> <<Planned("Deployment", "none", Update("selector"), "a"), Planned("Service", "none", Spec0, "b")>>,
      installs |-> {}, deletes |-> {"a"}],
     [plan |-> <<Planned("Deployment", "old", Update("image"), "a"), Planned("Deployment", "bosgenesis-x", Spec0, "b")>>,
      installs |-> {"old"}, deletes |-> {"b"}]}

MCEdits(c) ==
    {(c \ {o}) \cup {[o EXCEPT !.safety = "on"]} : o \in c}
        \cup {(c \ {o}) \cup {[o EXCEPT !.spec = Update("image"), !.revision = "2"]} : o \in c}
        \cup {(c \ {o}) \cup {[o EXCEPT !.health = "bad"]} : o \in c}
        \cup {c \ {o} : o \in c}
        \cup {c \cup {s} : s \in {x \in Services : \A o \in c : o.kind # x.kind}}
=============================================================================
