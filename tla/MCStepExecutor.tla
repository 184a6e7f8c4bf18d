--------------------------- MODULE MCStepExecutor ---------------------------
(* Steps that apply three manifests, of which no revert deletes the last,   *)
(* leave one out by configuration, are blocked, or apply nothing.           *)
EXTENDS StepExecutor

MCBundles == {<<"config", "ingress", "deployment", "role">>, <<"secret">>, <<"namespace">>, <<"ingress">>}
MCSweep == <<{"deployment"}, {"config"}>>
=============================================================================
