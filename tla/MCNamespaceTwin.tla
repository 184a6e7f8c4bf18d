-------------------------- MODULE MCNamespaceTwin --------------------------
(* One replay result that is accepted, and symmetric replicas. *)
EXTENDS NamespaceTwin, TLC

MCPayloads ==
    {[approved |-> TRUE, approvalId |-> TRUE, mode |-> "mimic_namespace", target |-> "esda_twin",
      secretsCopied |-> FALSE, dataCopied |-> FALSE, strategy |-> "synthetic",
      timeline |-> <<[sequence |-> 1, status |-> "passed", complete |-> TRUE]>>,
      checks |-> {[type |-> c, status |-> "passed"] : c \in RequiredChecks}, cleanup |-> "completed"]}

ReplicaSymmetry == Permutations(Replicas)
=============================================================================
