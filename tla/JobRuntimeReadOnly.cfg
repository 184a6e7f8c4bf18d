SPECIFICATION Spec
CONSTANTS
    NumSteps = 2
    NumPhases = 1
    PhaseOf <- OnePhase
    StepType <- ApplyThenUpgrade
    StepDeps <- Chained
    StepPhaseDeps <- NoDeps
    PhaseDeps <- NoPhaseDeps
    Mode = "external_llm_controlled"
    ApiOps = {"start", "approve", "cancel", "request_rollback", "worker_pause", "worker_cancel",
              "continue", "retry", "wait", "skip", "abort",
              "refresh"}
    ApprovalScopes <- AllSteps
    PreApproved = FALSE
    Contended = TRUE
    MaxRetries = 3
    MaxRequests = 3
    MaxCrashes = 0
INVARIANTS
    CompletedMeansSettled
    NonExecutingIsReadOnly
CHECK_DEADLOCK FALSE
