SPECIFICATION Spec
CONSTANTS
    NumSteps = 2
    NumPhases = 1
    PhaseOf <- OnePhase
    StepType <- ApplyThenUpgrade
    StepDeps <- Chained
    StepPhaseDeps <- NoDeps
    PhaseDeps <- NoPhaseDeps
    Mode = "execute_after_approval"
    ApiOps = {"start", "continue", "skip"}
    ApprovalScopes <- AllSteps
    PreApproved = TRUE
    Contended = FALSE
    MaxRetries = 3
    MaxRequests = 4
    MaxCrashes = 0
PROPERTIES
    SkippedIsNotMutated
CHECK_DEADLOCK FALSE
