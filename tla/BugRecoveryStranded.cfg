SPECIFICATION FairSpec
CONSTANTS
    NumSteps = 1
    NumPhases = 1
    PhaseOf <- OnePhase
    StepType <- OneApply
    StepDeps <- NoDeps
    StepPhaseDeps <- NoDeps
    PhaseDeps <- NoPhaseDeps
    Mode = "execute_after_approval"
    ApiOps = {"start"}
    ApprovalScopes <- AllSteps
    PreApproved = TRUE
    Contended = FALSE
    MaxRetries = 3
    MaxRequests = 1
    MaxCrashes = 1
PROPERTIES
    ResumesAfterRestart
CHECK_DEADLOCK FALSE
