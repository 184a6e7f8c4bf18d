SPECIFICATION Spec
CONSTANTS
    NumSteps = 1
    NumPhases = 1
    PhaseOf <- OnePhase
    StepType <- OneApply
    StepDeps <- NoDeps
    StepPhaseDeps <- NoDeps
    PhaseDeps <- NoPhaseDeps
    Mode = "execute_after_approval"
    ApiOps = {"start", "continue", "cancel"}
    ApprovalScopes <- AllSteps
    PreApproved = TRUE
    Contended = FALSE
    MaxRetries = 3
    MaxRequests = 3
    MaxCrashes = 0
INVARIANTS
    CancelAtSafePoint
CHECK_DEADLOCK FALSE
