SPECIFICATION Spec
CONSTANTS
    NumSteps = 1
    NumPhases = 1
    PhaseOf <- OnePhase
    StepType <- OneApply
    StepDeps <- NoDeps
    StepPhaseDeps <- NoDeps
    PhaseDeps <- NoPhaseDeps
    Mode = "execute_after_approval"
    ApiOps = {"start", "cancel"}
    ApprovalScopes <- AllSteps
    PreApproved = TRUE
    Contended = FALSE
    MaxRetries = 3
    MaxRequests = 2
    MaxCrashes = 0
PROPERTIES
    TerminalIsFinal
CHECK_DEADLOCK FALSE
