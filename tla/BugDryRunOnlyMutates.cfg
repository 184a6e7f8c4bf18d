SPECIFICATION Spec
CONSTANTS
    NumSteps = 1
    NumPhases = 1
    PhaseOf <- OnePhase
    StepType <- OneApply
    StepDeps <- NoDeps
    StepPhaseDeps <- NoDeps
    PhaseDeps <- NoPhaseDeps
    Mode = "dry_run_only"
    ApiOps = {"start", "continue", "pause", "resume"}
    ApprovalScopes <- AllSteps
    PreApproved = TRUE
    Contended = FALSE
    MaxRetries = 3
    MaxRequests = 4
    MaxCrashes = 0
INVARIANTS
    NonExecutingIsReadOnly
CHECK_DEADLOCK FALSE
