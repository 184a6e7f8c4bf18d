SPECIFICATION Spec
CONSTANTS
    NumSteps = 2
    NumPhases = 1
    PhaseOf <- OnePhase
    StepType <- ApplyThenUpgrade
    StepDeps <- Chained
    StepPhaseDeps <- NoDeps
    PhaseDeps <- NoPhaseDeps
    Mode = "execute_after_approval"
    ApiOps = {"start", "continue", "retry", "pause", "resume", "cancel"}
    ApprovalScopes <- AllSteps
    PreApproved = TRUE
    Contended = FALSE
    MaxRetries = 2
    MaxRequests = 3
    MaxCrashes = 1
INVARIANTS
    TypeOK
    AttemptsAccounted
    NoReplay
    MutationUnderLock
PROPERTIES
    GovernedSpec
CHECK_DEADLOCK FALSE
