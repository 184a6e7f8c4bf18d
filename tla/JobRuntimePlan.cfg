SPECIFICATION FairSpec
CONSTANTS
    NumSteps = 3
    NumPhases = 3
    PhaseOf <- MixedPhases
    StepType <- Mixed
    StepDeps <- MixedStepDeps
    StepPhaseDeps <- MixedStepPhaseDeps
    PhaseDeps <- MixedPhaseDeps
    Mode = "execute_after_approval"
    ApiOps = {"start", "continue", "retry"}
    ApprovalScopes <- AllSteps
    PreApproved = TRUE
    Contended = TRUE
    MaxRetries = 3
    MaxRequests = 4
    MaxCrashes = 0
INVARIANTS
    LostOnlyIfOvertaken
    RestingUnlocked
PROPERTIES
    LifecycleSpec
    RestsUnlessOvertaken
CHECK_DEADLOCK FALSE
