SPECIFICATION Spec
CONSTANTS
    Bundles <- MCBundles
    Excluded = {"ingress"}
    OutOfScope = {"namespace"}
    Secrets = {"secret"}
    Sweep <- MCSweep
    MaxRetries = 3
    MaxAttempts = 4
    MaxCrashes = 2
    MaxReverts = 1
INVARIANTS
    TypeOK
    EffectsAccounted
    OnlyRehearsed
    SuccessIsReal
    RevertClears
CHECK_DEADLOCK FALSE
