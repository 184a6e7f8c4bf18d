SPECIFICATION Spec
CONSTANTS
    Bundles <- MCBundles
    Excluded = {"ingress"}
    OutOfScope = {"namespace"}
    Secrets = {"secret"}
    Sweep <- MCSweep
    MaxRetries = 3
    MaxAttempts = 4
    MaxCrashes = 2
    MaxReverts = 2
INVARIANT AnySuccessIsReal
CHECK_DEADLOCK FALSE
