SPECIFICATION Spec
CONSTANTS
    Replicas = {r1, r2}
    Twins = {"t1"}
    Keys = {"k1"}
    OtherJobs = {"j1"}
    Payloads <- MCPayloads
    Policies = {"green"}
    Effects = {"no_uplift"}
    Drifts = {"unread"}
    MaxRequests = 3
    MaxMishaps = 1
SYMMETRY ReplicaSymmetry
INVARIANT
    DriftStopsExecution
CHECK_DEADLOCK FALSE
