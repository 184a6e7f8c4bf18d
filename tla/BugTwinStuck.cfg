SPECIFICATION PolledSpec
CONSTANTS
    Replicas = {r1}
    Twins = {"t1"}
    Keys = {"k1"}
    OtherJobs = {"j1"}
    Payloads <- MCPayloads
    Policies = {"green"}
    Effects = {"no_uplift"}
    Drifts = {"material"}
    MaxRequests = 2
    MaxMishaps = 1
PROPERTIES
    DecisionComes
CHECK_DEADLOCK FALSE
