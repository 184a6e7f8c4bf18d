SPECIFICATION PolledSpec
CONSTANTS
    Replicas = {r1}
    Twins = {"t1", "t2"}
    Keys = {"k1", "k2"}
    OtherJobs = {}
    Payloads <- MCPayloads
    Policies = {"green"}
    Effects = {"no_uplift"}
    Drifts = {"material"}
    MaxRequests = 3
    MaxMishaps = 0
PROPERTIES
    DecisionComes
CHECK_DEADLOCK FALSE
