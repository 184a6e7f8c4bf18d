SPECIFICATION Spec
CONSTANTS
    Replicas = {r1, r2}
    Twins = {"t1"}
    Keys = {"k1"}
    OtherJobs = {"j1"}
    Payloads <- MCPayloads
    Policies = {"green"}
    Effects = {"no_uplift", "force_amber"}
    Drifts = {"material"}
    MaxRequests = 2
    MaxMishaps = 1
SYMMETRY ReplicaSymmetry
INVARIANTS
    TypeOK
    DecisionStands
    EvidenceKept
PROPERTIES
    VerdictSpec
CHECK_DEADLOCK FALSE
