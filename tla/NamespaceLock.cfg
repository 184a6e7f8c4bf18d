SPECIFICATION Spec
CONSTANTS
    Processes = {api, worker}
    Jobs = {j1, j2}
    Null = Null
    MaxLeases = 4
    MayLapse = TRUE
INVARIANTS
    TypeOK
    ExclusiveUnlessLapsed
PROPERTIES
    OnlyHolderReleases
