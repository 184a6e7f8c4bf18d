SPECIFICATION Spec
CONSTANTS
    Processes = {api}
    Jobs = {j1, j2}
    Null = Null
    MaxLeases = 3
    MayLapse = TRUE
INVARIANTS
    OneHolder
CHECK_DEADLOCK FALSE
