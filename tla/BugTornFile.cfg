SPECIFICATION Spec
CONSTANTS
    Processes = {"api"}
    Threads = {"requests", "background_worker"}
    Home <- MCHome
    MaxMoves = 3
    MaxMishaps = 2
INVARIANTS
    RestartSafe
CHECK_DEADLOCK FALSE
