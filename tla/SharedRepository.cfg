SPECIFICATION Spec
CONSTANTS
    Processes = {"api", "reconciler"}
    Threads = {"requests", "background_worker", "reconciler_loop"}
    Home <- MCHome
    MaxMoves = 3
    MaxMishaps = 2
INVARIANTS
    TypeOK
    OwnSavesStand
    TrailOrdered
CHECK_DEADLOCK FALSE
