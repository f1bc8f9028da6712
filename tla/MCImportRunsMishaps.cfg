\* A run with an optional stage, or a single job; crash and cancel, or stop, retry and shutdown.
SPECIFICATION Spec
CONSTANTS
    s1 = s1
    k1 = k1
    w1 = w1
    w2 = w2
    a1 = a1
    scheduler = scheduler
    NoTarget = NoTarget
    Unbounded = Unbounded
    Sites = {s1}
    Keys = {k1}
    Workers = {w1, w2}
    Admins = {a1}
    Scheduler = scheduler
    MaxRuns = 1
    LastStage = 3
    Optional <- SecondStage
    MaxEntries = 2
    MaxAttempts = 2
    MaxStalls = 1
    Limits <- Mishaps
SYMMETRY WorkerSymmetry
INVARIANTS
    TypeOK
    OneWorkerPerStage
    StageCreatedOnce
    NoStrandedStage
    DeadLettersRecorded
PROPERTIES
    KeepsContract
CHECK_DEADLOCK FALSE
