\* A run is cancelled while a stage ends.
SPECIFICATION FairSpec
CONSTANTS
    s1 = s1
    w1 = w1
    w2 = w2
    a1 = a1
    scheduler = scheduler
    NoTarget = NoTarget
    Unbounded = Unbounded
    Sites = {s1}
    Keys = {}
    Workers = {w1, w2}
    Admins = {a1}
    Scheduler = scheduler
    MaxRuns = 1
    LastStage = 2
    Optional <- NoOptional
    MaxEntries = 3
    MaxAttempts = 2
    MaxStalls = 1
    Limits <- Strand
PROPERTIES
    CancelledRunsEnd
CHECK_DEADLOCK FALSE
