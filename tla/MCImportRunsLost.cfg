\* Redis fails when a stage is enqueued; the scheduler keeps ticking.
SPECIFICATION FairSpec
CONSTANTS
    s1 = s1
    w1 = w1
    a1 = a1
    scheduler = scheduler
    NoTarget = NoTarget
    Unbounded = Unbounded
    Sites = {s1}
    Keys = {}
    Workers = {w1}
    Admins = {a1}
    Scheduler = scheduler
    MaxRuns = 2
    LastStage = 2
    Optional <- NoOptional
    MaxEntries = 3
    MaxAttempts = 2
    MaxStalls = 1
    Limits <- Lost
PROPERTIES
    LostRunsAreRetried
CHECK_DEADLOCK FALSE
