\* Two runs of one website: starts that race, a cancel, a retry, an outage, a crash.
SPECIFICATION Spec
CONSTANTS
    s1 = s1
    w1 = w1
    w2 = w2
    a1 = a1
    scheduler = scheduler
    NoTarget = NoTarget
    Unbounded = Unbounded
    Sites = {s1}
    Keys = {}
    Workers = {w1, w2}
    Admins = {a1}
    Scheduler = scheduler
    MaxRuns = 2
    LastStage = 2
    Optional <- NoOptional
    MaxEntries = 2
    MaxAttempts = 2
    MaxStalls = 1
    Limits <- Races
SYMMETRY WorkerSymmetry
INVARIANTS
    SlotOnlyWhileActive
    SlotLostOnlyByCancel
    OneActivePerStage
    LateJobsNeverRun
    DeadOnlyAfterLastAttempt
CHECK_DEADLOCK FALSE
