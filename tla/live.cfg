SPECIFICATION FairSpec
CHECK_DEADLOCK FALSE
CONSTANTS
    Workers = {w1, w2}
    Scheduler = Scheduler
    Reaper = Reaper
    NoOwner = NoOwner
    Mode = "fair"
    Actors = {"user", "watchdog"}
    Faults = {"broker", "publisher"}
    Fallback = FALSE
    MaxGen = 4
    MaxAttempts = 2
    MaxReconciles = 1
INVARIANTS
    NoResultReleased
    ConsumedMeansSettled
PROPERTIES
    EventuallySettled
