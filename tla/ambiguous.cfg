SPECIFICATION Spec
SYMMETRY Slots
CHECK_DEADLOCK FALSE
CONSTANTS
    Workers = {w1, w2}
    Scheduler = Scheduler
    Reaper = Reaper
    NoOwner = NoOwner
    Mode = "canary"
    Actors = {}
    Faults = {}
    Fallback = TRUE
    MaxGen = 4
    MaxAttempts = 2
    MaxReconciles = 0
PROPERTIES
    AmbiguousStaysActive
