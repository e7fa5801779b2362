SPECIFICATION Spec
SYMMETRY Slots
CHECK_DEADLOCK FALSE
CONSTANTS
    Workers = {w1, w2}
    Scheduler = Scheduler
    Reaper = Reaper
    NoOwner = NoOwner
    Mode = "direct"
    Actors = {"operator"}
    Faults = {}
    Fallback = FALSE
    MaxGen = 4
    MaxAttempts = 2
    MaxReconciles = 0
PROPERTIES
    SettledStaysSettled
