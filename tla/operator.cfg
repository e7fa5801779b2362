SPECIFICATION Spec
SYMMETRY Slots
CHECK_DEADLOCK FALSE
CONSTANTS
    Workers = {w1, w2}
    Scheduler = Scheduler
    Reaper = Reaper
    NoOwner = NoOwner
    Mode = "fair"
    Actors = {"user", "watchdog", "operator"}
    Faults = {}
    Fallback = TRUE
    MaxGen = 5
    MaxAttempts = 2
    MaxReconciles = 1
INVARIANTS
    WithdrawnNeverDelivered
    TypeOK
    CapturedWorkWasRendered
PROPERTIES
    PointsSettleOnce
