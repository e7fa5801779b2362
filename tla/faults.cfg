SPECIFICATION Spec
SYMMETRY Slots
CHECK_DEADLOCK FALSE
CONSTANTS
    Workers = {w1, w2}
    Scheduler = Scheduler
    Reaper = Reaper
    NoOwner = NoOwner
    Mode = "canary"
    Actors = {"user", "watchdog"}
    Faults = {"crash", "database", "deadline", "stall"}
    Fallback = TRUE
    MaxGen = 4
    MaxAttempts = 2
    MaxReconciles = 0
INVARIANTS
    NoDoubleSubmission
    OlderAttemptsFailed
    SoleSubmitter
PROPERTIES
    CapturesCurrentAttempt
    LiveOwnerSettles
    ImplementsReservation
