SPECIFICATION MCSpec
CHECK_DEADLOCK FALSE
CONSTANTS
    Users = {"first", "second"}
    Tasks = {k1, k2}
    Callers = {c1}
    Schedulers = {s1, s2}
    Routes <- ImageOrCanary
    Enterprise = {}
    Subscribers = {"second"}
    Concurrency <- OneAtATime
    MaxQueued <- OneAtATime
    BatchUsers = 1
    BatchTasksPerUser = 1
    MaxRecoveries = 1
    Events = {1}
    Publishers = {p1, p2}
    Receivers = {c1}
    Nobody = Nobody
    Batch = 1
    MaxAttempts = 2
    MaxRetries = 1
    MaxCopies = 2
    MaxFaults = 2
    Consumers = {c1}
    MaxConnections = 2
    Failures = {"dial", "connection", "setup", "channel"}
INVARIANTS
    SentWithinPlan
    NothingLost
    ClosedForGood
PROPERTIES
    EventuallyServed
    ClaimsAreRespected
    EventuallyConsumed
    ConsumesAgain
