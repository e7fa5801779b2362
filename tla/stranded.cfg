SPECIFICATION Spec
CHECK_DEADLOCK FALSE
CONSTANTS
    Orders = {o1}
    Workers = {w1}
    WorkerName <- OneName
    BatchLimit = 1
    Amount = 2
    Commission = 1
    None = None
    Retriers = {r1}
    Verifiers = {v1}
    Administrators = {a1}
    Group <- ByRole
    MaxAttempts = 2
    MaxChecks = 1
    MaxClicks = 2
PROPERTIES
    PendingIsTaken
