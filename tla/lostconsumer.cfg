SPECIFICATION Spec
CHECK_DEADLOCK FALSE
CONSTANTS
    Consumers = {c1}
    MaxConnections = 2
    Failures = {"connection", "open"}
INVARIANTS
    EndsOnlyWhenStopped
