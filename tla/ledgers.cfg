SPECIFICATION MCSpec
CHECK_DEADLOCK FALSE
CONSTANTS
    Accounts = {a1, a2}
    Jobs = {j1}
    NoAccount = NoAccount
    Amounts = {2}
    Reservations = {1, 3}
    Validity = {1}
    Keys = {k1}
    MaxGrants = 2
    MaxLots = 4
    MaxTime = 2
    Skew = 1
    Users = {"first", "second"}
    Tasks = {k1}
    Orders = {o1}
    Requests = {r1}
    Executors = {x1, x2}
    Pair <- FirstTwo
    Stores = {"json", "postgres"}
    MaxReopens = 1
    Referrals = {o1, o2}
    Releasers = {w1, w2}
    BatchLimit = 2
    Amount = 2
    Commission = 1
    None = None
    WorkerName <- OneName
    Group <- ByRole
    Workers = {w1}
    Retriers = {r1}
    Verifiers = {v1}
    Administrators = {a1, a2}
    MaxAttempts = 2
    MaxChecks = 1
    MaxClicks = 2
INVARIANTS
    ProjectionsAgree
    LedgerExplainsBalance
    ReservedWithOwner
    RewardsExplained
    RefundedEarnsNothing
    ProjectionFollows
    PaidBackOnce
PROPERTIES
    NoResurrection
    ImplementsLedger
    EventuallyExpired
    RewardsReleased
    EventuallyConcluded
