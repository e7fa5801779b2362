SPECIFICATION MCSpec
CHECK_DEADLOCK FALSE
CONSTANTS
    Orders = {o1, o2}
    Keys = {k1, k2}
    Transactions = {t1, t2}
    Handlers = {h1, h2}
    MaxDuplicates = 1
    VirtualOrders = {o1}
    Coupons = {o1}
    Limit = 1
    MaxRepeats = 1
INVARIANTS
    GrantedOncePerPayment
    RightsOnce
    GrantedIsBilled
PROPERTIES
    EventuallyGranted
    EventuallyEntitled
