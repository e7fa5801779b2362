SPECIFICATION Spec
CHECK_DEADLOCK FALSE
CONSTANTS
    Orders = {o1}
    Coupons = {o1}
    Limit = 1
    Handlers = {h1}
    MaxRepeats = 0
INVARIANTS
    CancelledByClosing
