SPECIFICATION Spec
CONSTANTS
    None = None
    direct = direct
    airtime = airtime
    data = data
    Procs = {p1, p2}
    Orders = {airtime, data}
    MaxPolls = 2
    MaxCrashes = 1
    Product <- MCProduct
SYMMETRY Symmetry
INVARIANTS
    TypeOK
    RefundedOnce
    DeliveredIsDelivered
CHECK_DEADLOCK FALSE
