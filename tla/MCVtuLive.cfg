SPECIFICATION FairSpec
CONSTANTS
    None = None
    direct = direct
    airtime = airtime
    data = data
    Procs = {p1, p2}
    Orders = {direct}
    MaxPolls = 2
    MaxCrashes = 1
    Product <- MCProduct
INVARIANTS
    DeliveredIsKept
PROPERTIES
    DeliverySticks
    FailureRefunded
CHECK_DEADLOCK FALSE
