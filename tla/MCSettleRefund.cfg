SPECIFICATION Spec
CONSTANTS
    None = None
    Procs = {p1}
    Settlements = {s1}
    Exact = {s1}
    MaxCrashes = 0
    MaxFaults = 0
INVARIANTS
    FailedRestoresBalance
CHECK_DEADLOCK FALSE
