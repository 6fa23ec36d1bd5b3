SPECIFICATION ScheduledSpec
CONSTANTS
    None = None
    Procs = {p1, p2}
    Settlements = {s1}
    Exact = {s1}
    MaxCrashes = 1
    MaxFaults = 1
INVARIANTS
    TypeOK
    FailedGivesBack
    CompletedIsPaid
PROPERTIES
    InFlightReconciled
CHECK_DEADLOCK FALSE
