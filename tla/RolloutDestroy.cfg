SPECIFICATION FairSpec
CONSTANTS
    Workers = {w1, w2}
    Machines = {m1, m2}
    Versions = {v1}
    None = None
    InitialTraffic = 20
    TrafficStep = 80
    MaxTraffic = 100
    ErrorThreshold = 1
    HasTest = FALSE
    Faults = {"lookup", "strategy"}
    DestroyFrom = {"rollback"}
    UserDeletes = {}
INVARIANT Attended
PROPERTY Terminates
CHECK_DEADLOCK TRUE
