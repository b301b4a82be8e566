SPECIFICATION Spec
CONSTANTS
    Workers = {w1, w2}
    Machines = {m1}
    Versions = {v1, v2}
    None = None
    InitialTraffic = 20
    TrafficStep = 40
    MaxTraffic = 100
    ErrorThreshold = 2
    HasTest = TRUE
    Faults = {"call"}
    DestroyFrom = {"idle", "fail"}
    UserDeletes = {"start","configure","idle","deploy","monitor","scale","promote","rollback","fail"}
SYMMETRY Symmetry
INVARIANT TypeOK
 
INVARIANT PrimaryServes
INVARIANT StepsAreSafe
PROPERTY DrainedRemoval
PROPERTY PromotesTested
PROPERTY QuietIdle
CHECK_DEADLOCK TRUE
