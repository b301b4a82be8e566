SPECIFICATION Spec
CONSTANTS
    Workers = {w1}
    Machines = {m1}
    Versions = {v1, v2}
    None = None
    InitialTraffic = 20
    TrafficStep = 40
    MaxTraffic = 100
    ErrorThreshold = 2
    HasTest = FALSE
    Faults = {"call"}
    DestroyFrom = {}
    UserDeletes = {}
SYMMETRY Symmetry
PROPERTY CreatedIsFirst
