SPECIFICATION Spec
CONSTANTS
    Clients = {c1}
    Machines = {m1, m2, m3}
    Configs = {g1, g2}
    None = None
    Requests = {"admit","reconcile","delete","list"}
    DeleteFrom = {"new","start","idle","fail"}
    Patient = TRUE
    Timeouts = TRUE
    StoreFails = FALSE
    MaxCrashes = 1
SYMMETRY Symmetry
INVARIANT TypeOK
INVARIANT OneOperation
INVARIANT StoreFollows
PROPERTY KeepsUpdate
PROPERTY Sequential
CHECK_DEADLOCK TRUE
