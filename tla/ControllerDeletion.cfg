SPECIFICATION FairSpec
CONSTANTS
    Clients = {c1}
    Machines = {m1, m2}
    Configs = {g1}
    None = None
    Requests = {"admit","reconcile","delete"}
    DeleteFrom = {"new","start","configure","idle","deploy","monitor","scale","promote","rollback","fail","destroy"}
    Patient = TRUE
    Timeouts = FALSE
    StoreFails = FALSE
    MaxCrashes = 0
PROPERTY DeletionEnds
PROPERTY InProcessMoves
CHECK_DEADLOCK TRUE
