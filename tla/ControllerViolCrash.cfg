SPECIFICATION FairSpec
CONSTANTS
    Clients = {c1}
    Machines = {m1, m2}
    Configs = {g1}
    None = None
    Requests = {"admit","reconcile"}
    DeleteFrom = {}
    Patient = TRUE
    Timeouts = FALSE
    StoreFails = FALSE
    MaxCrashes = 1
PROPERTY InProcessMoves
