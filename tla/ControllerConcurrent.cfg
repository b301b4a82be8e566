SPECIFICATION Spec
CONSTANTS
    Clients = {c1, c2}
    Machines = {m1, m2}
    Configs = {g1}
    None = None
    Requests = {"admit","post"}
    DeleteFrom = {}
    Patient = FALSE
    Timeouts = FALSE
    StoreFails = TRUE
    MaxCrashes = 0
SYMMETRY Symmetry
INVARIANT OnePerMachine
CHECK_DEADLOCK TRUE
