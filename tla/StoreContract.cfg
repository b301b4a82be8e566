SPECIFICATION Spec
CONSTANTS
    Names = {n1, n2}
    Plugins = {"runtime"}
    Runtimes = {r1, r2}
    Versions = {1, 2}
    Readers = {c1}
    None = None
    StartingWith <- DistinctNames
SYMMETRY Symmetry
INVARIANT TypeOK
PROPERTY Contract
CHECK_DEADLOCK TRUE
