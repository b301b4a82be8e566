SPECIFICATION FairSpec
CONSTANTS
    Machines = {m1, m2, m3}
    None = None
    MaxObjects = 2
    MaxGenerations = 2
    MaxDisturbances = 1
    Patient = TRUE
INVARIANT TypeOK
 
 
CHECK_DEADLOCK FALSE
