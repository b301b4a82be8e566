SPECIFICATION Spec
CONSTANTS
    Services = {s1, s2}
    None = None
    UserEntries <- MCUserEntries
    ConsulFails = TRUE
    MaxRoutes = 2
SYMMETRY Symmetry
INVARIANT TypeOK
 
INVARIANT RoutedUnlessRaced
 
 
CHECK_DEADLOCK TRUE
