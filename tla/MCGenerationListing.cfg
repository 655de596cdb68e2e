SPECIFICATION Spec
CONSTANTS
    g1 = g1
    g2 = g2
    u1 = u1
    u2 = u2
    p1 = p1
    p2 = p2
    Names <- MCNames
    Users <- MCUsers
    Activators <- MCActivators
    Installed <- MCActivators
    Bootstraps <- MCUsers
    Managers <- MCManagers
    Procs <- MCProcs
    Retain = {0, 1}
    MaxStamp = 3
    MaxEvents = 1
    Junctions = TRUE
    NoName = NoName
    Nobody = Nobody
SYMMETRY MCSymmetry
INVARIANTS
    ListingLoads
CHECK_DEADLOCK FALSE
