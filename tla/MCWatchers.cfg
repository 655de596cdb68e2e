SPECIFICATION FairSpec
CONSTANTS
    w1 = w1
    w2 = w2
    k1 = k1
    c1 = c1
    Keys <- MCKeys
    Nobody = Nobody
    Activator = Activator
    Procs <- MCCouple
    Convergers <- MCConverger
    MaxEvents = 3
INVARIANTS
    TypeOK
    OneLoop
    RunsAreDeferred
PROPERTIES
    EventuallyServed
