SPECIFICATION FairSpec
CONSTANTS
    m1 = m1
    m2 = m2
    r1 = r1
    Runs = {r1}
    Maintainers = {m1, m2}
    Period = 1
    MaxStall = 2
    MaxFaults = 1
PROPERTIES
    PrunedOnlyWhenDue
    EventuallyGone
