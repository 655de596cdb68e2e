SPECIFICATION FairBudgetSpec
CONSTANTS
    c1 = c1
    c2 = c2
    c3 = c3
    Claimers <- MCClaimers
    Limit = 1
    Window = 2
    MaxTime = 3
    Unlocked = Unlocked
INVARIANTS
    SerialUnlessBroken
    RefusalIsJustified
    BoundsInOrder
PROPERTIES
    ClaimEnds
CHECK_DEADLOCK FALSE
