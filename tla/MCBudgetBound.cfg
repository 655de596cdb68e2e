SPECIFICATION BudgetSpec
CONSTANTS
    c1 = c1
    c2 = c2
    c3 = c3
    Claimers <- MCClaimers
    Limit = 1
    Window = 2
    MaxTime = 4
    Unlocked = Unlocked
INVARIANTS
    BudgetBounds
CHECK_DEADLOCK FALSE
