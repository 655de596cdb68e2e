SPECIFICATION Spec
CONSTANTS
    p1 = p1
    p2 = p2
    Procs <- MCProcs
    RCs = {1}
    Finals = {1}
    Assets = {"wheel", "manifest", "evidence"}
    MaxHistory = 3
    MaxFaults = 2
INVARIANTS
    TypeOK
    ReleasedAsApproved
PROPERTIES
    ReleaseIsFinal
    WithdrawalIsInTime
    ReceiptsAreFinal
SYMMETRY Shells
CHECK_DEADLOCK FALSE
