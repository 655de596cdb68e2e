SPECIFICATION FairSpec
CONSTANTS
    f1 = f1
    f2 = f2
    d1 = d1
    Files <- MCFiles
    Matching <- MCMatching
    Dirs <- MCDirs
    DirOf <- MCDirOf
    QueueLimit = 1
    BufferLimit = 1
    RescanLimit = 1
    MaxDispatches = 1
    Window = 2
    Debounce = 1
    IdleCheck = 1
    MaxChanges = 3
INVARIANTS
    LossHasACause
PROPERTIES
    EventuallyFired
    StopEnds
CHECK_DEADLOCK FALSE
