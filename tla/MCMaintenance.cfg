SPECIFICATION MCSpec
CONSTANTS
    m1 = m1
    u1 = u1
    a1 = a1
    v1 = v1
    Maintainers <- MCOneMaintainer
    Users <- MCUsers
    Agents <- MCAgents
    Versions <- MCVersions
    Nobody = Nobody
    NoRequest = NoRequest
    MaxEpoch = 3
    MaxEvents = 2
INVARIANTS
    PlanIsExact
    RemovalsAreDue
    InstallsAreDue
    OneCommitConverges
PROPERTIES
    EpochMarksWrites
    IntentIsTheUsers
    EventuallyConverged
CHECK_DEADLOCK FALSE
