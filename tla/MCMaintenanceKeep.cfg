SPECIFICATION Spec
CONSTANTS
    m1 = m1
    u1 = u1
    a1 = a1
    v1 = v1
    Maintainers <- MCOneMaintainer
    Users <- MCUsers
    Agents <- MCAgents
    Versions <- MCVersions
    Nobody = Nobody
    NoRequest = NoRequest
    MaxEpoch = 3
    MaxEvents = 2
INVARIANTS
    UncomputedIsKept
CHECK_DEADLOCK FALSE
