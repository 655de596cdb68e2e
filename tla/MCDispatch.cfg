SPECIFICATION FairSpec
CONSTANTS
    p1 = p1
    p2 = p2
    w1 = w1
    a1 = a1
    Pids <- MCPids
    Watchers <- MCWatchers
    Agents <- MCAgents
    NoFile = NoFile
    NoOwner = NoOwner
    Nobody = Nobody
    NoJob = NoJob
INVARIANTS
    OwnerIsNamed
    RunExclusion
    AdmissionIsCurrent
    RunsAreShielded
PROPERTIES
    FiringEnds
    AbandonedIsReclaimed
