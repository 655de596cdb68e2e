SPECIFICATION FairSpec
CONSTANTS
    result = result
    binding = binding
    doc = doc
    good = good
    bad = bad
    strict = strict
    lax = lax
    ref = ref
    r1 = r1
    Paths <- MCPaths
    Values <- MCValues
    Schemas <- MCSchemas
    Refs <- MCRefs
    Binding <- MCBinding
    Target <- MCTarget
    Accepts <- MCAccepts
    Seeds <- MCSeeds
    Puttable <- MCPuttable
    Requests <- MCRequests
    Configs <- MCConfigs
    Oversize <- MCOversize
    ResultPath = result
    MaxAttempt = 2
    Missing = Missing
    Nobody = Nobody
    Unpublished = Unpublished
    MaxTime = 3
    Timeout = 1
    PostTimeout = 1
    Sleep = 1
INVARIANTS
    ResultIsOfLastAttempt
    ResultIsChecked
    ReserveIsKept
PROPERTIES
    PutsAreAtomic
    RunEnds
CHECK_DEADLOCK FALSE
