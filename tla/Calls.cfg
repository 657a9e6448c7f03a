SPECIFICATION FairSpec
CONSTANTS
    b1 = b1
    b2 = b2
    n1 = n1
    n2 = n2
    n3 = n3
    n4 = n4
    Calls <- MCCalls
    Exits <- MCNodes3
    Guards <- MCNodes3
    None = None
    MaxSends = 2
    Overlap = FALSE
    Late = FALSE
    Departs = TRUE
INVARIANTS
    DistinctHops
    NamesMatchLayers
    OKTested
    SearchReady

    
\* Each call is made once: when all have ended nothing is left to do.
CHECK_DEADLOCK FALSE
