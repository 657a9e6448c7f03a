SPECIFICATION Spec
CONSTANTS
    b1 = b1
    b2 = b2
    n1 = n1
    n2 = n2
    n3 = n3
    n4 = n4
    Calls <- MCCalls
    Exits <- MCNodes4
    Guards <- MCNodes4
    None = None
    MaxSends = 1
    Overlap = FALSE
    Late = TRUE
    Departs = FALSE
SYMMETRY Symmetry
INVARIANTS
    DistinctHops
\* Each call is made once: when all have ended nothing is left to do.
CHECK_DEADLOCK FALSE
