SPECIFICATION FairSpec
CONSTANTS
    n1 = n1
    n2 = n2
    n3 = n3
    n4 = n4
    n5 = n5
    Asker = n1
    None = None
    MaxAvoid = 2
    Nodes <- MCNodes5
INVARIANTS
    TypeOK
    HopAllowed
    MissBound
PROPERTIES
    Returns
