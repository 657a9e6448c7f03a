SPECIFICATION FairSpec
CONSTANTS
    Clients = {b1, b2}
    ExitNodes = {b1, b2}
    Askers = {b1}
    MaxNames = 4
    MaxLosses = 2
    None = None
INVARIANTS
    TypeOK
    HopsAllowed
    ListedOwnKey
PROPERTIES
    KeylessForGood
    MisnamedForGood
    KeyComes
\* Names and losses run out.
CHECK_DEADLOCK FALSE
