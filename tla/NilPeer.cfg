SPECIFICATION Spec
CONSTANTS
    x = x
    y = y
    None = None
    Clients = {x, y}
    Introduced <- MCIntroduced
    MaxPeers = 4
    MaxCalls = 2
INVARIANT
    UnknownIgnored
CHECK_DEADLOCK FALSE
