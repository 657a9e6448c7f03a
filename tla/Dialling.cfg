SPECIFICATION FairSpec
CONSTANTS
    x = x
    y = y
    None = None
    Clients = {x, y}
    Introduced <- MCIntroduced
    MaxPeers = 4
    MaxCalls = 2
INVARIANTS
    TypeOK
    
    Listed
    EndedForgotten
PROPERTIES
    LoneDialConnects
\* L1Peers run out.
CHECK_DEADLOCK FALSE
