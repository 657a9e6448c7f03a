SPECIFICATION FairSpec
CONSTANTS
    c1 = c1
    c2 = c2
    c3 = c3
    n1 = n1
    n2 = n2
    n3 = n3
    Conns <- MCConns3
    Names <- MCNames
    Unnamed = Unnamed
    NoConn = NoConn
    AttrLists <- MCAttrLists
    EarlyDrop = FALSE
    EarlyAsk = FALSE
    Rename = FALSE
INVARIANTS
    Consistent
    RegistrySound
    RegistryComplete
    OnlyConnected
    Addressed
    NoStuckLock
PROPERTIES
    ImplementsPresence
    Departed
    Registered
