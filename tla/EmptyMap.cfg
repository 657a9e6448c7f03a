SPECIFICATION Spec
CONSTANTS
    c1 = c1
    c2 = c2
    c3 = c3
    n1 = n1
    n2 = n2
    n3 = n3
    Conns <- MCConns3
    Names <- MCNames
    Unnamed = Unnamed
    NoConn = NoConn
    AttrLists <- MCAttrLists
    EarlyDrop = FALSE
    EarlyAsk = TRUE
    Rename = FALSE
SYMMETRY Symmetry
INVARIANTS
    NoStuckLock
