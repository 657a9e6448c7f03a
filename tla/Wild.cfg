SPECIFICATION Spec
CONSTANTS
    c1 = c1
    c2 = c2
    c3 = c3
    n1 = n1
    n2 = n2
    n3 = n3
    Conns <- MCConns3
    Names <- MCNames
    Unnamed = Unnamed
    NoConn = NoConn
    AttrLists <- MCAttrLists
    EarlyDrop = TRUE
    EarlyAsk = TRUE
    Rename = TRUE
SYMMETRY Symmetry
\* Ghosts and leaked locks can use up every connection and every name.
CHECK_DEADLOCK FALSE
INVARIANTS
    TypeOK
    NoTwin
    NoShortfall
