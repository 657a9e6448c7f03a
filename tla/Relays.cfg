SPECIFICATION FairSpec
CONSTANTS
    a = a
    x = x
    y = y
    z = z
    c1 = c1
    c2 = c2
    None = None
    Nodes = {a, x, y, z}
    Circuits = {c1, c2}
    Owner <- MCOwner
    Path <- MCPath
    MaxLinks = 4
    MaxSteps <- MCSteps
    MaxBreaks = 1
INVARIANTS
    TypeOK
    RouteBack
    Homeward
\* Every message is sent once and connections run out.
CHECK_DEADLOCK FALSE
PROPERTIES
    ImplementsChannel
    ReplyComes
    
