SPECIFICATION FairSpec
CONSTANTS
    Capacity = 2
    ClientCapacity = 2
    Conns = {c1, c2}
    NoConn = NoConn
    Lengths = {2}
    MaxMessages = 3
    Interrupts = FALSE
PROPERTY EveryMessageLeaves
\* A full queue is a panic, and both cores stop.
CHECK_DEADLOCK FALSE
