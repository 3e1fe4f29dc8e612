SPECIFICATION Spec
CONSTANTS
    Capacity = 2
    ClientCapacity = 2
    Conns = {c1, c2, c3}
    NoConn = NoConn
    Lengths = {1, 2}
    MaxMessages = 3
    Interrupts = FALSE
INVARIANTS SlotsServeConnections TimedWhileOwing
PROPERTIES  ImplementsFeed
SYMMETRY ConnSymmetry
\* A full queue is a panic, and both cores stop.
CHECK_DEADLOCK FALSE
