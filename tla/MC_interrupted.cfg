SPECIFICATION Spec
CONSTANTS
    Capacity = 2
    ClientCapacity = 2
    Conns = {c1, c2, c3}
    NoConn = NoConn
    Lengths = {2}
    MaxMessages = 3
    Interrupts = TRUE
INVARIANTS RingIsFifo SendsTheOldest SentInOrder
SYMMETRY ConnSymmetry
\* A full queue is a panic, and both cores stop.
CHECK_DEADLOCK FALSE
