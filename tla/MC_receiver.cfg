SPECIFICATION Spec
CONSTANTS
    Base = 3
    Magic <- MCMagic
    WordSize = 2
    BufferCap = 3
    Sizes <- MCSizes
    MaxStream = 12
    MaxSegment = 2
    MaxConns = 2
INVARIANTS BufferHolds HandlesTheStream
\* The bounded stream ends.
CHECK_DEADLOCK FALSE
