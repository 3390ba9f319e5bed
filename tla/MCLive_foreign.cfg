SPECIFICATION Spec
CONSTANTS
    Skew = 2
    OtherClocks = {1, 9}
    Room = 2
    MaxTime = 3
    MaxPackets = 4
INVARIANT OnlyBoundInterface
\* the source is dropped
CHECK_DEADLOCK FALSE
