SPECIFICATION Spec
CONSTANTS
    CAP = 6
    MaxPushes = 6
    MaxTime = 6
    MinTick = 1
    Node <- MCNode
    Time <- MCTime
    Wcet <- MCWcet
    Transition <- MCTransition
    NoTransition = NoTransition
    Payload <- MCSharedPayload
    Manifests <- MCSharedNode
INVARIANTS
    SeverestViolationFirst
\* the capture ends after MaxPushes recorded frames
CHECK_DEADLOCK FALSE
