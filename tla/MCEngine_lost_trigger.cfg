SPECIFICATION Spec
CONSTANTS
    CAP = 3
    MaxPushes = 5
    MaxTime = 6
    MinTick = 1
    Node <- MCNode
    Time <- MCTime
    Wcet <- MCWcet
    Transition <- MCTransition
    NoTransition = NoTransition
    Payload <- MCPayload
    Manifests <- MCTrees
INVARIANTS
    EmptyMeansNoViolation
\* the capture ends after MaxPushes recorded frames
CHECK_DEADLOCK FALSE
