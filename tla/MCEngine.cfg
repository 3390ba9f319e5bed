SPECIFICATION Spec
CONSTANTS
    CAP = 3
    MaxPushes = 4
    MaxTime = 4
    MinTick <- MCReordered
    Node <- MCNode
    Time <- MCTime
    Wcet <- MCWcet
    Transition <- MCTransition
    NoTransition = NoTransition
    Payload <- MCPayload
    Manifests <- MCManifests
INVARIANTS
    EvictionNeverInvents
    LossOnlyByEviction
    TriggerIsLatestArrival
PROPERTIES
    ImplementsWindow
    TripIffFallingEdge
\* the capture ends after MaxPushes recorded frames
CHECK_DEADLOCK FALSE
