SPECIFICATION MCRunSpec
CONSTANTS
    None = None
    CAP = 4
    MaxPushes = 5
    MaxTime = 3
    MinTick <- MCReordered
    MaxFrames = 5
    AmrBudget = 1
    FanucBudget = 1
    ResponseBudget = 1
    Node <- MCNode
    Time <- MCTime
    Wcet <- MCWcet
    Transition <- MCTransition
    NoTransition = NoTransition
    Payload <- MCPayload
    Manifests <- MCManifests
    Frames <- MCFrames
INVARIANTS
    OneRecordPerTrip
    RecordPointsIntoItsWindow
    ResponseCoversOverrun
PROPERTIES
    EveryTripStored
\* the capture ends
CHECK_DEADLOCK FALSE
