SPECIFICATION MCSpec
CONSTANTS
    MaxHeld = 4
    MaxTs = 4
    Node <- MCNode
    Transition <- MCTransition
    Wcet <- MCWcet
    NoTransition = NoTransition
INVARIANTS
    WalkTypeOK
    CandidatesGenuine
    EffectAlwaysFound
    CandidatesUpstream
    EachEdgeOnce
    CompleteWhenUnambiguous
    RankedSevereFirst
PROPERTIES
    WalkReturns
\* backtrack returns: the walk really ends
CHECK_DEADLOCK FALSE
