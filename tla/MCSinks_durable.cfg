SPECIFICATION SinksSpec
CONSTANTS
    Row <- MCRow
    Trace <- MCTrace
    Instant <- MCInstant
INVARIANTS
    AcknowledgedRowsSurvive
