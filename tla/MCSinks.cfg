SPECIFICATION SinksSpec
CONSTANTS
    Row <- MCRow
    Trace <- MCTrace
    Instant <- MCInstant
INVARIANTS
    TypeOK
    CountMatchesRows
    AcknowledgedRowsSurviveDeaths
    SinksAgree
    ScanComplete
PROPERTIES
    ImplementsStore
