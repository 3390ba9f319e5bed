SPECIFICATION TriageSpec
CONSTANTS
    None = None
    SUB = 8
    Width = 8
    Stamps = {0, 1, 3, 20, 37}
    Updates = 5
    Captures <- MCCaptures
INVARIANTS
    ReadsWithinFrame
    ReparsesAgree
    CoverageAddsUp
    TogglesSeen
    QuantileBrackets
\* a file ends
CHECK_DEADLOCK FALSE
