SPECIFICATION Spec
CONSTANTS
    Magic = {"usec", "nsec", "pcapng", "other"}
    File <- MCFile
    MaxFrame = 2
    NoHeader = NoHeader
INVARIANTS
    EndsExactly
    ReadersAgree
PROPERTIES
    ReadersAreSources
    ReadersEnd
\* both readers come to the end of the file
CHECK_DEADLOCK FALSE
