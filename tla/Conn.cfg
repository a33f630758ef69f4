\* Messages in pieces, two in a row, failures everywhere, and the end.
SPECIFICATION FairSpec
CONSTANTS
    None = None
    Words <- MCWords
    Streams <- MCStreams
    Routes <- MCRoutes
    Statuses <- MCStatuses
    BufferTokens = 8
    Pieces = 3
    Window = 2
    Faults = {"parser", "alloc", "oversize"}
INVARIANTS
    TypeOK
    WholeRequest
    SuccessIsDecided
    AnsweredWhole
PROPERTIES
    ConnectionEnds
\* A finished connection stays as it is; a client may send nothing.
CHECK_DEADLOCK FALSE
