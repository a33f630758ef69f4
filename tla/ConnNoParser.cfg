\* A request that was not looked at is answered 200.
SPECIFICATION Spec
CONSTANTS
    None = None
    Words <- MCWords
    Streams <- MCStreams
    Routes <- MCRoutes
    Statuses <- MCStatuses
    BufferTokens = 8
    Pieces = 3
    Window = 2
    Faults = {"parser"}
INVARIANTS
    OutOfMemoryIsAnError
\* A finished connection stays as it is; a client may send nothing.
CHECK_DEADLOCK FALSE
