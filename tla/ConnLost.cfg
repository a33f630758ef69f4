\* A header that is repeated leaves a string behind.
SPECIFICATION Spec
CONSTANTS
    None = None
    Words <- MCWords
    Streams <- MCStreams
    Routes <- MCRoutes
    Statuses <- MCStatuses
    BufferTokens = 8
    Pieces = 3
    Window = 2
    Faults = {}
INVARIANTS
    DestroyReleasesAll
\* A finished connection stays as it is; a client may send nothing.
CHECK_DEADLOCK FALSE
