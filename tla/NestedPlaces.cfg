\* The message of a tree that is too deep leaves levels out, at the real limits.
SPECIFICATION FairSpec
CONSTANTS
    a = a
    None = None  Null = Null  Blank = Blank
    ObjPtr <- MCObjPtr
    SetPtr <- MCSetPtr
    Names <- MCNames
    Raw <- MCRaw
    Keys <- MCNames
    KeyLen <- MCKeyLen
    MaxKeyLen = 511
    Nodes <- MCNodes
    Type <- MCType
    Text <- MCText
    Kids <- MCKids
    NestMax = 64
    ReasonLen <- MCReasonLen
    MemberLen = 15
    ElementLen = 17
    CtxMax = 565
    TmpMax = 767
    ReplyMax = 1151
    InitDb <- EmptyDb
    Fresh <- MCFresh
    Requests <- MCRequests
    InitFaults = {}
    Size <- MCSize
    RefSize = 18
    Paths = {}
    query_max_depth = 0
    DepthDefault = 64
    max_value_bytes = 0
    BytesDefault = 8192
    FirstCapacity = 1024
    QueryFaults = {}
\* No query is asked.
CHECK_DEADLOCK FALSE
INVARIANT
    EveryLevelNamed
