\* With equal limits, not all that can be stored can be asked for.
SPECIFICATION FairSpec
CONSTANTS
    p = p  r = r  q = q  a = a  b = b
    empty = empty  long = long  short = short  text = text
    None = None  Null = Null  Blank = Blank
    ObjPtr <- MCObjPtr
    SetPtr <- MCSetPtr
    Names <- MCNames
    Raw <- MCRaw
    Keys <- MCKeys
    KeyLen <- MCKeyLen
    MaxKeyLen = 2
    Nodes <- MCNodes
    Type <- MCType
    Text <- MCText
    Kids <- MCKids
    NestMax = 2
    ReasonLen <- MCReasonLen
    MemberLen = 1
    ElementLen = 1
    CtxMax = 3
    TmpMax = 4
    ReplyMax = 6
    InitDb <- MCInitDb
    Fresh <- MCFresh
    Requests <- MCRequests
    InitFaults = {"begin", "time", "alloc", "commit", "answer"}
    Size <- MCSize
    RefSize = 4
    Paths <- MCPaths
    query_max_depth = 0
    DepthDefault = 2
    max_value_bytes = 5
    BytesDefault = 8
    FirstCapacity = 2
    QueryFaults = {"TXN_BEGIN", "TIMEOUT", "alloc"}
\* A query may never be asked.
CHECK_DEADLOCK FALSE
INVARIANT
    ReachableWithDefaults
