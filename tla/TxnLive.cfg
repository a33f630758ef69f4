\* Three connections compete for the write lock, no timeout.
SPECIFICATION FairSpec
CONSTANTS
    Conns = {c1, c2, c3}
    p = p  q = q  n1 = n1  n2 = n2  v1 = v1  v2 = v2
    Token = Token
    None = None
    ObjPtr <- MCObjPtr
    SetPtr <- MCSetPtr
    Names <- MCNames
    Raw <- MCRaw
    Bodies <- MCBodies
    Body <- MCBody
    InitDb <- MCInitDb
    Fresh <- MCFresh
    MaxCalls = 6
    MaxOperations = 4
    Requests <- Queueing
    Timeout = 0
    Faults = {}
CHECK_DEADLOCK FALSE
PROPERTIES
    EveryRequestAnswered
