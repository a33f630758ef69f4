\* An object created empty, and filled in the next operation.
SPECIFICATION Spec
CONSTANTS
    Conns = {c1}
    p = p  q = q  n1 = n1  n2 = n2  v1 = v1  v2 = v2
    Token = Token
    None = None
    ObjPtr <- MCObjPtr
    SetPtr <- MCSetPtr
    Names <- MCNames
    Raw <- MCRaw
    Bodies <- MCBodies
    Body <- MCBody
    InitDb <- MCInitDb
    Fresh <- MCFresh
    MaxCalls = 6
    MaxOperations = 4
    Requests <- CreateThenFill
    Timeout = 1
    Faults = {}
INVARIANTS
    CreatedCanBeFilled
