\* A name within its limit whose text is too long is another name.
SPECIFICATION FairSpec
CONSTANTS
    None = None
    Char <- MCChar
    Percent = "%"
    Dot = "."
    Nul = "nul"
    Hex <- MCHex
    Byte <- MCByte
    ParamCap <- MCParamCap
    NameCap = 3
    Keys <- MCKeys
    Results <- MCResults
    Operations <- MCOperations
INVARIANT
    LongNamesAreMeant
