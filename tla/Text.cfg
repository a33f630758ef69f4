\* Texts of all kinds, with and without vars.
SPECIFICATION FairSpec
CONSTANTS
    None = None
    Char <- MCChar
    Percent = "%"
    Dot = "."
    Nul = "nul"
    Hex <- MCHex
    Byte <- MCByte
    ParamCap <- MCParamCap
    NameCap = 3
    Keys <- MCKeys
    Results <- MCResults
    Operations <- MCOperations
INVARIANTS
    DecodeStaysInside
    SegmentsAlwaysDecode
    MeasuredIsWritten
    ReplacedAsDocumented
    NamesAreMeant
PROPERTIES
    TextEnds
