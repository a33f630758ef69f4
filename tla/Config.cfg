\* Two options and two lines, of every kind, with numbers that leave their words.
SPECIFICATION Spec
CONSTANTS
    None = None
    IntSpan = 16
    LongSpan = 256
    Kilo = 4
    Texts <- MCTexts
    Args <- MCArgs
    Lines <- MCLines
    MaxArgs = 2
    MaxLines = 2
    Default <- MCDefault
    ServerDefault <- MCDefault
INVARIANTS
    TypeOK
    LastWordCounts
    ServedIsUsable
    BadOptionStops
