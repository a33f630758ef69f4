\* A limit in the file can turn the timeout off.
SPECIFICATION Spec
CONSTANTS
    None = None
    IntSpan = 16
    LongSpan = 256
    Kilo = 4
    Texts <- MCTexts
    Args <- MCArgs
    Lines <- MCLines
    MaxArgs = 2
    MaxLines = 2
    Default <- MCDefault
    ServerDefault <- MCDefault
INVARIANT
    TimeoutStaysOn
