\* The command line does not win over the file.
SPECIFICATION Spec
CONSTANTS
    None = None
    IntSpan = 16
    LongSpan = 256
    Kilo = 4
    Texts <- MCTexts
    Args <- MCArgs
    Lines <- MCLines
    MaxArgs = 2
    MaxLines = 2
    Default <- MCDefault
    ServerDefault <- MCDefault
INVARIANT
    CommandLineWins
