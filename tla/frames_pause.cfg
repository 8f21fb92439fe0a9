\* Octet-counted messages of two lines, from a peer that pauses.
SPECIFICATION Spec
CONSTANTS
    Max = 3
    BufSize = 2
    MaxDigits = 2
    IdleOn = TRUE
    MaxFrames = 2
    Dialects <- OctetDialect
    Numerals <- MCNumerals
INVARIANTS
    FramesIntact
