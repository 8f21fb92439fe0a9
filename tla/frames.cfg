\* Both dialects, a limit of 3, a buffer of 2, a peer that pauses and breaks off.
SPECIFICATION FairSpec
CONSTANTS
    Max = 3
    BufSize = 2
    MaxDigits = 2
    IdleOn = TRUE
    MaxFrames = 2
    Dialects <- MixedDialects
    Numerals <- MCNumerals
INVARIANTS
    TypeOK
    FramesIntactUnlessPaused
    NothingHeldBack
    BoundedMemory
PROPERTIES
    HandlerEnds
