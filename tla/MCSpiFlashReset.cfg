SPECIFICATION SpiSpec
CONSTANTS
    ChipSize = 8
    Sector = 2
    SpiChunk = 3
    EraseStep = 3
INVARIANT ReleasedAlsoOnFailure
CHECK_DEADLOCK FALSE
