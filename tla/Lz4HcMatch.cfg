\* Searches for a longer match, with every past of nine bytes.
SPECIFICATION SearchSpec
CONSTANTS
    Byte <- MCByte
    Inputs <- MCInputs
    DistanceMax = 28
INVARIANTS KeepsContract FindsLongest ReadsWords
CHECK_DEADLOCK FALSE
