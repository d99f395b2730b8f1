\* Calls of the three block coders.
SPECIFICATION Spec
CONSTANTS
    Byte <- MCByte
    Inputs <- MCInputs
    DistanceMax = 340
    DictMax = 341
    OptNum = 40
INVARIANTS StaysInRoom ReadsInside TableFits
PROPERTIES ImplementsBlock Delivers SearchesForward
CHECK_DEADLOCK FALSE
