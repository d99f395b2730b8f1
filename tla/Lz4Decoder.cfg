\* Calls of the block decoder, with every block of a text.
SPECIFICATION Spec
CONSTANTS
    Byte <- MCByte
    Inputs <- MCInputs
    DistanceMax = 400
INVARIANT WritesInside
PROPERTIES AnswersRight ImplementsReader
CHECK_DEADLOCK FALSE
