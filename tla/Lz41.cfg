\* Tiny files against tiny blocks (every boundary of the block arithmetic), real
\* files against the default block size, and a block size LZ4 refuses.
SPECIFICATION Spec
CONSTANTS
    Inputs <- AllInputs
    CodedLengths = {2, 3, 4, 5, 6, 7, 8, 9, 20, 66, 65793, 65794}
INVARIANTS
    TableInBounds
    RoundTrip
    CmpBufFits
    OutBufferFits
