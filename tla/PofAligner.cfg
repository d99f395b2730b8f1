\* Every file of a chunk of usual size and up to two more of every kind, through align_pof.
SPECIFICATION Spec
CONSTANTS
    Files <- AllFiles
INVARIANTS
    NeverLost
    SizesTell
    CopiedIsOut
    AllAligned
    OffsetsFollow
    OutputFits
