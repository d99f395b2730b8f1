\* Every directory of three files of every type, one or two tagged names that are names of
\* other outputs, two threads: a full batch, its reset and a second, partial one. Slots that
\* look empty when they come from malloc.
SPECIFICATION Spec
CONSTANTS
    a = a
    b = b
    c = c
    aVpc = aVpc
    bVpc = bVpc
    cVpc = cVpc
    Files = {a, b, c}
    Types = {"vp", "notvp", "lockedvp", "single", "locked", "skipped"}
    EntryCounts = {0, 2}
    MaxThreads = 2
    Garbage <- EmptySlots
    Names = {b, c, aVpc, bVpc, cVpc}
    Taggings <- SharedTags
    Nothing = Nothing
    Partial = Partial
INVARIANTS
    SlotExclusive
    JoinedBeforeReuse
    EveryFileDone
    OutputsKept
PROPERTIES
    Terminates
