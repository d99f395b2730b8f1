\* One file and two threads: the second slot is never filled in, and malloc left
\* "3 of 7 files" in it.
SPECIFICATION Spec
CONSTANTS
    a = a
    b = b
    c = c
    aVpc = aVpc
    bVpc = bVpc
    cVpc = cVpc
    Files = {a}
    Types = {"vp", "single"}
    EntryCounts = {2}
    MaxThreads = 2
    Garbage <- UsedSlots
    Names = {aVpc}
    Taggings <- DistinctTags
    Nothing = Nothing
    Partial = Partial
PROPERTIES
    Terminates
