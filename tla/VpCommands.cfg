\* Every archive of one entry and pairs of the common ones, through every sequence of
\* three commands with every one of four settings.
SPECIFICATION Spec
CONSTANTS
    Ids <- AllIds
    Files <- AllFiles
    Exts = {"tga", "pof"}
    Archives <- AllArchives
    Configs <- AllConfigs
    PofGrowth = 2
    JunkSizes = {0, 3}
    RenameMayFail = TRUE
    MaxCommands = 3
INVARIANTS
    ContentKept
    TreeKept
    NothingStaysPacked
PROPERTIES
    NeverGrows
    SecondTimeIsIdle
