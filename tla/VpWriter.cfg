\* Every archive of up to three entries, folders and empty files included, below the
\* limit of fseek.
SPECIFICATION Spec
CONSTANTS
    Names = {a, b}
    FileSizes = {0, 1, 3, 5}
    MaxFiles = 3
    EntrySize = 2
    SeekMax = 31
INVARIANTS
    DataIntact
PROPERTIES
    ImplementsArchive
\* The caller stops after its last file.
CHECK_DEADLOCK FALSE
