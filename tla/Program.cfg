\* Runs of the program on folders of single files.
SPECIFICATION Spec
CONSTANTS
    f1 = f1
    f2 = f2
    Files = {f1, f2}
    Ids = {"text", "noise", "small", "model", "fake"}
    Folders <- MCFolders
    Inis <- MCInis
    Runs = 2
    Commands = {"compress_folder", "decompress_folder", "compress_file", "decompress_file"}
    PofGrowth = 40
    MaxFailures = 2
INVARIANTS FilesKept SettingsAgree
CHECK_DEADLOCK FALSE
