SPECIFICATION Spec
CONSTANTS
    Names <- MCNames
    Paths <- FlatPaths
    Inodes = {1}
    NoIno = 0
    Data = {"empty", "cd"}
    Empty = "empty"
    Torn = "empty"
    DiskMayFill = TRUE
    Endless = {}
    Image <- FlatImage
    RootWritable = TRUE
    Texts <- NoTexts
    Fds = {1, 2}
    MaxHandles = 2
INVARIANTS OpenFilesReachable ListedNotSeenOnCD
PROPERTIES OnlyUnlinkedFilesReachRoot CopyUpKeepsOrTears
