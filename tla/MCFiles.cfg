SPECIFICATION Spec
CONSTANTS
    Names <- MCNames
    Paths <- MCPaths
    Inodes = {1, 2}
    NoIno = 0
    Data = {"empty", "cd"}
    Empty = "empty"
    Torn = "empty"
    DiskMayFill = FALSE
    Endless = {}
    Image <- FileImage
    RootWritable = FALSE
    Texts <- UserTexts
    Fds = {1}
    MaxHandles = 1
INVARIANTS TypeOK WhiteoutsStored ListingAgreesWithStat
PROPERTIES ErrorsChangeNothing CopyUpTransparent RenameMoves WritesAreSeen
    ImplementsUnionView RequestsKeepPromises
