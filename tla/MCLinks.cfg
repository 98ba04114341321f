SPECIFICATION Spec
CONSTANTS
    Names <- LinkNames
    Paths <- LinkPaths
    Inodes = {1}
    NoIno = 0
    Data = {"empty", "cd"}
    Empty = "empty"
    Torn = "empty"
    DiskMayFill = FALSE
    Endless <- AlwaysMore
    Image <- LinkImage
    RootWritable = FALSE
    Texts <- LinkTexts
    Fds = {}
    MaxHandles = 1
PROPERTIES OnlyNamedChange HangsOnlyWithoutEnd
CHECK_DEADLOCK FALSE
