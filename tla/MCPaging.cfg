SPECIFICATION Spec
CONSTANTS
    Names <- MCNames
    CdOrders <- MCOrders
    nameLen <- MCLen
    BufLen = 7
    OffsetMod = 7
    MaxChanges = 2
    MaxGot = 12
INVARIANTS ListedOnce DotsFirst
PROPERTIES ReadingEnds
CHECK_DEADLOCK FALSE
