SPECIFICATION Spec
CONSTANTS
    Requests <- MCRequests
    MaxRequests = 3
    MaxData = 2
    MaxReply = 1
INVARIANTS WholeOrLast OwnReply
PROPERTIES Answered Released
CHECK_DEADLOCK FALSE
