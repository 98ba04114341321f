SPECIFICATION Spec
CONSTANTS
    Channels = {c1, c2, c3}
    Size = 2
    Written = {"new"}
INVARIANT Settled
PROPERTIES CopyEnds
