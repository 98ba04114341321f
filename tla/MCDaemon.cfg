SPECIFICATION DaemonSpec
CONSTANTS
    Channels = {c1, c2, c3, c4}
    MaxInstances = 5
    SpawnMayFail = TRUE
    OneAtATime = TRUE
\* both processes may have ended
CHECK_DEADLOCK FALSE
INVARIANTS CountsUsers OrphanOnlyByFailedMount SocketLeft
PROPERTY StartEnds
