SPECIFICATION Spec
CONSTANTS
    Channels = {c1, c2}
    MaxInstances = 2
    SpawnMayFail = FALSE
    OneAtATime = FALSE
INVARIANTS InUseNotDestroyed
