SPECIFICATION FairSpec
CONSTANTS
    Callbacks = {c1, c2}
    None = None
    MaxFd = 3
    MaxOpens = 3
    MaxOthers = 2
INVARIANT NothingFreedInUse
INVARIANT DescriptorsHeld
PROPERTY CloseEnds
CHECK_DEADLOCK FALSE
