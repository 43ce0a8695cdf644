SPECIFICATION FairSpec
CONSTANTS
    Devices = {d1}
    MaxBlocks = 2
    MaxRegisters = 2
CHECK_DEADLOCK FALSE
INVARIANT TableLive
PROPERTIES
    RequestAnswered
    AttachTold
