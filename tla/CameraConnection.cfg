SPECIFICATION FairSpec
CONSTANTS
    Devices = {d1}
    MaxOpens = 2
    MaxEvents = 2
CHECK_DEADLOCK FALSE
INVARIANTS
    ToldTruth
    OrphansClosed
PROPERTIES
    SelectEnds
