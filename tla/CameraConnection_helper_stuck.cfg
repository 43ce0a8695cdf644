SPECIFICATION FairSpec
CONSTANTS
    Devices = {d1}
    MaxOpens = 1
    MaxEvents = 2
CHECK_DEADLOCK FALSE
PROPERTIES
    GetCameraEnds
