SPECIFICATION FairSpec
CONSTANTS
    Frame = {f1}
    NoFrame = NoFrame
    Window = {}
    Callback = {}
    Formats = {"yuyv"}
    Null = Null
    MAX_FRAME = 1
    FRAME_POOL_SZ = 1
    MaxSessions = 1
    MaxCalls = 0
PROPERTY StopReturns
CHECK_DEADLOCK FALSE
