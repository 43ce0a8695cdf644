SPECIFICATION FairSpec
CONSTANTS
    Frame = {f1}
    NoFrame = NoFrame
    Window = {}
    Callback = {}
    Formats = {"yuyv"}
    Null = Null
    MAX_FRAME = 1
    FRAME_POOL_SZ = 1
    MaxSessions = 2
    MaxCalls = 0
INVARIANT StoppedIsQuiet
INVARIANT JoinOnceInFirstSession
PROPERTY FrameTaken
PROPERTY StopReturnsIfBothWait
CHECK_DEADLOCK FALSE
