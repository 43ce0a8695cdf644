SPECIFICATION Spec
CONSTANTS
    Frame = {f1, f2, f3}
    NoFrame = NoFrame
    Window = {w1}
    Callback = {c1}
    Formats = {"yuyv"}
    Null = Null
    MAX_FRAME = 1
    FRAME_POOL_SZ = 1
    MaxSessions = 1
    MaxCalls = 2
SYMMETRY Symmetry
INVARIANT FrameOwnership
INVARIANT LostBound
INVARIANT CaptureUntilStop
CHECK_DEADLOCK FALSE
