SPECIFICATION Spec
CONSTANTS
    Frame = {f1, f2, f3, f4, f5}
    NoFrame = NoFrame
    Window = {}
    Callback = {}
    Formats = {"mjpeg", "yuyv"}
    Null = Null
    MAX_FRAME = 2
    FRAME_POOL_SZ = 2
    MaxSessions = 1
    MaxCalls = 0
SYMMETRY Symmetry
INVARIANT TypeOK
INVARIANT Capacity
PROPERTY PreviewQueueFifo
CHECK_DEADLOCK FALSE
