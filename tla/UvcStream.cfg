SPECIFICATION FairSpec
CONSTANTS
    Transfer = {t1, t2, t3}
    NoTransfer = NoTransfer
    MaxFrames = 3
    MaxStreams = 2
INVARIANT TypeOK
INVARIANT FreedWhenDone
INVARIANT HandleOutlivesUse
INVARIANT FrameWhole
PROPERTY ImplementsFrameSource
PROPERTY StopReturns
PROPERTY FrameDelivered
CHECK_DEADLOCK FALSE
