SPECIFICATION Spec
CONSTANTS
    dwMaxVideoFrameSize = 3
    MetaBufSize = 1
    FrameSizes = {1, 3, 4}
    PayloadSizes = {0, 1, 2}
    MetaSizes = {0, 1}
    MaxFrames = 4
INVARIANT TypeOK
INVARIANT FramesApart
INVARIANT FramePublishedWhole
CHECK_DEADLOCK FALSE
