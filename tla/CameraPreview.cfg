SPECIFICATION FairSpec
CONSTANTS
    Sizes = {s1, s2}
    Pictures = {p1}
    MaxQueue = 1
INVARIANT DisplayPresent
INVARIANT PictureOnce
PROPERTY RequestsEnd
CHECK_DEADLOCK FALSE
