SPECIFICATION FairSpec
CONSTANTS
    MaxDisturbed = 1
    MaxRecordings = 2
    Documented = FALSE
INVARIANT VerdictRight
INVARIANT MuxerComplete
INVARIANT NoCrash
INVARIANT ReadyWhenIdle
INVARIANT StartAnswered
PROPERTY KeepsPromise
PROPERTY StopEnds
PROPERTY ReleaseCompletes
CHECK_DEADLOCK FALSE
