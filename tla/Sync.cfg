SPECIFICATION FairSpec
CONSTANTS
    FrameCounts = {0, 2, 3}
    MaxQueue = 2
INVARIANTS
    FrameIsNew
    FirstUsefulFrame
PROPERTIES
    StoppedOnEveryPath
    CallEnds
