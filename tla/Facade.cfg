SPECIFICATION FairSpec
CONSTANTS
    Targets <- MCTargets
    MaxSessions = 2
    MaxQueue = 2
    MaxFrames = 3
    OverlappingGrabs = FALSE
INVARIANTS
    ObjectsOutliveTheirUses
    QuietBeforeReceive
    NoCallbackAfterStop
    FramesNumberedFromZero
    StopRequestNotLost
    WorkerStopsItsOwn
    EndNotifiedOnce
    NothingLeft
    SensorStoppedWhenIdle
PROPERTIES
    ImplementsAcquisition
    TargetEndsAcquisition
    EveryCallReturns
    CountedGrabEnds
