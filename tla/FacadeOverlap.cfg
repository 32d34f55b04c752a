SPECIFICATION Spec
CONSTANTS
    Targets <- MCTargets
    MaxSessions = 2
    MaxQueue = 2
    MaxFrames = 3
    OverlappingGrabs = TRUE
INVARIANTS
    GrabSkippedWhileLive
