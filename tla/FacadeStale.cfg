SPECIFICATION Spec
CONSTANTS
    Targets <- MCTargets
    MaxSessions = 2
    MaxQueue = 2
    MaxFrames = 3
    OverlappingGrabs = FALSE
INVARIANTS
    StatusSettles
