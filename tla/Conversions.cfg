SPECIFICATION MCSpec
CONSTANTS
    Types = {"IMAGE", "UNIFORM_PROFILE", "PROFILE_POINT_CLOUD", "SPOTS"}
    Widths = {0, 1, 3}
    Ranges <- MCRanges
    Null <- MCNull
    Intensities = {4, 7}
    Packets <- MCPackets
    MaxPackets = 3
    OmpThreads = {t1, t2}
    IntMax = 4
    NoCell = NoCell
INVARIANTS
    StatisticsAreExact
    FirstIsShown
    ReadsInside
    MaskIsExact
CHECK_DEADLOCK FALSE
