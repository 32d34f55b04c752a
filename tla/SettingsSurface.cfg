SPECIFICATION Spec
CONSTANTS
    Engines = {confocal, laser}
    Profilers = {confocal}
    Confocal = confocal
    Surfaced = surfaced
    Values = {v1}
    Tools = {}
INVARIANTS
    SurfaceIsAsked
