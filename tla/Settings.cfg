SPECIFICATION Spec
CONSTANTS
    Engines = {confocal, laser}
    Profilers = {confocal}
    Confocal = confocal
    Surfaced = surfaced
    Values = {v1, v2}
    Tools = {t1}
INVARIANTS
    PreparedMeansOnlyOutput
    AppliedIsTheConfig
PROPERTIES
    OutputComesLast
    AddedIsOfTheEngine
    AppliedInOrder
