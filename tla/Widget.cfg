SPECIFICATION Spec
CONSTANTS
    Threads = {p1, p2}
    MaxPending = 2
INVARIANTS
    TypeOK
    NotLockedOut
PROPERTIES
    ConnectionShown
    AcquisitionShown
    
    ControlsReturn
