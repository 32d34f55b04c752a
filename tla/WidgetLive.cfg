SPECIFICATION Spec
CONSTANTS
    Threads = {p1}
    MaxPending = 2
INVARIANTS
    LiveShown
