SPECIFICATION FairSpec
CONSTANT Others = {o1}
INVARIANTS
    TypeOK
    CallsReachTheLiving
    FramesReachTheLiving
    
PROPERTIES
    CallsReturn
