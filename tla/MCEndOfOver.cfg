SPECIFICATION Spec
CONSTANTS
    InCapacity = 2
    OutCapacity = 5
    BlocksPerFrame = 2
    FrameUnits = 1
    EooUnits = 2
    CardUnits = 2
INVARIANTS TypeOK EooQueued  
PROPERTIES OverEnds
