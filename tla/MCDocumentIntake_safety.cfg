SPECIFICATION Spec
CONSTANTS
    d1 = d1
    d2 = d2
    x1 = x1
    x2 = x2
    c1 = c1
    c2 = c2
    NoContent = NoContent
    NoMsg = NoMsg
    Content <- TwoFiles
    Doc <- TwoDocs
    Coordinator <- TwoCoordinators
    MaxMsg = 2
    MaxDeliver = 2
    Fault <- AllFaults
CONSTRAINT Focus
SYMMETRY Symmetry
INVARIANTS
    TypeOK
    EntitiesOnce
    FilesOnce
PROPERTIES
    RefinesLife
CHECK_DEADLOCK FALSE
