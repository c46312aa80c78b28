\* A pool whose end is no multiple of a boundary; at the bound the driver stops.
SPECIFICATION StartSpec
CONSTANTS
    PoolBase = 8
    PoolSize = 66
    Requests <- MCRequests
    MaxSlots = 2
    Line = 4
    Page = 16
    Segment = 32
    TrbSize = 2
    RingSize = 4
    TableSize = 1
    DcbaapLimit = 128
    Controllers <- MCControllers
    MaxRegions = 9
INVARIANTS
    ConstraintsKept
    RegionsDisjoint
    ProgrammedBeforeRun
PROPERTIES
    ResetSafely
    ControllerRuns
CHECK_DEADLOCK FALSE
