\* Four slots and the Link TRB, filled to the last slot but one, for more than three laps.
\* Both ends may come to rest: the driver pushes nothing more, the controller waits.
SPECIFICATION FairSpec
CONSTANTS
    BufSize = 5
    Window = 3
    MaxItems = 14
INVARIANTS
    UnconsumedIntact
PROPERTY ImplementsFifo
CHECK_DEADLOCK FALSE
