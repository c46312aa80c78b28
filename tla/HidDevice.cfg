\* A control ring that the requests go round, maps that the requests fill. A device that is
\* gone, or that has sent all its reports, leaves the system at rest.
SPECIFICATION Spec
CONSTANTS
    RingSize = 8
    MapSize = 3
    Devices <- MCDevices
    BufferSize = 64
    MaxEndpoints = 3
    MaxWaiters = 2
    MaxReports = 4
INVARIANTS
    SetupStageKept
    NeverLost
    FirstInterfaceServed
    PolledInTime
    ReportsNotified
PROPERTIES
    KeepsPolling
CHECK_DEADLOCK FALSE
