\* A waiting device is pulled out before its turn.
SPECIFICATION FairSpec
CONSTANTS
    MaxPorts = 3
    MaxSlots = 3
    Kinds = {1}
    MaxPlugs = 3
    MaxUnplugs = 1
    MaxReports = 0
PROPERTY IdleWaiterServed
