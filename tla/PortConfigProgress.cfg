\* Devices are plugged in at any moment and stay.
SPECIFICATION FairSpec
CONSTANTS
    MaxPorts = 3
    MaxSlots = 3
    Kinds = {1}
    MaxPlugs = 3
    MaxUnplugs = 0
    MaxReports = 0
PROPERTY DevicesGetToWork
