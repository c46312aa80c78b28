\* Devices come and go at any moment, with fewer slots than ports, and send reports.
SPECIFICATION Spec
CONSTANTS
    MaxPorts = 3
    MaxSlots = 2
    Kinds = {2}
    MaxPlugs = 3
    MaxUnplugs = 1
    MaxReports = 1
INVARIANTS
    TypeOK
    AddressingExclusion
    DefaultAddressUnique
    CompletionMatchesPhase
    OneDevicePerPort
PROPERTY PhasesInOrder
