\* One more device than slots.
SPECIFICATION Spec
CONSTANTS
    MaxPorts = 2
    MaxSlots = 1
    Kinds = {1}
    MaxPlugs = 2
    MaxUnplugs = 0
    MaxReports = 0
INVARIANT ScratchpadKept
