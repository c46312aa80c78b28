\* Three buses of two devices with two functions, and an array of four devices;
\* registers hold six bits. When the xHC is known, or there is none, it is over.
SPECIFICATION PciSpec
CONSTANTS
    Buses = {0, 1, 2}
    MaxDevices = 4
    DeviceCount = 2
    FunctionCount = 2
    ConfigSpaces <- MCConfigSpaces
    Registers <- MCRegisters
    XhcOf <- MCXhcOf
    num_vector_exponent = 1
    RegisterSize = 64
INVARIANTS
    DevicesSound
    ScanComplete
    MsiProgrammed
PROPERTIES
    XhcReady
CHECK_DEADLOCK FALSE
