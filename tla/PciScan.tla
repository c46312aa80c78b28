------------------------------ MODULE PciScan -------------------------------
(***************************************************************************)
(* The enumeration of the PCI buses and the choice of the xHC              *)
(* (kernel/pci.cpp, called from kernel_main).  The recursion of scan_bus   *)
(* through bridges is the variable calls, one record per active call.      *)
(***************************************************************************)
EXTENDS Naturals, Sequences, FiniteSets, SequencesExt

CONSTANTS
    Buses,          \* bus numbers, 0..255 in the code
    MaxDevices,     \* devices.size(), 32 in the code
    DeviceCount,    \* devices of a bus, 32 in the code
    FunctionCount,  \* functions of a device, 8 in the code
    ConfigSpaces    \* the machines to look at

Addresses == Buses \X (0..(DeviceCount - 1)) \X (0..(FunctionCount - 1))

\* What the configuration registers of a function tell: its class code, whether its
\* vendor is Intel, bit 7 of its header type, and of a bridge the secondary bus.
\* A function that is not there reads as ones.
Absent == [class |-> "absent", intel |-> FALSE, multi |-> TRUE, secondary |-> 0]
Functions == [class : {"xhc", "bridge", "other"}, intel : BOOLEAN, multi : BOOLEAN,
              secondary : Buses] \cup {Absent}

\* The host bridge, function 0 of device 0 of bus 0, is always there.
ASSUME BusesAssumption == 0 \in Buses /\ Buses \subseteq Nat
\* A host bridge has a bus of the number of its function.
ASSUME CountsAssumption ==
    /\ MaxDevices \in Nat \ {0} /\ DeviceCount \in Nat \ {0} /\ FunctionCount \in Nat \ {0}
    /\ 0..(FunctionCount - 1) \subseteq Buses
ASSUME ConfigAssumption ==
    \A space \in ConfigSpaces : /\ space \in [Addresses -> Functions]
                                /\ space[<<0, 0, 0>>] # Absent

VARIABLES
    config,         \* the configuration space of this machine
    devices,        \* addresses of the functions registered, in order
    calls,          \* active calls of scan_bus, with the device and function next looked at
    root_function,  \* the loop of scan_all_bus over several host bridges
    pc,             \* "scan", then "find", and at last "found" or "panic"
    error,          \* what scan_all_bus returned
    i, xhc_device   \* of find_xhc_device; 0 is nullptr

vars == <<config, devices, calls, root_function, pc, error, i, xhc_device>>

Scan(bus) == [bus |-> bus, device |-> 0, function |-> 0]

\* scan_all_bus: one host bridge, or one for each function of device 0
Init ==
    /\ config \in ConfigSpaces
    /\ devices = <<>>
    /\ calls = IF config[<<0, 0, 0>>].multi THEN <<>> ELSE <<Scan(0)>>
    /\ root_function = IF config[<<0, 0, 0>>].multi THEN 1 ELSE FunctionCount
    /\ pc = "scan" /\ error = "none"
    /\ i = 1 /\ xhc_device = 0

-----------------------------------------------------------------------------
Here == Last(calls)
Address == <<Here.bus, Here.device, Here.function>>
Function == config[Address]

\* Some function of the bus remains to be looked at.
Looking == pc = "scan" /\ calls # <<>> /\ Here.device < DeviceCount

NextDevice == [bus |-> Here.bus, device |-> Here.device + 1, function |-> 0]
NextFunction == IF Here.function + 1 < FunctionCount
                THEN [Here EXCEPT !.function = @ + 1]
                ELSE NextDevice

\* A bug to be told from the code: an absent function is looked at again and again.
AfterAbsentStuck == IF Here.function = 0 THEN NextDevice ELSE Here

AfterAbsent == IF Here.function = 0 THEN NextDevice ELSE NextFunction

\* A bug to be told from the code: further functions are looked for only if function 0
\* says that there are none.
AfterPresentSwapped == IF Here.function = 0 /\ Function.multi THEN NextDevice ELSE NextFunction

AfterPresent == IF Here.function = 0 /\ ~Function.multi THEN NextDevice ELSE NextFunction

\* Goes on with the caller's loop at next and first, if any, with the calls in callees.
Continue(next, callees) == calls' = Append(Front(calls), next) \o callees

ScanAbsent ==
    /\ Looking /\ Function = Absent
    /\ Continue(AfterAbsent, <<>>)
    /\ UNCHANGED <<config, devices, root_function, pc, error, i, xhc_device>>

\* A bug to be told from the code: one entry beyond the array is used.
IsFullLate == Len(devices) = MaxDevices + 1

IsFull == Len(devices) = MaxDevices

\* scan_function: the function is registered, and a PCI-PCI bridge is followed.
ScanFunction ==
    /\ Looking /\ Function # Absent /\ ~IsFull
    /\ devices' = Append(devices, Address)
    /\ Continue(AfterPresent,
                IF Function.class = "bridge" THEN <<Scan(Function.secondary)>> ELSE <<>>)
    /\ UNCHANGED <<config, root_function, pc, error, i, xhc_device>>

\* Error::Full is handed through all the callers; kernel_main only logs it.
ScanFull ==
    /\ Looking /\ Function # Absent /\ IsFull
    /\ calls' = <<>> /\ pc' = "find" /\ error' = "Full"
    /\ UNCHANGED <<config, devices, root_function, i, xhc_device>>

ScanReturn ==
    /\ pc = "scan" /\ calls # <<>> /\ Here.device = DeviceCount
    /\ calls' = Front(calls)
    /\ UNCHANGED <<config, devices, root_function, pc, error, i, xhc_device>>

\* The next host bridge, whose bus has the number of its function
ScanRoot ==
    /\ pc = "scan" /\ calls = <<>> /\ root_function < FunctionCount
    /\ calls' = IF config[<<0, 0, root_function>>] = Absent THEN <<>> ELSE <<Scan(root_function)>>
    /\ root_function' = root_function + 1
    /\ UNCHANGED <<config, devices, pc, error, i, xhc_device>>

ScanDone ==
    /\ pc = "scan" /\ calls = <<>> /\ root_function = FunctionCount
    /\ pc' = "find" /\ error' = "Success"
    /\ UNCHANGED <<config, devices, calls, root_function, i, xhc_device>>

\* A bug to be told from the code: the search goes on after an Intel xHC.
StopsNever(function) == FALSE

Stops(function) == function.intel

\* find_xhc_device, one round of its loop
FindXhcDevice ==
    /\ pc = "find" /\ i <= Len(devices)
    /\ LET function == config[devices[i]]
       IN  /\ xhc_device' = IF function.class = "xhc" THEN i ELSE xhc_device
           /\ i' = IF function.class = "xhc" /\ Stops(function) THEN Len(devices) + 1 ELSE i + 1
    /\ UNCHANGED <<config, devices, calls, root_function, pc, error>>

FindDone ==
    /\ pc = "find" /\ i > Len(devices)
    /\ pc' = IF xhc_device = 0 THEN "panic" ELSE "found"
    /\ UNCHANGED <<config, devices, calls, root_function, error, i, xhc_device>>

Next == \/ ScanAbsent \/ ScanFunction \/ ScanFull \/ ScanReturn \/ ScanRoot \/ ScanDone
        \/ FindXhcDevice \/ FindDone

Spec == Init /\ [][Next]_vars
FairSpec == Spec /\ WF_vars(Next)

-----------------------------------------------------------------------------
(* Properties                                                               *)

\* The buses are numbered as firmware numbers them: every bus but bus 0 is behind at
\* most one bridge, and bus 0 is behind none.
Bridges == {a \in Addresses : config[a] # Absent /\ config[a].class = "bridge"}
WellNumbered == /\ \A a \in Bridges : config[a].secondary # 0
                /\ \A a, b \in Bridges : config[a].secondary = config[b].secondary => a = b

\* The functions of a bus that exist for software: function 0, and the others of a
\* device whose function 0 says that there are several.
VisibleOn(buses) ==
    {a \in Addresses : /\ a[1] \in buses /\ config[a] # Absent
                       /\ config[<<a[1], a[2], 0>>] # Absent
                       /\ a[3] > 0 => config[<<a[1], a[2], 0>>].multi}

\* The buses behind bus 0: the least set of buses that its bridges do not leave.
ReachableBuses ==
    LET closed == {S \in SUBSET Buses :
                     0 \in S /\ \A a \in Bridges \cap VisibleOn(S) : config[a].secondary \in S}
    IN  {b \in Buses : \A S \in closed : b \in S}

\* The device array never overflows (add_device), it holds functions that exist, and
\* with well-numbered buses none of them twice.
DevicesSound ==
    /\ Len(devices) <= MaxDevices
    /\ \A k \in DOMAIN devices : config[devices[k]] # Absent
    /\ WellNumbered /\ ~config[<<0, 0, 0>>].multi =>
          \A k, m \in DOMAIN devices : devices[k] = devices[m] => k = m

RegisteredFunctions == {devices[k] : k \in DOMAIN devices}

\* Below a single host bridge, a scan that reports success has registered every
\* function that can be reached, through any chain of bridges and whatever other
\* functions the bridges' devices have; and on a well-numbered machine it is given up
\* only for want of room, with the array full and a function left (scan_device,
\* scan_function). A host bridge of several functions is left out: scan_all_bus then
\* begins with function 1 and does not scan bus 0.
ScanComplete ==
    ~config[<<0, 0, 0>>].multi =>
        /\ error = "Success" => RegisteredFunctions = VisibleOn(ReachableBuses)
        /\ error = "Full" /\ WellNumbered =>
              /\ Len(devices) = MaxDevices
              /\ \E a \in VisibleOn(ReachableBuses) : a \notin RegisteredFunctions
=============================================================================
