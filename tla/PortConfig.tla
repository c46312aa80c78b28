----------------------------- MODULE PortConfig -----------------------------
(***************************************************************************)
(* The root-hub port configuration protocol of the xHCI driver             *)
(* (kernel/usb/xhci/xhci.cpp with port.cpp, devmgr.cpp, device.cpp and the *)
(* class-independent usb/device.cpp and usb/classdriver/hid.cpp).          *)
(*                                                                         *)
(* One driver thread runs the boot loop of kernel_main and then processes  *)
(* the event ring.  The host controller and the ports run concurrently: a  *)
(* device may be plugged in or out at any moment, also while the driver    *)
(* spins in Port::Reset.  The rings are ideal FIFOs here; ProducerRing and *)
(* EventLoop justify that.                                                 *)
(***************************************************************************)
EXTENDS Naturals, Sequences, FiniteSets

CONSTANTS
    MaxPorts,    \* xhc.MaxPorts(): root hub ports are numbered 1..MaxPorts
    MaxSlots,    \* kDeviceSize: device slots enabled in CONFIG
    Kinds,       \* the devices around, each named by what its descriptors offer: the
                 \* number of endpoint numbers that the first supported HID interface
                 \* occupies, 0 when no interface is supported
    MaxPlugs,    \* bound on the devices plugged in
    MaxUnplugs,  \* bound on the devices pulled out
    MaxReports   \* bound on the interrupt reports the devices send

ASSUME PortsAssumption == MaxPorts \in 1..255
ASSUME SlotsAssumption == MaxSlots \in 1..255
ASSUME KindsAssumption == Kinds \subseteq 0..15
ASSUME BoundsAssumption == MaxPlugs \in Nat /\ MaxUnplugs \in Nat /\ MaxReports \in Nat

Ports == 1..MaxPorts
Slots == 1..MaxSlots
SlotIndex == 0..MaxSlots    \* indices of devices_ and of the DCBAA
NoPort == 0                 \* the value of addressing_port when no port is in turn

Phases == {"NotConnected", "WaitingAddressed", "ResettingPort", "EnablingSlot",
           "AddressingDevice", "InitializingDevice", "ConfiguringEndpoints", "Configured"}

\* The phases from reset to address assignment, which one port at a time may be in.
InTurn == {"ResettingPort", "EnablingSlot", "AddressingDevice"}

Requests == {"GetDeviceDescriptor", "GetConfigDescriptor", "SetConfiguration",
             "SetProtocol", "InterruptIn"}

Commands == [type : {"EnableSlot"}, slot : {0}, port : {NoPort}]
       \cup [type : {"AddressDevice"}, slot : SlotIndex, port : Ports]
       \cup [type : {"ConfigureEndpoint"}, slot : SlotIndex, port : {NoPort}]

Events == [type : {"PortStatusChange"}, port : Ports]
     \cup [type : {"CommandCompletion"}, slot : SlotIndex,
           issuer : {"EnableSlot", "AddressDevice", "ConfigureEndpoint"}]
     \cup [type : {"Transfer"}, slot : SlotIndex, request : Requests,
           success : BOOLEAN, data : 0..15]

\* usb::xhci::Device: allocated or not, initialize_phase_ of the device (4 means
\* is_initialized_), the number of class_drivers_ entries that hold the HID
\* driver, and initialize_phase_ of that driver.
DeviceRecords == [alloc : BOOLEAN, initialize_phase : 0..4, class_drivers : 0..15,
                  hid_phase : 0..2]

NoDevice == [alloc |-> FALSE, initialize_phase |-> 0, class_drivers |-> 0, hid_phase |-> 0]

\* What the driver does when ResetPort returns to its caller.
Continuations == [to : {"boot", "pop"}]
            \cup [to : {"initialize"}, port : Ports, slot : SlotIndex]

VARIABLES
    \* PORTSC of every port: the ports whose CCS, PED, CSC, PRC and PR are 1
    connected, enabled, connect_change, reset_change, resetting,
    kind,               \* the descriptors of the device attached to a port
    addressed,          \* ports whose device was given a USB address
    slots_in_use,       \* slots the controller has enabled
    commands,           \* command ring, oldest first
    events,             \* event ring, oldest first
    ep0,                \* control requests on the EP0 transfer ring of a slot
    armed,              \* Normal TRBs on the interrupt-in ring of a slot
    port_config_phase, addressing_port,
    devices, dcbaa,
    root_hub_port_num,  \* of the output device context, written by the controller
    pc, boot_port, continuation,
    plugs, unplugs, reports

registers == <<connected, enabled, connect_change, reset_change, resetting>>
attached == <<kind, addressed, plugs, unplugs>>
controller == <<slots_in_use, root_hub_port_num, reports>>
transfers == <<ep0, armed>>
driver == <<port_config_phase, addressing_port, devices, dcbaa, pc, boot_port, continuation>>
vars == <<registers, attached, controller, transfers, driver, commands, events>>

Init ==
    /\ connected = {} /\ enabled = {} /\ connect_change = {} /\ reset_change = {}
    /\ resetting = {}
    /\ kind = [p \in Ports |-> 0] /\ addressed = {}
    /\ slots_in_use = {} /\ root_hub_port_num = [s \in SlotIndex |-> NoPort]
    /\ commands = <<>> /\ events = <<>>
    /\ ep0 = [s \in SlotIndex |-> <<>>] /\ armed = [s \in SlotIndex |-> 0]
    /\ port_config_phase = [p \in 0..MaxPorts |-> "NotConnected"]
    /\ addressing_port = NoPort
    /\ devices = [s \in SlotIndex |-> NoDevice]
    /\ dcbaa = [s \in SlotIndex |-> IF s = 0 THEN "scratchpad" ELSE "null"]
    /\ pc = "boot" /\ boot_port = 1 /\ continuation = [to |-> "boot"]
    /\ plugs = 0 /\ unplugs = 0 /\ reports = 0

-----------------------------------------------------------------------------
(* Ports and controller (external to src/): what the driver relies on.     *)

\* A port status change event is raised when the first of a port's change bits
\* is set; further changes are silent until the driver has cleared the bits.
RaisePortStatusChange(p) ==
    events' = IF p \in connect_change \cup reset_change
              THEN events
              ELSE Append(events, [type |-> "PortStatusChange", port |-> p])

Plug(p, k) ==
    /\ plugs < MaxPlugs /\ p \notin connected
    /\ connected' = connected \cup {p}
    /\ kind' = [kind EXCEPT ![p] = k]
    /\ RaisePortStatusChange(p)
    /\ connect_change' = connect_change \cup {p}
    /\ plugs' = plugs + 1
    /\ UNCHANGED <<enabled, reset_change, resetting, addressed, unplugs, controller,
                   transfers, driver, commands>>

Unplug(p) ==
    /\ unplugs < MaxUnplugs /\ p \in connected
    /\ connected' = connected \ {p}
    /\ enabled' = enabled \ {p}
    /\ resetting' = resetting \ {p}
    /\ addressed' = addressed \ {p}
    /\ RaisePortStatusChange(p)
    /\ connect_change' = connect_change \cup {p}
    /\ unplugs' = unplugs + 1
    /\ UNCHANGED <<reset_change, kind, plugs, controller, transfers, driver, commands>>

HcResetDone(p) ==
    /\ p \in resetting
    /\ resetting' = resetting \ {p}
    /\ enabled' = enabled \cup {p}
    /\ RaisePortStatusChange(p)
    /\ reset_change' = reset_change \cup {p}
    /\ UNCHANGED <<connected, connect_change, attached, controller, transfers, driver, commands>>

Complete(issuer, s) ==
    /\ commands' = Tail(commands)
    /\ events' = Append(events, [type |-> "CommandCompletion", slot |-> s, issuer |-> issuer])

\* The completion carries a free slot, or slot 0 and an error code if there is none.
HcEnableSlot ==
    /\ commands # <<>> /\ Head(commands).type = "EnableSlot"
    /\ \E s \in IF Slots \subseteq slots_in_use THEN {0} ELSE Slots \ slots_in_use :
          /\ slots_in_use' = slots_in_use \cup ({s} \ {0})
          /\ Complete("EnableSlot", s)
    /\ UNCHANGED <<registers, attached, root_hub_port_num, reports, transfers, driver>>

\* On success the device takes its address and the controller copies the slot
\* context.  A device that is gone, or slot 0, makes the command fail; whether
\* the copy was made by then is left open.
HcAddressDevice ==
    /\ commands # <<>> /\ Head(commands).type = "AddressDevice"
    /\ LET c == Head(commands)
           succeeds == c.slot # 0 /\ c.port \in enabled
       IN /\ addressed' = IF succeeds THEN addressed \cup {c.port} ELSE addressed
          /\ \E copied \in IF succeeds THEN {TRUE} ELSE {FALSE, c.slot # 0} :
                root_hub_port_num' =
                    IF copied THEN [root_hub_port_num EXCEPT ![c.slot] = c.port]
                              ELSE root_hub_port_num
          /\ Complete("AddressDevice", c.slot)
    /\ UNCHANGED <<registers, kind, plugs, unplugs, slots_in_use, reports, transfers, driver>>

HcConfigureEndpoint ==
    /\ commands # <<>> /\ Head(commands).type = "ConfigureEndpoint"
    /\ Complete("ConfigureEndpoint", Head(commands).slot)
    /\ UNCHANGED <<registers, attached, controller, transfers, driver>>

\* The device of slot s answers at the address it was given.
Answers(s) == root_hub_port_num[s] \in addressed

TransferEvent(s, req) ==
    [type |-> "Transfer", slot |-> s, request |-> req, success |-> Answers(s),
     data |-> IF Answers(s) THEN kind[root_hub_port_num[s]] ELSE 0]

\* A failed control transfer halts the endpoint: what is queued behind it stays unexecuted.
HcControlTransfer(s) ==
    /\ ep0[s] # <<>>
    /\ ep0' = [ep0 EXCEPT ![s] = IF Answers(s) THEN Tail(@) ELSE <<>>]
    /\ events' = Append(events, TransferEvent(s, Head(ep0[s])))
    /\ UNCHANGED <<registers, attached, controller, armed, driver, commands>>

HcInterruptTransfer(s) ==
    /\ armed[s] > 0
    /\ reports < MaxReports
    /\ reports' = reports + 1
    /\ armed' = [armed EXCEPT ![s] = @ - 1]
    /\ events' = Append(events, TransferEvent(s, "InterruptIn"))
    /\ UNCHANGED <<registers, attached, slots_in_use, root_hub_port_num, ep0, driver, commands>>

-----------------------------------------------------------------------------
(* The driver.                                                             *)

\* ResetPort queues a connected port while another port has its turn ...
MustWait(p, busy) == p \in connected /\ busy # NoPort

\* ... and resets it otherwise.
\* Mutant: addressing_port is not looked at.
MayResetAlways(p, busy) ==
    p \in connected /\ port_config_phase[p] \in {"NotConnected", "WaitingAddressed"}

\* Mutant: the turn counts as free once the Address Device command is issued.
MayResetEarly(p, busy) ==
    /\ p \in connected
    /\ busy = NoPort \/ port_config_phase[busy] = "AddressingDevice"
    /\ port_config_phase[p] \in {"NotConnected", "WaitingAddressed"}

MayReset(p, busy) ==
    /\ p \in connected
    /\ busy = NoPort
    /\ port_config_phase[p] \in {"NotConnected", "WaitingAddressed"}

\* Port::Reset starts the reset; the write that sets PR also clears CSC.
Reset(p) ==
    /\ connect_change' = connect_change \ {p}
    /\ resetting' = resetting \cup {p}
    /\ enabled' = enabled \ {p}
    /\ addressed' = addressed \ {p}

\* ResetPort(xhc, port) called when addressing_port holds busy.  The rest of the
\* caller, cont, runs when Port::Reset has seen PR fall back to 0 (ResetPortReturns).
ResetPort(p, busy, cont) ==
    LET waits == MustWait(p, busy)
        resets == MayReset(p, busy)
    IN /\ addressing_port' = IF resets THEN p ELSE busy
       /\ port_config_phase' =
              [port_config_phase EXCEPT ![p] = IF resets THEN "ResettingPort"
                                               ELSE IF waits THEN "WaitingAddressed" ELSE @]
       /\ IF resets THEN Reset(p)
                    ELSE UNCHANGED <<connect_change, resetting, enabled, addressed>>
       /\ pc' = "ResetPort"
       /\ continuation' = cont

\* The condition of the port loop of kernel_main.
\* Mutant: the loop runs one port too far.
BootLoopTooFar == boot_port <= MaxPorts + 1

BootLoop == boot_port <= MaxPorts

\* One iteration of the port loop of kernel_main; ConfigurePort resets the port
\* if it was not touched yet.
BootConfigurePort ==
    /\ pc = "boot" /\ BootLoop
    /\ IF /\ boot_port \in connected
          /\ port_config_phase[boot_port] = "NotConnected"
       THEN /\ ResetPort(boot_port, addressing_port, [to |-> "boot"])
            /\ UNCHANGED boot_port
       ELSE /\ boot_port' = boot_port + 1
            /\ UNCHANGED <<registers, addressed, port_config_phase, addressing_port, pc,
                           continuation>>
    /\ UNCHANGED <<reset_change, connected, kind, plugs, unplugs, controller, transfers,
                   devices, dcbaa, commands, events>>

EnterMainLoop ==
    /\ pc = "boot" /\ ~BootLoop
    /\ pc' = "main"
    /\ UNCHANGED <<registers, attached, controller, transfers, port_config_phase,
                   addressing_port, devices, dcbaa, boot_port, continuation, commands, events>>

\* The main loop finds no event.
MainLoopIdle ==
    /\ pc = "main" /\ events = <<>>
    /\ UNCHANGED vars

\* The requests that the driver puts on the transfer rings of slot s: setup, data and
\* status stages of a control transfer, or one Normal TRB, and the doorbell.
ControlIn(s, request) == ep0' = [ep0 EXCEPT ![s] = Append(@, request)]

ControlOut(s, requests) == ep0' = [ep0 EXCEPT ![s] = @ \o requests]

InterruptIn(s) == armed' = [armed EXCEPT ![s] = @ + 1]

\* StartInitialize asks for the device descriptor.
StartInitialize(s) ==
    /\ devices' = [devices EXCEPT ![s].initialize_phase = 1]
    /\ ControlIn(s, "GetDeviceDescriptor")

InitializeDevice(p, s) ==
    /\ port_config_phase' = [port_config_phase EXCEPT ![p] = "InitializingDevice"]
    /\ StartInitialize(s)

\* The loop in Port::Reset ends and ResetPort returns: the boot loop goes on,
\* ProcessEvent pops the event, or OnEvent(CommandCompletion) first initializes
\* the device that has just been addressed.
ResetPortReturns ==
    /\ pc = "ResetPort" /\ resetting = {}
    /\ IF continuation.to = "boot"
       THEN /\ pc' = "boot" /\ boot_port' = boot_port + 1
            /\ UNCHANGED <<events, port_config_phase, devices, ep0>>
       ELSE /\ pc' = "main" /\ UNCHANGED boot_port
            /\ events' = Tail(events)
            /\ IF continuation.to = "initialize"
               THEN InitializeDevice(continuation.port, continuation.slot)
               ELSE UNCHANGED <<port_config_phase, devices, ep0>>
    /\ UNCHANGED <<registers, attached, controller, armed, addressing_port, dcbaa,
                   continuation, commands>>

\* ProcessEvent has an event of this type at the front of the event ring.
Processing(type) == pc = "main" /\ events # <<>> /\ Head(events).type = type

Pop == events' = Tail(events) /\ UNCHANGED <<pc, boot_port, continuation>>

\* Mutant: the port stays in ResettingPort until the command completes.
EnableSlotPhaseForgotten(p) ==
    IF p \in enabled /\ p \in reset_change
    THEN /\ reset_change' = reset_change \ {p}
         /\ commands' = Append(commands, [type |-> "EnableSlot", slot |-> 0, port |-> NoPort])
         /\ UNCHANGED port_config_phase
    ELSE UNCHANGED <<reset_change, port_config_phase, commands>>

EnableSlot(p) ==
    IF p \in enabled /\ p \in reset_change
    THEN /\ reset_change' = reset_change \ {p}
         /\ port_config_phase' = [port_config_phase EXCEPT ![p] = "EnablingSlot"]
         /\ commands' = Append(commands, [type |-> "EnableSlot", slot |-> 0, port |-> NoPort])
    ELSE UNCHANGED <<reset_change, port_config_phase, commands>>

\* The case kNotConnected of OnEvent(PortStatusChange).
\* Mutant: every phase but ResettingPort leads to ResetPort.
StartsPortAlways(p) == port_config_phase[p] # "ResettingPort"

StartsPort(p) == port_config_phase[p] = "NotConnected"

PortStatusChangeNotConnected ==
    /\ Processing("PortStatusChange")
    /\ LET p == Head(events).port
       IN /\ StartsPort(p)
          /\ ResetPort(p, addressing_port, [to |-> "pop"])
    /\ UNCHANGED <<connected, reset_change, kind, plugs, unplugs, controller, transfers,
                   devices, dcbaa, boot_port, commands, events>>

PortStatusChangeResetting ==
    /\ Processing("PortStatusChange")
    /\ LET p == Head(events).port
       IN /\ port_config_phase[p] = "ResettingPort"
          /\ EnableSlot(p)
    /\ Pop
    /\ UNCHANGED <<connected, enabled, connect_change, resetting, attached, controller,
                   transfers, addressing_port, devices, dcbaa>>

\* Any other phase: kInvalidPhase, the change is ignored and its bit stays set.
PortStatusChangeInvalidPhase ==
    /\ Processing("PortStatusChange")
    /\ port_config_phase[Head(events).port] \notin {"NotConnected", "ResettingPort"}
    /\ Pop
    /\ UNCHANGED <<registers, attached, controller, transfers, port_config_phase,
                   addressing_port, devices, dcbaa, commands>>

FindBySlot(s) == devices[s].alloc

\* A no-op if the slot already has a device: the caller goes on with that one.
AllocDevice(s) == devices' = [devices EXCEPT ![s].alloc = TRUE]

LoadDCBAA(s) == dcbaa' = [dcbaa EXCEPT ![s] = "device_context"]

\* The input context for port p is filled in and the Address Device command issued.
AddressDevice(p, s) ==
    /\ AllocDevice(s)
    /\ LoadDCBAA(s)
    /\ port_config_phase' = [port_config_phase EXCEPT ![p] = "AddressingDevice"]
    /\ commands' = Append(commands, [type |-> "AddressDevice", slot |-> s, port |-> p])

SlotEnabled ==
    /\ Processing("CommandCompletion") /\ Head(events).issuer = "EnableSlot"
    /\ IF port_config_phase[addressing_port] = "EnablingSlot"
       THEN AddressDevice(addressing_port, Head(events).slot)
       ELSE UNCHANGED <<devices, dcbaa, port_config_phase, commands>>
    /\ Pop
    /\ UNCHANGED <<registers, attached, controller, transfers, addressing_port>>

\* Mutant: the loop that looks for a waiting port starts one port too late.
WaitingPortsButFirst == {p \in 2..MaxPorts : port_config_phase[p] = "WaitingAddressed"}

WaitingPorts == {p \in Ports : port_config_phase[p] = "WaitingAddressed"}

\* The port of a device, as the completion handlers look it up.
\* Mutant: the port in turn is taken without asking the device context.
PortInTurn(s) == addressing_port

PortOf(s) == root_hub_port_num[s]

\* addressing_port is released and the first waiting port, if any, takes its turn;
\* then the addressed device is initialized.
DeviceAddressed ==
    /\ Processing("CommandCompletion") /\ Head(events).issuer = "AddressDevice"
    /\ LET s == Head(events).slot
           p == PortOf(s)
       IN \/ /\ FindBySlot(s) /\ p = addressing_port
             /\ port_config_phase[p] = "AddressingDevice"
             /\ \E w \in WaitingPorts :
                   /\ \A v \in WaitingPorts : w <= v
                   /\ ResetPort(w, NoPort, [to |-> "initialize", port |-> p, slot |-> s])
             /\ UNCHANGED <<devices, ep0, boot_port, events>>
          \/ /\ FindBySlot(s) /\ p = addressing_port
             /\ port_config_phase[p] = "AddressingDevice"
             /\ WaitingPorts = {}
             /\ addressing_port' = NoPort
             /\ InitializeDevice(p, s)
             /\ Pop
             /\ UNCHANGED <<connect_change, resetting, enabled, addressed>>
          \/ /\ ~(/\ FindBySlot(s) /\ p = addressing_port
                  /\ port_config_phase[p] = "AddressingDevice")
             /\ Pop
             /\ UNCHANGED <<addressing_port, port_config_phase, devices, ep0, connect_change,
                            resetting, enabled, addressed>>
    /\ UNCHANGED <<connected, reset_change, kind, plugs, unplugs, controller, armed, dcbaa,
                   commands>>

\* CompleteConfiguration: Device::OnEndpointsConfigured calls the HID driver once
\* for every class_drivers_ entry that holds it, and each call issues SetProtocol.
EndpointsConfigured ==
    /\ Processing("CommandCompletion") /\ Head(events).issuer = "ConfigureEndpoint"
    /\ LET s == Head(events).slot
           p == PortOf(s)
       IN IF FindBySlot(s) /\ port_config_phase[p] = "ConfiguringEndpoints"
          THEN /\ devices' = [devices EXCEPT ![s].hid_phase = 1]
               /\ ControlOut(s, [i \in 1..devices[s].class_drivers |-> "SetProtocol"])
               /\ port_config_phase' = [port_config_phase EXCEPT ![p] = "Configured"]
          ELSE UNCHANGED <<devices, ep0, port_config_phase>>
    /\ Pop
    /\ UNCHANGED <<registers, attached, controller, armed, addressing_port, dcbaa, commands>>

\* ConfigureEndpoints(xhc, dev): the port speed reads 0, an error, when the device
\* is gone; what the register reads for a port that is not enabled is left open.
ConfigureEndpoints(s) ==
    LET p == PortOf(s)
    IN \E speed_known \in IF p \in enabled THEN {TRUE} ELSE BOOLEAN :
          IF speed_known
          THEN /\ port_config_phase' = [port_config_phase EXCEPT ![p] = "ConfiguringEndpoints"]
               /\ commands' = Append(commands, [type |-> "ConfigureEndpoint", slot |-> s,
                                                port |-> NoPort])
          ELSE UNCHANGED <<port_config_phase, commands>>

\* What OnEvent(Transfer) leaves alone in every branch.
TransferFrame ==
    /\ Pop
    /\ UNCHANGED <<registers, attached, controller, addressing_port, dcbaa>>

\* kTransferFailed: the event is dropped.
TransferFailed ==
    /\ Processing("Transfer") /\ ~Head(events).success
    /\ TransferFrame
    /\ UNCHANGED <<port_config_phase, devices, transfers, commands>>

\* HIDBaseDriver::OnInterruptCompleted takes the report and asks for the next one.
InterruptCompleted ==
    /\ Processing("Transfer") /\ Head(events).success
    /\ Head(events).request = "InterruptIn"
    /\ InterruptIn(Head(events).slot)
    /\ TransferFrame
    /\ UNCHANGED <<port_config_phase, devices, ep0, commands>>

\* SetProtocol has not been answered yet.
AwaitsProtocol(s) == devices[s].hid_phase = 1

\* Device::OnControlCompleted of an initialized device hands the completion to the
\* HID driver, HIDBaseDriver::OnControlCompleted.
HidControlCompleted ==
    /\ Processing("Transfer") /\ Head(events).success
    /\ Head(events).request # "InterruptIn"
    /\ LET s == Head(events).slot
       IN /\ devices[s].initialize_phase = 4
          /\ IF AwaitsProtocol(s)
             THEN /\ devices' = [devices EXCEPT ![s].hid_phase = 2]
                  /\ InterruptIn(s)
             ELSE UNCHANGED <<devices, armed>>
    /\ TransferFrame
    /\ UNCHANGED <<port_config_phase, ep0, commands>>

\* InitializePhase1: the device descriptor arrived, ask for the configuration.
InitializePhase1(s) ==
    /\ devices[s].initialize_phase = 1 /\ Head(events).request = "GetDeviceDescriptor"
    /\ devices' = [devices EXCEPT ![s].initialize_phase = 2]
    /\ ControlIn(s, "GetConfigDescriptor")
    /\ UNCHANGED <<port_config_phase, commands>>

\* InitializePhase2: an unsupported device is left in phase 2 for good.
InitializePhase2(s) ==
    /\ devices[s].initialize_phase = 2 /\ Head(events).request = "GetConfigDescriptor"
    /\ IF Head(events).data = 0
       THEN UNCHANGED <<devices, ep0>>
       ELSE /\ devices' = [devices EXCEPT ![s].initialize_phase = 3,
                                          ![s].class_drivers = Head(events).data]
            /\ ControlOut(s, <<"SetConfiguration">>)
    /\ UNCHANGED <<port_config_phase, commands>>

\* InitializePhase3 completes the initialization, and OnEvent(Transfer) goes on to
\* configure the endpoints if the port is waiting for that.
InitializePhase3(s) ==
    /\ devices[s].initialize_phase = 3 /\ Head(events).request = "SetConfiguration"
    /\ devices' = [devices EXCEPT ![s].initialize_phase = 4]
    /\ IF port_config_phase[PortOf(s)] = "InitializingDevice"
       THEN ConfigureEndpoints(s)
       ELSE UNCHANGED <<port_config_phase, commands>>
    /\ UNCHANGED ep0

InitializationStep ==
    /\ Processing("Transfer") /\ Head(events).success
    /\ LET s == Head(events).slot
       IN InitializePhase1(s) \/ InitializePhase2(s) \/ InitializePhase3(s)
    /\ TransferFrame
    /\ UNCHANGED armed

-----------------------------------------------------------------------------

HcStep ==
    \/ \E p \in Ports : HcResetDone(p)
    \/ HcEnableSlot \/ HcAddressDevice \/ HcConfigureEndpoint
    \/ \E s \in Slots : HcControlTransfer(s)

ProcessEvent ==
    \/ PortStatusChangeNotConnected \/ PortStatusChangeResetting
    \/ PortStatusChangeInvalidPhase
    \/ SlotEnabled \/ DeviceAddressed \/ EndpointsConfigured
    \/ TransferFailed \/ InterruptCompleted \/ HidControlCompleted \/ InitializationStep

DriverStep ==
    \/ BootConfigurePort \/ EnterMainLoop \/ ResetPortReturns \/ ProcessEvent
    \/ MainLoopIdle

UserStep ==
    \/ \E p \in Ports, k \in Kinds : Plug(p, k)
    \/ \E p \in Ports : Unplug(p)
    \/ \E s \in Slots : HcInterruptTransfer(s)

Next == DriverStep \/ HcStep \/ UserStep

\* The driver thread never stops and the controller executes what it was given;
\* nothing obliges a user to touch a device.
Fairness == WF_vars(DriverStep) /\ WF_vars(HcStep)

Spec == Init /\ [][Next]_vars
FairSpec == Spec /\ Fairness

-----------------------------------------------------------------------------
(* Properties.                                                             *)

\* The parts of the type invariant: the ports, the controller with its queues, the driver.
PortTypes ==
    /\ connected \subseteq Ports /\ enabled \subseteq Ports /\ connect_change \subseteq Ports
    /\ reset_change \subseteq Ports /\ resetting \subseteq Ports /\ addressed \subseteq Ports
    /\ kind \in [Ports -> 0..15]
    /\ plugs \in 0..MaxPlugs /\ unplugs \in 0..MaxUnplugs

ControllerTypes ==
    /\ slots_in_use \subseteq Slots
    /\ root_hub_port_num \in [SlotIndex -> 0..MaxPorts]
    /\ reports \in 0..MaxReports

QueueTypes ==
    /\ commands \in Seq(Commands) /\ events \in Seq(Events)
    /\ ep0 \in [SlotIndex -> Seq(Requests)] /\ armed \in [SlotIndex -> Nat]

\* Index 0 of port_config_phase stands for no port and is never assigned.
PhaseMaps == {f \in [0..MaxPorts -> Phases] : f[NoPort] = "NotConnected"}

DriverTypes ==
    /\ port_config_phase \in PhaseMaps
    /\ addressing_port \in 0..MaxPorts
    /\ devices \in [SlotIndex -> DeviceRecords]
    /\ dcbaa \in [SlotIndex -> {"null", "scratchpad", "device_context"}]
    /\ pc \in {"boot", "ResetPort", "main"}
    /\ boot_port \in 1..(MaxPorts + 1)
    /\ continuation \in Continuations

\* Every variable stays in the range its C++ type and its use allow; no command,
\* event or transfer that the driver or the controller queues is malformed.
TypeOK == PortTypes /\ ControllerTypes /\ QueueTypes /\ DriverTypes

\* The port that OnEvent(CommandCompletion) has yet to move on from AddressingDevice
\* while it waits for the next port's reset.
HandedOver(p) ==
    pc = "ResetPort" /\ continuation.to = "initialize" /\ continuation.port = p

\* xhci.cpp says of addressing_port that it is the port whose steps from reset to
\* address assignment are running, 0 if there is none.  Between two handlers exactly
\* the port it names is in one of those phases, whatever is plugged or unplugged.
AddressingExclusion ==
    pc # "ResetPort" =>
        \A p \in Ports : port_config_phase[p] \in InTurn <=> addressing_port = p

\* From the start of a reset until the device has its address no other device is
\* reset or listens at the default address: the reason for the turns in ResetPort.
DefaultAddressUnique ==
    Cardinality(resetting \cup (enabled \ addressed)) <= 1

\* The events that ProcessEvent has not handled yet.
Unhandled == IF pc = "ResetPort" /\ continuation.to # "boot" THEN Tail(events) ELSE events

IsAddressingEvent(e) ==
    e.type = "CommandCompletion" /\ e.issuer \in {"EnableSlot", "AddressDevice"}

IsAddressingCommand(c) == c.type \in {"EnableSlot", "AddressDevice"}

\* Enable Slot and Address Device carry no port: their completions are matched with
\* addressing_port alone.  At most one of them is on its way, and it always finds
\* addressing_port in the phase that issued it, so no completion is ever taken for
\* another port's.
CompletionMatchesPhase ==
    LET cs == {i \in DOMAIN commands : IsAddressingCommand(commands[i])}
        es == {i \in DOMAIN Unhandled : IsAddressingEvent(Unhandled[i])}
        Awaited(issuer) == IF issuer = "EnableSlot" THEN "EnablingSlot" ELSE "AddressingDevice"
    IN /\ \A i, j \in cs : i = j
       /\ \A i, j \in es : i = j
       /\ cs = {} \/ es = {}
       /\ \A i \in cs : port_config_phase[addressing_port] = Awaited(commands[i].type)
       /\ \A i \in es : port_config_phase[addressing_port] = Awaited(Unhandled[i].issuer)

\* A port whose device has been addressed has exactly one device in the device
\* manager, found by the root hub port number that the handlers rely on.
OneDevicePerPort ==
    \A p \in Ports :
        port_config_phase[p] \in {"InitializingDevice", "ConfiguringEndpoints", "Configured"} =>
            Cardinality({s \in SlotIndex : devices[s].alloc /\ root_hub_port_num[s] = p}) = 1

\* The order of ConfigPhase, in which a port may skip only the wait.
Successor(from, to) ==
    to \in CASE from = "NotConnected" -> {"WaitingAddressed", "ResettingPort"}
             [] from = "WaitingAddressed" -> {"ResettingPort"}
             [] from = "ResettingPort" -> {"EnablingSlot"}
             [] from = "EnablingSlot" -> {"AddressingDevice"}
             [] from = "AddressingDevice" -> {"InitializingDevice"}
             [] from = "InitializingDevice" -> {"ConfiguringEndpoints"}
             [] from = "ConfiguringEndpoints" -> {"Configured"}
             [] OTHER -> {}

\* No late event takes a port back to an earlier phase or past one: ResetPort sets
\* WaitingAddressed without looking at the phase, so this rests on its callers.
PhasesInOrder ==
    [][\A p \in Ports :
          \/ port_config_phase'[p] = port_config_phase[p]
          \/ Successor(port_config_phase[p], port_config_phase'[p])]_vars

\* A port whose HID device delivers reports.
Operational(p) ==
    /\ port_config_phase[p] = "Configured"
    /\ \E s \in Slots : root_hub_port_num[s] = p /\ devices[s].hid_phase = 2

\* Without unplugging and with a slot for every device, every supported device that
\* is plugged in, before or during the boot loop or later, gets to work.
DevicesGetToWork ==
    \A p \in Ports : (p \in connected /\ kind[p] # 0) ~> Operational(p)

\* A port waiting for its turn while no port has it: "kWaitingAddressed" is said to
\* be waiting for the steps from reset to address assignment to be executed, so a
\* connected port must not wait when nothing is being executed.
IdleWaiterServed ==
    \A p \in Ports :
        (p \in WaitingPorts /\ p \in connected /\ addressing_port = NoPort)
            ~> (p \notin WaitingPorts \/ p \notin connected)

\* devmgr.hpp says of device_context_pointers_ that it can be used as DCBAAP's value:
\* entry 0 must keep the scratchpad buffer array that Controller::Initialize put there.
ScratchpadKept == dcbaa[0] = "scratchpad"

=============================================================================
