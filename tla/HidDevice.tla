----------------------------- MODULE HidDevice ------------------------------
(***************************************************************************)
(* A keyboard or a mouse from its descriptors to its reports: usb::Device   *)
(* (kernel/usb/device.cpp), ConfigureEndpoints (kernel/usb/xhci/xhci.cpp)   *)
(* and the class drivers (kernel/usb/classdriver/), while the controller     *)
(* works off the transfers and writes reports into the driver's buffer.      *)
(*                                                                         *)
(* A descriptor is a record that says where it begins and how long it        *)
(* claims to be, and buf_ the sequence of those that begin in it; the last    *)
(* one may be cut off.  pc = "lost" stands for whatever follows once the      *)
(* driver uses bytes that the device has not sent, an array beyond its end    *)
(* or a ring that does not exist, or stays at one descriptor for ever.        *)
(***************************************************************************)
EXTENDS Transfers, SequencesExt

CONSTANTS
    Devices,       \* the devices that may be plugged in
    BufferSize,    \* bytes of buf_, 256 in the code
    MaxEndpoints,  \* size of ep_configs_
    MaxWaiters,    \* size of event_waiters_
    MaxReports     \* bound: reports of the device

\* A descriptor as the reader takes it: what the bytes from offset on mean, if they are of
\* its type. length is its first byte, by which the reader goes on.
Descriptors ==
    [type : {"Configuration"}, offset : Nat, length : 0..255, value : 0..255]
    \cup [type : {"Interface"}, offset : Nat, length : 0..255, number : 0..255, class : 0..255,
          sub_class : 0..255, protocol : 0..255, num_endpoints : 0..255]
    \cup [type : {"Endpoint"}, offset : Nat, length : 0..255, number : 1..15, in : BOOLEAN,
          transfer_type : 0..3, interval : 0..255]
    \cup [type : {"HID"}, offset : Nat, length : 0..255, num_descriptors : 0..255]
    \cup [type : {"Other"}, offset : Nat, length : 0..255]

\* The descriptors of an answer of so many bytes: each begins where the one before it says
\* that it ends, up to the end of the answer or to one that says that it has no length.
Follow(c, bytes) ==
    /\ c # <<>> => c[1].offset = 0
    /\ \A k \in 1..(Len(c) - 1) :
          c[k].length > 0 /\ c[k + 1].offset = c[k].offset + c[k].length
    /\ \A j, k \in 1..Len(c) : j < k => c[j].offset + c[j].length <= c[k].offset
    /\ \A k \in 1..Len(c) : c[k].offset < bytes
    /\ bytes > 0 => c # <<>> /\ \/ c[Len(c)].length = 0
                                \/ c[Len(c)].offset + c[Len(c)].length >= bytes

\* A device: speed of its port, the descriptors of its configuration, the bytes that it
\* sends of them, and its reports
IsDevice(d) ==
    /\ d.speed \in 1..5 /\ d.bytes \in Nat
    /\ d.configuration \in Seq(Descriptors) /\ Follow(d.configuration, d.bytes)
    /\ d.reports \subseteq Seq(0..255)

ASSUME DevicesAssumption == \A d \in Devices : IsDevice(d)
ASSUME LimitsAssumption ==
    BufferSize \in Nat /\ MaxEndpoints \in Nat /\ MaxWaiters \in Nat /\ MaxReports \in Nat
\* The ring and setup_stage_map_ have room for SetProtocol of every endpoint number.
ASSUME RoomAssumption ==
    LET most == IF MaxEndpoints < 15 THEN MaxEndpoints ELSE 15
    IN 2 * most < RingSize /\ most <= MapSize /\ 3 < RingSize /\ 1 <= MapSize

VARIABLES
    device, plugged,           \* what was plugged in, one of Devices, and whether it still is
    pc,                        \* of the driver
    untold,                    \* class drivers that OnEndpointsConfigured still has to call
    buf,                       \* buf_ of the device: the descriptors in it
    initialize_phase, ep_configs, class_drivers, event_waiters,
    hid,                       \* the class driver
    port_config_phase, command,    \* of the port, and whether the controller is at it
    input_ctx,                 \* the endpoint contexts of the input context
    report, previous,          \* buf_ and previous_buf_ of the class driver
    sent,                      \* history: the reports of the device
    notified                   \* history: the calls of NotifyKeyPush and NotifyMouseMove

driver_vars == <<pc, untold>>
device_vars == <<buf, initialize_phase, ep_configs, class_drivers, event_waiters>>
config_vars == <<port_config_phase, command, input_ctx>>
report_vars == <<report, previous, sent, notified>>
vars == <<transfer_vars, device, plugged, driver_vars, device_vars, hid, config_vars, report_vars>>

GetDescriptor(type) == [request |-> "GetDescriptor", value |-> type, index |-> 0]
SetConfiguration(value) == [request |-> "SetConfiguration", value |-> value, index |-> 0]
SetProtocol(interface) == [request |-> "SetProtocol", value |-> 0, index |-> interface]

NoDriver == [kind |-> "none", interface |-> 0, phase |-> 0, ep_interrupt_in |-> 0]

\* InitializeDevice has called StartInitialize.
Init ==
    /\ TransfersInit
    /\ device \in Devices /\ plugged = TRUE /\ pc = "start" /\ untold = 0
    /\ buf = <<>> /\ initialize_phase = 0 /\ ep_configs = <<>> /\ class_drivers = {}
    /\ event_waiters = EmptyMap(MaxWaiters)
    /\ hid = NoDriver
    /\ port_config_phase = "InitializingDevice" /\ command = FALSE /\ input_ctx = <<>>
    /\ report = [i \in 0..7 |-> 0] /\ previous = [i \in 0..7 |-> 0]
    /\ sent = <<>> /\ notified = <<>>

StartInitialize ==
    /\ pc = "start" /\ pc' = "main"
    /\ initialize_phase' = 1
    /\ ep0' = ControlIn(ep0, GetDescriptor(1))
    /\ UNCHANGED <<executed, setup, transfer_rings, armed, events, halted, device, plugged, untold,
                   buf, ep_configs, class_drivers, event_waiters, hid, config_vars, report_vars>>

-----------------------------------------------------------------------------
(* The descriptors                                                          *)

\* len of InitializePhase2: what of the configuration has arrived
ConfigurationLength == Min({BufferSize, device.bytes})

\* The bytes from a descriptor on that have arrived
Arrived(k) == ConfigurationLength - buf[k].offset

\* The bytes of a descriptor that are looked at, in the search for an interface and behind
\* the interface. The log reads what a HID descriptor says of further ones.
SearchUses(d) == IF d.type = "Interface" THEN 8 ELSE 2
EndpointsUse(d) ==
    CASE d.type = "Endpoint" -> 7
      [] d.type = "HID" -> 6 + 3 * d.num_descriptors
      [] OTHER -> 2

\* NewClassDriver has a driver for the interface.
Supported(d) ==
    d.type = "Interface" /\ d.class = 3 /\ d.sub_class = 1 /\ d.protocol \in {1, 2}

\* Mutant: the loop over the interfaces is not left.
InterfaceAtLast == SelectLastInSubSeq(buf, 2, Len(buf), Supported)

\* The reader begins behind the configuration descriptor; 0 means none.
InterfaceAt == SelectInSubSeq(buf, 2, Len(buf), Supported)

NewClassDriver(d) ==
    [kind |-> IF d.protocol = 1 THEN "keyboard" ELSE "mouse", interface |-> d.number,
     phase |-> 0, ep_interrupt_in |-> 0]

\* EndpointID: number and direction, which is its index among the contexts too
Address(number, in) == 2 * number + (IF in THEN 1 ELSE 0)
Number(address) == address \div 2
IsIn(address) == address % 2 = 1

MakeEPConfig(d) ==
    [ep_id |-> Address(d.number, d.in), ep_type |-> d.transfer_type, interval |-> d.interval]

\* Mutant: the reader takes the last descriptor for one that is cut off.
EndpointsBehindShort(at) ==
    {j \in (at + 1)..(Len(buf) - 1) : buf[j].type = "Endpoint"}

\* Where the inner loop finds endpoint descriptors behind the interface
EndpointsBehind(at) == {j \in (at + 1)..Len(buf) : buf[j].type = "Endpoint"}

\* The n-th of them
NextEndpoint(at, n) ==
    CHOOSE j \in EndpointsBehind(at) : Cardinality({k \in EndpointsBehind(at) : k <= j}) = n

\* The search looks at a descriptor that has not arrived whole, or does not come to an end.
SearchBeyond(at) ==
    \/ \E k \in 2..(IF at = 0 THEN Len(buf) ELSE at) : Arrived(k) < SearchUses(buf[k])
    \/ at = 0 /\ buf[Len(buf)].length = 0

\* The descriptors, what has arrived of one, or ep_configs_ ends before the loop does.
ReadsBeyond(at) ==
    LET n == buf[at].num_endpoints
    IN ~(/\ n <= Cardinality(EndpointsBehind(at)) /\ n <= MaxEndpoints
         /\ n > 0 => \A k \in (at + 1)..NextEndpoint(at, n) :
                        Arrived(k) >= EndpointsUse(buf[k]))

\* Mutant: the loop goes on to the end of the buffer.
EndpointsReadAll(at) ==
    [i \in 1..Cardinality(EndpointsBehind(at)) |-> MakeEPConfig(buf[NextEndpoint(at, i)])]

EndpointsRead(at) ==
    [i \in 1..buf[at].num_endpoints |-> MakeEPConfig(buf[NextEndpoint(at, i)])]

-----------------------------------------------------------------------------
(* The initialization of the device                                         *)

\* A control request of the device is completed.
ControlCompleted == pc = "main" /\ Completed /\ Head(events).dci = 1 /\ Pop

\* It is the one that the phase waits for, and a descriptor is of the type wanted.
Expected(phase, request, type) ==
    /\ initialize_phase = phase
    /\ \E trb \in SetupStage : trb.request.request = request
    /\ type # "" => buf # <<>> /\ buf[1].type = type

\* The device descriptor is there; the configuration is asked for.
InitializePhase1 ==
    /\ ControlCompleted /\ Expected(1, "GetDescriptor", "Device")
    /\ initialize_phase' = 2
    /\ ep0' = ControlIn(Forgotten(ep0), GetDescriptor(2))
    /\ UNCHANGED <<executed, setup, transfer_rings, armed, halted, device, plugged, driver_vars, buf,
                   ep_configs, class_drivers, event_waiters, hid, config_vars, report_vars>>

InitializePhase2 ==
    /\ ControlCompleted /\ Expected(2, "GetDescriptor", "Configuration")
    /\ LET at == InterfaceAt
       IN \/ /\ at = 0 /\ ~SearchBeyond(at)    \* the device stays in this phase
             /\ ep0' = Forgotten(ep0)
             /\ UNCHANGED <<pc, initialize_phase, ep_configs, class_drivers, hid>>
          \/ /\ SearchBeyond(at) \/ (at # 0 /\ ReadsBeyond(at))
             /\ pc' = "lost"
             /\ UNCHANGED <<ep0, initialize_phase, ep_configs, class_drivers, hid>>
          \/ /\ at # 0 /\ ~SearchBeyond(at) /\ ~ReadsBeyond(at)
             /\ hid' = NewClassDriver(buf[at])
             /\ ep_configs' = EndpointsRead(at)
             /\ class_drivers' = {Number(c.ep_id) : c \in Range(EndpointsRead(at))}
             /\ initialize_phase' = 3
             /\ ep0' = ControlOut(Forgotten(ep0), SetConfiguration(buf[1].value))
             /\ UNCHANGED pc
    /\ UNCHANGED <<executed, setup, transfer_rings, armed, halted, device, plugged, untold, buf,
                   event_waiters, config_vars, report_vars>>

\* kInvalidPhase, or kNoCorrespondingSetupStage
InvalidPhase ==
    /\ ControlCompleted /\ initialize_phase < 4
    /\ ~Expected(1, "GetDescriptor", "Device")
    /\ ~Expected(2, "GetDescriptor", "Configuration")
    /\ ~Expected(3, "SetConfiguration", "")
    /\ ep0' = Forgotten(ep0)
    /\ UNCHANGED <<executed, setup, transfer_rings, armed, halted, device, plugged, driver_vars,
                   device_vars, hid, config_vars, report_vars>>

\* SetEndpoint of every configuration in turn: the last one counts.
SetEndpoints(configs) ==
    LET interrupt_ins == {i \in DOMAIN configs : configs[i].ep_type = 3 /\ IsIn(configs[i].ep_id)}
    IN [hid EXCEPT !.ep_interrupt_in =
           IF interrupt_ins = {} THEN @ ELSE configs[Max(interrupt_ins)].ep_id]

\* 2^n for the numbers that occur
ASSUME PowersAssumption == 2^0 = 1 /\ \A n \in 0..16 : 2^n \in Nat \ {0} /\ 2^(n + 1) = 2 * 2^n

\* The index of the highest bit that is set
MostSignificantBit(v) ==
    IF v = 0 THEN -1 ELSE CHOOSE k \in 0..7 : 2^k <= v /\ v < 2^(k + 1)

\* Mutant: for full and low speed the exponent is one of frames, not of microframes.
ConvertIntervalFrames(speed, type, interval) ==
    (IF speed \in {1, 2} THEN MostSignificantBit(interval) ELSE interval - 1) % 256

\* The 8 bits of the field, for full and low speed and for the other speeds
ConvertInterval(speed, type, interval) ==
    (IF speed \in {1, 2}
     THEN IF type = 1 THEN interval + 2 ELSE MostSignificantBit(interval) + 3
     ELSE interval - 1) % 256

\* The types of endpoint context: outwards, and 4 more inwards
ContextType(c) == IF c.ep_type = 0 THEN 4 ELSE c.ep_type + (IF IsIn(c.ep_id) THEN 4 ELSE 0)

Context(c) ==
    [ep_type |-> ContextType(c), interval |-> ConvertInterval(device.speed, c.ep_type, c.interval)]

\* The contexts of the configurations; of two for one endpoint the later one stays.
Contexts(configs) ==
    [d \in {c.ep_id : c \in Range(configs)} |->
        Context(configs[Max({i \in DOMAIN configs : configs[i].ep_id = d})])]

\* The speed is read from the port, where it may be 0 once the device is gone.
ConfigureEndpoints(configs) ==
    \/ /\ input_ctx' = Contexts(configs)
       /\ transfer_rings' = transfer_rings \cup DOMAIN Contexts(configs)
       /\ port_config_phase' = "ConfiguringEndpoints" /\ command' = TRUE
    \/ /\ ~plugged
       /\ UNCHANGED <<input_ctx, transfer_rings, port_config_phase, command>>

InitializePhase3 ==
    /\ ControlCompleted /\ Expected(3, "SetConfiguration", "")
    /\ hid' = SetEndpoints(ep_configs)
    /\ initialize_phase' = 4
    /\ ep0' = Forgotten(ep0)
    /\ IF port_config_phase = "InitializingDevice" THEN ConfigureEndpoints(ep_configs)
       ELSE UNCHANGED <<transfer_rings, config_vars>>
    /\ UNCHANGED <<executed, setup, armed, halted, device, plugged, driver_vars, buf, ep_configs,
                   class_drivers, event_waiters, report_vars>>

\* The command completes, and CompleteConfiguration calls OnEndpointsConfigured of the device.
CompleteConfiguration ==
    /\ pc = "main" /\ command /\ command' = FALSE
    /\ pc' = "configured" /\ untold' = Cardinality(class_drivers)
    /\ UNCHANGED <<transfer_vars, device, plugged, device_vars, hid, port_config_phase, input_ctx,
                   report_vars>>

\* OnEndpointsConfigured of the driver, once for every entry of class_drivers_ that holds it,
\* while the controller goes on
OnEndpointsConfigured ==
    /\ pc = "configured" /\ untold > 0 /\ untold' = untold - 1
    /\ hid' = [hid EXCEPT !.phase = 1]
    /\ event_waiters' = Put(event_waiters, SetProtocol(hid.interface), hid.kind)
    /\ ep0' = ControlOut(ep0, SetProtocol(hid.interface))
    /\ UNCHANGED <<executed, setup, transfer_rings, armed, events, halted, device, plugged, pc, buf,
                   initialize_phase, ep_configs, class_drivers, config_vars, report_vars>>

ConfigurationCompleted ==
    /\ pc = "configured" /\ untold = 0 /\ pc' = "main"
    /\ port_config_phase' = "Configured"
    /\ UNCHANGED <<transfer_vars, device, plugged, untold, device_vars, hid, command, input_ctx,
                   report_vars>>

-----------------------------------------------------------------------------
(* The class driver                                                         *)

\* Mutant: every completion asks for a report.
FirstCompletionAny == hid.phase >= 1

FirstCompletion == hid.phase = 1

\* OnControlCompleted of the device and of the driver that waits; without an interrupt
\* endpoint the ring is taken from outside of transfer_rings_.
HidControlCompleted ==
    /\ ControlCompleted /\ initialize_phase = 4
    /\ ep0' = Forgotten(ep0)
    /\ IF FirstCompletion /\ \E trb \in SetupStage : Get(event_waiters, trb.request) # {}
       THEN /\ hid' = [hid EXCEPT !.phase = 2]
            /\ IF hid.ep_interrupt_in = 0 THEN pc' = "lost" /\ UNCHANGED armed
               ELSE InterruptIn(hid.ep_interrupt_in) /\ UNCHANGED pc
       ELSE UNCHANGED <<hid, armed, pc>>
    /\ UNCHANGED <<executed, setup, transfer_rings, halted, device, plugged, untold, device_vars,
                   config_vars, report_vars>>

\* kTransferFailed
TransferFailed ==
    /\ pc = "main" /\ events # <<>> /\ ~Head(events).success
    /\ Pop
    /\ UNCHANGED <<ep0, executed, setup, transfer_rings, armed, halted, device, plugged, driver_vars,
                   device_vars, hid, config_vars, report_vars>>

\* Mutant: a key counts as held only at the same place.
HeldAtSamePlace(i, key) == previous[i] = key

\* The whole of the previous report is searched.
Held(i, key) == key \in Range(previous)

\* The keys that are notified, each by its place in the report, in whose order it happens
PushedKeys ==
    [i \in {i \in 2..7 : report[i] # 0 /\ ~Held(i, report[i])} |-> report[i]]

\* int8_t
Signed(byte) == IF byte < 128 THEN byte ELSE byte - 256

OnDataReceived ==
    IF hid.kind = "keyboard" THEN PushedKeys
    ELSE <<report[0], Signed(report[1]), Signed(report[2])>>

\* OnInterruptCompleted, during which the controller goes on: the report is evaluated,
\* kept, and the next one asked for.
Evaluate ==
    /\ pc = "main" /\ Completed /\ Head(events).dci # 1
    /\ IF Number(Head(events).dci) \in class_drivers /\ IsIn(Head(events).dci)
       THEN notified' = Append(notified, OnDataReceived) /\ pc' = "keep" /\ UNCHANGED events
       ELSE Pop /\ UNCHANGED <<notified, pc>>
    /\ UNCHANGED <<ep0, executed, setup, transfer_rings, armed, halted, device, plugged, untold,
                   device_vars, hid, config_vars, report, previous, sent>>

Keep ==
    /\ pc = "keep" /\ pc' = "rearm"
    /\ previous' = [i \in 0..7 |-> IF i < Head(events).length THEN report[i] ELSE previous[i]]
    /\ UNCHANGED <<transfer_vars, device, plugged, untold, device_vars, hid, config_vars, report, sent,
                   notified>>

Rearm ==
    /\ pc = "rearm" /\ pc' = "main"
    /\ InterruptIn(hid.ep_interrupt_in)
    /\ Pop
    /\ UNCHANGED <<ep0, executed, setup, transfer_rings, halted, device, plugged, untold, device_vars,
                   hid, config_vars, report_vars>>

-----------------------------------------------------------------------------
(* The controller and the device                                            *)

\* The descriptors of the configuration that begin in what arrives
Begun == {k \in 1..Len(device.configuration) :
            device.configuration[k].offset < ConfigurationLength}

\* What the device's answer leaves in buf_: the transfer ends with the answer or with the
\* buffer, wherever in a descriptor that is. An answer without a type leaves that of the
\* device descriptor.
Answer ==
    CASE setup = GetDescriptor(1) -> <<[type |-> "Device"]>>
      [] setup # GetDescriptor(1) /\ ConfigurationLength < 2 -> buf
      [] OTHER -> SubSeq(device.configuration, 1, Max(Begun))

HcControlTransfer ==
    \E success \in {FALSE, plugged} :
        /\ HcControl(success, 0)
        /\ buf' = IF success /\ ep0.trbs[Position(executed)].type = "Data" THEN Answer ELSE buf
        /\ UNCHANGED <<device, plugged, driver_vars, initialize_phase, ep_configs, class_drivers,
                       event_waiters, hid, config_vars, report_vars>>

\* in_packet_size_
PacketSize == IF hid.kind = "keyboard" THEN 8 ELSE 3

\* The device has a report: it is written over the one in the buffer.
HcReport ==
    /\ plugged /\ Len(sent) < MaxReports
    /\ \E dci \in Dcis, r \in device.reports :
          /\ Len(r) <= PacketSize
          /\ HcInterrupt(dci, TRUE, Len(r))
          /\ report' = [i \in 0..7 |-> IF i < Len(r) THEN r[i + 1] ELSE report[i]]
          /\ sent' = Append(sent, r)
    /\ UNCHANGED <<device, plugged, driver_vars, device_vars, hid, config_vars, previous, notified>>

HcReportFails ==
    /\ \E dci \in Dcis : HcInterrupt(dci, FALSE, 0)
    /\ UNCHANGED <<device, plugged, driver_vars, device_vars, hid, config_vars, report_vars>>

Unplug ==
    /\ plugged /\ plugged' = FALSE
    /\ UNCHANGED <<transfer_vars, device, driver_vars, device_vars, hid, config_vars, report_vars>>

Driver ==
    \/ StartInitialize \/ InitializePhase1 \/ InitializePhase2 \/ InvalidPhase
    \/ InitializePhase3 \/ CompleteConfiguration \/ OnEndpointsConfigured
    \/ ConfigurationCompleted \/ HidControlCompleted \/ TransferFailed \/ Evaluate \/ Keep \/ Rearm

Next == Driver \/ HcControlTransfer \/ HcReport \/ HcReportFails \/ Unplug

\* The main loop handles what there is, and the controller executes requests; a device
\* need not have reports.
Spec == Init /\ [][Next]_vars /\ WF_vars(Driver) /\ WF_vars(HcControlTransfer)

-----------------------------------------------------------------------------
(* Properties                                                               *)

\* The device, by its descriptors
Conf == device.configuration
SupportedInterfaces == {i \in 2..Len(Conf) : Supported(Conf[i])}
FirstInterface == Min(SupportedInterfaces)
EndpointsOf(i) ==
    {j \in (i + 1)..Len(Conf) :
        Conf[j].type = "Endpoint" /\ \A k \in (i + 1)..j : Conf[k].type # "Interface"}
HasInterruptIn(i) == \E j \in EndpointsOf(i) : Conf[j].transfer_type = 3 /\ Conf[j].in

\* Every descriptor is as long as its type wants it, and is sent whole.
LengthsRight ==
    \A k \in 1..Len(Conf) :
        /\ Conf[k].length >= SearchUses(Conf[k]) /\ Conf[k].length >= EndpointsUse(Conf[k])
        /\ Conf[k].offset + Conf[k].length <= device.bytes

\* The first supported interface is as the standards want it, and the buffer holds it.
WellFormed ==
    /\ LengthsRight
    /\ Conf # <<>> /\ Conf[1].type = "Configuration" /\ SupportedInterfaces # {}
    /\ LET i == FirstInterface
       IN /\ Cardinality(EndpointsOf(i)) = Conf[i].num_endpoints
          /\ Conf[i].num_endpoints <= MaxEndpoints
          /\ \A j \in EndpointsOf(i) : Conf[j].offset + Conf[j].length <= BufferSize
          /\ HasInterruptIn(i)
          /\ \A j, k \in EndpointsOf(i) :
                Conf[j].number = Conf[k].number /\ Conf[j].in = Conf[k].in => j = k
          /\ \A j \in EndpointsOf(i) : Conf[j].interval \in 1..(IF device.speed < 3 THEN 255 ELSE 16)

\* The parser uses no bytes but those that the device has sent, comes to an end, and leads
\* no transfer to a ring that does not exist, for these devices: one whose first supported
\* interface is as it should be and lies in the first BufferSize bytes with its endpoints,
\* whatever is cut off behind them; and one that the kernel has no driver for, as long as all
\* of its descriptors fit into buf_ and their lengths are right. Nothing in the code sees to
\* the rest: a descriptor that lies across the end of buf_ is read from what is behind it,
\* and a length of 0 is never left (ConfigurationDescriptorReader, DescriptorDynamicCast,
\* InitializePhase2, Device::InterruptIn).
NeverLost ==
    pc = "lost" =>
        \/ ~LengthsRight
        \/ IF SupportedInterfaces = {} THEN device.bytes > BufferSize ELSE ~WellFormed

\* The driver is that of the first supported interface, and what is configured are its
\* endpoints and nothing of the interfaces around it: in ep_configs_, class_drivers_, the
\* input context and the rings (InitializePhase2, InitializePhase3, ConfigureEndpoints).
FirstInterfaceServed ==
    WellFormed /\ initialize_phase >= 3 =>
        LET i == FirstInterface
            addresses == {Address(Conf[j].number, Conf[j].in) : j \in EndpointsOf(i)}
        IN /\ hid.kind = IF Conf[i].protocol = 1 THEN "keyboard" ELSE "mouse"
           /\ hid.interface = Conf[i].number
           /\ {c.ep_id : c \in Range(ep_configs)} = addresses
           /\ class_drivers = {Conf[j].number : j \in EndpointsOf(i)}
           /\ port_config_phase # "InitializingDevice" =>
                 /\ DOMAIN input_ctx = addresses
                 /\ transfer_rings = addresses \cup {1}
                 /\ input_ctx[hid.ep_interrupt_in].ep_type = 7

\* What the input context says of an interrupt endpoint, an exponent of microframes, is what
\* its descriptor asks for at the speed of the device, frames or an exponent, rounded down to
\* a power of two (ConfigureEndpoints, convert_interval). The comment of
\* EndpointConfig::interval (usb/endpoint.hpp:65) gives it one meaning for all speeds,
\* 125 * 2^(interval - 1) microseconds; for full and low speed the code disagrees: it keeps
\* the byte of the descriptor there as it is (MakeEPConfig) and takes it for frames.
PolledInTime ==
    WellFormed =>
        \A j \in EndpointsOf(FirstInterface) :
            LET address == Address(Conf[j].number, Conf[j].in)
                asked == IF device.speed \in {1, 2} THEN 8 * Conf[j].interval
                         ELSE 2^(Conf[j].interval - 1)
            IN Conf[j].transfer_type = 3 /\ address \in DOMAIN input_ctx =>
                  /\ 2^(input_ctx[address].interval) <= asked
                  /\ asked < 2^(input_ctx[address].interval + 1)

\* What a device has said with the first n of its reports, byte by byte
Said(reports, n) ==
    [b \in 0..7 |->
        LET S == {k \in 1..n : b < Len(reports[k])}
        IN IF S = {} THEN 0 ELSE reports[Max(S)][b + 1]]

\* The keys that went down with report n, each by its place in it
NewKeys(reports, n) ==
    LET now == Said(reports, n)
        before == Said(reports, n - 1)
    IN [b \in {b \in 2..7 : now[b] # 0 /\ \A c \in 0..7 : before[c] # now[b]} |-> now[b]]

Movement(reports, n) ==
    LET now == Said(reports, n) IN <<now[0], Signed(now[1]), Signed(now[2])>>

\* The successful interrupt transfers that wait to be handled
Waiting == {k \in DOMAIN events : events[k].dci # 1 /\ events[k].success}

Evaluated ==
    Len(sent) - Cardinality(Waiting) + (IF pc \in {"keep", "rearm"} THEN 1 ELSE 0)

\* Every report is notified once and unmixed with the one after it: for a mouse each
\* movement, for a keyboard the keys that were not down before. The modifiers of the report
\* before are taken for keys: with left Alt down, pressing A is lost (OnDataReceived,
\* OnInterruptCompleted).
ReportsNotified ==
    /\ Len(notified) = Evaluated
    /\ \A n \in 1..Evaluated :
          notified[n] = IF hid.kind = "keyboard" THEN NewKeys(sent, n) ELSE Movement(sent, n)

\* As long as its transfers succeed, a device that is as it should be is asked for a report
\* again and again (HIDBaseDriver).
KeepsPolling ==
    []<>(~WellFormed \/ ~plugged \/ halted # {} \/ \E d \in Dcis : armed[d] > 0)
=============================================================================
