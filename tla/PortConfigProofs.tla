--------------------------- MODULE PortConfigProofs ---------------------------
(***************************************************************************)
(* Type correctness of PortConfig, the exclusion that addressing_port      *)
(* provides, and what rests on it: completions are matched with the right  *)
(* port, one device at a time is at the default address, and every port    *)
(* that is past its turn has one device.  For every number of ports,       *)
(* slots, devices and reports.                                             *)
(***************************************************************************)
EXTENDS PortConfig, FiniteSetTheorems, TLAPS

\* What is true of the driver while ResetPort runs: the boot loop is within its
\* range, and an event under ProcessEvent has not been popped yet.
CallerOK ==
    pc = "ResetPort" =>
        /\ continuation.to = "boot" => boot_port <= MaxPorts
        /\ continuation.to # "boot" => events # <<>>

TypeInv == TypeOK /\ CallerOK

\* The operators that only name an assignment are expanded everywhere.
USE DEF Reset, ControlIn, ControlOut, InterruptIn, StartInitialize, FindBySlot, AllocDevice,
        LoadDCBAA

-----------------------------------------------------------------------------
(* The records that travel in the queues.                                  *)

\* A queue that is not empty has a well-formed front, and popping keeps it well-formed.
LEMMA QueueFront ==
    ASSUME NEW S, NEW q \in Seq(S), q # <<>>
    PROVE  Head(q) \in S /\ Tail(q) \in Seq(S)
  OBVIOUS

\* Appending a member keeps a queue well-formed and leaves it not empty.
LEMMA QueueAppend ==
    ASSUME NEW S, NEW q \in Seq(S), NEW x \in S
    PROVE  Append(q, x) \in Seq(S) /\ Append(q, x) # <<>>
  <1>1. Append(q, x) \in Seq(S) /\ Len(Append(q, x)) = Len(q) + 1 /\ Len(q) \in Nat
    OBVIOUS
  <1>2. Len(<<>>) = 0
    OBVIOUS
  <1> QED
    BY <1>1, <1>2

\* The fields of an event, by its type.
LEMMA EventFields ==
    ASSUME NEW e \in Events
    PROVE  /\ e.type = "PortStatusChange" => e.port \in Ports
           /\ e.type = "CommandCompletion" => e.slot \in SlotIndex
           /\ e.type = "Transfer" => /\ e.slot \in SlotIndex
                                     /\ e.request \in Requests
                                     /\ e.data \in 0..15
  BY DEF Events

\* The fields of a command.
LEMMA CommandFields ==
    ASSUME NEW c \in Commands
    PROVE  c.slot \in SlotIndex /\ (c.type = "AddressDevice" => c.port \in Ports)
  BY SlotsAssumption DEF Commands, SlotIndex

\* Every event that the controller or a port raises is well-formed.
LEMMA EventTypes ==
    /\ \A p \in Ports : [type |-> "PortStatusChange", port |-> p] \in Events
    /\ \A s \in SlotIndex, i \in {"EnableSlot", "AddressDevice", "ConfigureEndpoint"} :
           [type |-> "CommandCompletion", slot |-> s, issuer |-> i] \in Events
    /\ \A s \in SlotIndex, r \in Requests, b \in BOOLEAN, d \in 0..15 :
           [type |-> "Transfer", slot |-> s, request |-> r, success |-> b, data |-> d] \in Events
  BY DEF Events

\* The event of a transfer on slot s is well-formed whether or not the device answers.
LEMMA TransferEventType ==
    ASSUME PortTypes, ControllerTypes, NEW s \in SlotIndex, NEW r \in Requests
    PROVE  TransferEvent(s, r) \in Events
  <1>1. Answers(s) \in BOOLEAN
    BY DEF Answers
  <1>2. (IF Answers(s) THEN kind[root_hub_port_num[s]] ELSE 0) \in 0..15
    BY DEF Answers, PortTypes, ControllerTypes
  <1> QED
    BY <1>1, <1>2, EventTypes DEF TransferEvent

\* Every command that the driver issues is well-formed.
LEMMA CommandTypes ==
    /\ [type |-> "EnableSlot", slot |-> 0, port |-> NoPort] \in Commands
    /\ \A s \in SlotIndex, p \in Ports :
           [type |-> "AddressDevice", slot |-> s, port |-> p] \in Commands
    /\ \A s \in SlotIndex :
           [type |-> "ConfigureEndpoint", slot |-> s, port |-> NoPort] \in Commands
  BY DEF Commands

\* The indices 0..MaxPorts and 0..MaxSlots contain the ports and the slots.
LEMMA Indices ==
    /\ Ports \subseteq 0..MaxPorts /\ NoPort \in 0..MaxPorts /\ NoPort \notin Ports
    /\ Slots \subseteq SlotIndex /\ 0 \in SlotIndex
    /\ \A p \in 0..MaxPorts : p # NoPort => p \in Ports
  BY PortsAssumption, SlotsAssumption DEF Ports, Slots, SlotIndex, NoPort

-----------------------------------------------------------------------------
(* Type correctness.                                                       *)

\* The initial state of PortConfig is well-typed.
LEMMA InitTypeInv == Init => TypeInv
  <1>1. SUFFICES ASSUME Init PROVE TypeInv
    OBVIOUS
  <1>2. PortTypes
    BY <1>1, BoundsAssumption DEF Init, PortTypes
  <1>3. ControllerTypes
    BY <1>1, BoundsAssumption, Indices DEF Init, ControllerTypes
  <1>4. QueueTypes
    BY <1>1 DEF Init, QueueTypes
  <1>5. NoDevice \in DeviceRecords
    BY DEF NoDevice, DeviceRecords
  <1>6. DriverTypes
    BY <1>1, <1>5, PortsAssumption, Indices DEF Init, DriverTypes, PhaseMaps, Phases, Continuations, NoPort
  <1> QED
    BY <1>1, <1>2, <1>3, <1>4, <1>6 DEF Init, TypeInv, TypeOK, CallerOK

\* What CallerOK needs when the driver does not move: the queue does not become empty.
LEMMA CallerKept ==
    ASSUME CallerOK, UNCHANGED driver, events # <<>> => events' # <<>>
    PROVE  CallerOK'
  BY DEF CallerOK, driver

\* The parts of the type invariant depend on their own variables only.
LEMMA TypesKept ==
    /\ PortTypes /\ UNCHANGED <<registers, attached>> => PortTypes'
    /\ ControllerTypes /\ UNCHANGED controller => ControllerTypes'
    /\ QueueTypes /\ UNCHANGED <<commands, events, transfers>> => QueueTypes'
    /\ DriverTypes /\ UNCHANGED driver => DriverTypes'
  BY DEF PortTypes, registers, attached, ControllerTypes, controller, QueueTypes, transfers,
         DriverTypes, driver

\* A port status change keeps the event ring well-formed and never empties it.
LEMMA RaiseKeepsEvents ==
    ASSUME events \in Seq(Events), NEW p \in Ports, RaisePortStatusChange(p)
    PROVE  events' \in Seq(Events) /\ (events # <<>> => events' # <<>>)
  <1>1. [type |-> "PortStatusChange", port |-> p] \in Events
    BY EventTypes
  <1> QED
    BY <1>1, QueueAppend DEF RaisePortStatusChange

\* A step of a user or of a port keeps the types.
LEMMA UserTypeInv ==
    ASSUME TypeInv, UserStep
    PROVE  TypeInv'
  <1>a. PortTypes /\ ControllerTypes /\ QueueTypes /\ DriverTypes /\ CallerOK
    BY DEF TypeInv, TypeOK
  <1>b. events \in Seq(Events)
    BY <1>a DEF QueueTypes
  <1>2. ASSUME NEW p \in Ports, NEW k \in Kinds, Plug(p, k) PROVE TypeInv'
    <2>1. events' \in Seq(Events) /\ (events # <<>> => events' # <<>>)
      BY <1>b, <1>2, RaiseKeepsEvents DEF Plug
    <2>2. UNCHANGED <<controller, driver, transfers, commands>>
      BY <1>2 DEF Plug
    <2>3. PortTypes'
      BY <1>a, <1>2, KindsAssumption, BoundsAssumption DEF Plug, PortTypes
    <2>4. QueueTypes'
      BY <1>a, <2>1, <2>2 DEF QueueTypes, transfers
    <2> QED
      BY <1>a, <2>1, <2>2, <2>3, <2>4, TypesKept, CallerKept DEF TypeInv, TypeOK
  <1>3. ASSUME NEW p \in Ports, Unplug(p) PROVE TypeInv'
    <2>1. events' \in Seq(Events) /\ (events # <<>> => events' # <<>>)
      BY <1>b, <1>3, RaiseKeepsEvents DEF Unplug
    <2>2. UNCHANGED <<controller, driver, transfers, commands>>
      BY <1>3 DEF Unplug
    <2>3. PortTypes'
      BY <1>a, <1>3, BoundsAssumption DEF Unplug, PortTypes
    <2>4. QueueTypes'
      BY <1>a, <2>1, <2>2 DEF QueueTypes, transfers
    <2> QED
      BY <1>a, <2>1, <2>2, <2>3, <2>4, TypesKept, CallerKept DEF TypeInv, TypeOK
  <1>4. ASSUME NEW s \in Slots, HcInterruptTransfer(s) PROVE TypeInv'
    <2>1. TransferEvent(s, "InterruptIn") \in Events
      BY <1>a, TransferEventType, Indices DEF Requests
    <2>2. events' \in Seq(Events) /\ events' # <<>>
      BY <1>b, <1>4, <2>1, QueueAppend DEF HcInterruptTransfer
    <2>3. UNCHANGED <<registers, attached, driver, ep0, commands>>
      BY <1>4 DEF HcInterruptTransfer
    <2>4. armed' \in [SlotIndex -> Nat]
      BY <1>a, <1>4, Indices DEF HcInterruptTransfer, QueueTypes
    <2>5. QueueTypes'
      BY <1>a, <2>2, <2>3, <2>4 DEF QueueTypes
    <2>6. ControllerTypes'
      BY <1>a, <1>4, BoundsAssumption DEF HcInterruptTransfer, ControllerTypes
    <2> QED
      BY <1>a, <2>2, <2>3, <2>5, <2>6, TypesKept, CallerKept DEF TypeInv, TypeOK
  <1> QED
    BY <1>2, <1>3, <1>4 DEF UserStep

\* A step of the controller keeps the types.
LEMMA HcTypeInv ==
    ASSUME TypeInv, HcStep
    PROVE  TypeInv'
  <1>a. PortTypes /\ ControllerTypes /\ QueueTypes /\ DriverTypes /\ CallerOK
    BY DEF TypeInv, TypeOK
  <1>b. events \in Seq(Events) /\ commands \in Seq(Commands)
    BY <1>a DEF QueueTypes
  <1>2. ASSUME NEW p \in Ports, HcResetDone(p) PROVE TypeInv'
    <2>1. events' \in Seq(Events) /\ (events # <<>> => events' # <<>>)
      BY <1>b, <1>2, RaiseKeepsEvents DEF HcResetDone
    <2>2. UNCHANGED <<controller, driver, transfers, commands>>
      BY <1>2 DEF HcResetDone
    <2>3. PortTypes'
      BY <1>a, <1>2 DEF HcResetDone, PortTypes, attached
    <2>4. QueueTypes'
      BY <1>a, <2>1, <2>2 DEF QueueTypes, transfers
    <2> QED
      BY <1>a, <2>1, <2>2, <2>3, <2>4, TypesKept, CallerKept DEF TypeInv, TypeOK
  <1>3. ASSUME commands # <<>>, NEW i \in {"EnableSlot", "AddressDevice", "ConfigureEndpoint"},
               NEW s \in SlotIndex, Complete(i, s), UNCHANGED <<transfers, driver>>
        PROVE  QueueTypes' /\ DriverTypes' /\ CallerOK'
    <2>1. [type |-> "CommandCompletion", slot |-> s, issuer |-> i] \in Events
      BY EventTypes
    <2>2. events' \in Seq(Events) /\ events' # <<>>
      BY <1>b, <1>3, <2>1, QueueAppend DEF Complete
    <2>3. commands' \in Seq(Commands)
      BY <1>b, <1>3, QueueFront DEF Complete
    <2>4. QueueTypes'
      BY <1>a, <1>3, <2>2, <2>3 DEF QueueTypes, transfers
    <2> QED
      BY <1>a, <1>3, <2>2, <2>4, TypesKept, CallerKept
  <1>4. CASE HcEnableSlot
    <2>1. PICK s \in SlotIndex : /\ slots_in_use' = slots_in_use \cup ({s} \ {0})
                                 /\ Complete("EnableSlot", s)
      BY <1>4, Indices DEF HcEnableSlot
    <2>2. ControllerTypes'
      BY <1>a, <1>4, <2>1, Indices, SlotsAssumption
      DEF HcEnableSlot, ControllerTypes, Slots, SlotIndex
    <2>3. commands # <<>> /\ UNCHANGED <<transfers, driver, registers, attached>>
      BY <1>4 DEF HcEnableSlot
    <2> QED
      BY <1>a, <1>3, <2>1, <2>2, <2>3, TypesKept DEF TypeInv, TypeOK
  <1>5. CASE HcAddressDevice
    <2> DEFINE c == Head(commands)
    <2>1. commands # <<>> /\ c.type = "AddressDevice"
      BY <1>5 DEF HcAddressDevice
    <2>2. c.slot \in SlotIndex /\ c.port \in Ports
      BY <1>b, <2>1, QueueFront, CommandFields
    <2>3. UNCHANGED <<registers, kind, plugs, unplugs, slots_in_use, reports, transfers, driver>>
      BY <1>5 DEF HcAddressDevice
    <2>4. addressed' \subseteq Ports
      BY <1>a, <1>5, <2>2 DEF HcAddressDevice, PortTypes
    <2>5. PortTypes'
      BY <1>a, <2>3, <2>4 DEF PortTypes, registers
    <2>6. \/ root_hub_port_num' = root_hub_port_num
          \/ root_hub_port_num' = [root_hub_port_num EXCEPT ![c.slot] = c.port]
      BY <1>5 DEF HcAddressDevice
    <2>7. root_hub_port_num' \in [SlotIndex -> 0..MaxPorts]
      BY <1>a, <2>2, <2>6, Indices DEF ControllerTypes
    <2>8. ControllerTypes'
      BY <1>a, <2>3, <2>7 DEF ControllerTypes
    <2>9. Complete("AddressDevice", c.slot)
      BY <1>5 DEF HcAddressDevice
    <2> QED
      BY <1>3, <2>1, <2>2, <2>3, <2>5, <2>8, <2>9 DEF TypeInv, TypeOK
  <1>6. CASE HcConfigureEndpoint
    <2>1. commands # <<>> /\ Complete("ConfigureEndpoint", Head(commands).slot)
          /\ UNCHANGED <<registers, attached, controller, transfers, driver>>
      BY <1>6 DEF HcConfigureEndpoint
    <2>2. Head(commands).slot \in SlotIndex
      BY <1>b, <2>1, QueueFront, CommandFields
    <2> QED
      BY <1>a, <1>3, <2>1, <2>2, TypesKept DEF TypeInv, TypeOK
  <1>7. ASSUME NEW s \in Slots, HcControlTransfer(s) PROVE TypeInv'
    <2>1. ep0[s] \in Seq(Requests) /\ ep0[s] # <<>>
      BY <1>a, <1>7, Indices DEF HcControlTransfer, QueueTypes
    <2>2. Head(ep0[s]) \in Requests /\ Tail(ep0[s]) \in Seq(Requests)
      BY <2>1, QueueFront
    <2>3. TransferEvent(s, Head(ep0[s])) \in Events
      BY <1>a, <2>2, TransferEventType, Indices
    <2>4. events' \in Seq(Events) /\ events' # <<>>
      BY <1>b, <1>7, <2>3, QueueAppend DEF HcControlTransfer
    <2>5. ep0' \in [SlotIndex -> Seq(Requests)]
      BY <1>a, <1>7, <2>2, Indices DEF HcControlTransfer, QueueTypes
    <2>6. UNCHANGED <<registers, attached, controller, armed, driver, commands>>
      BY <1>7 DEF HcControlTransfer
    <2>7. QueueTypes'
      BY <1>a, <2>4, <2>5, <2>6 DEF QueueTypes
    <2> QED
      BY <1>a, <2>4, <2>6, <2>7, TypesKept, CallerKept DEF TypeInv, TypeOK
  <1> QED
    BY <1>2, <1>4, <1>5, <1>6, <1>7 DEF HcStep

\* Setting the phase of a port.
LEMMA PhaseUpdate ==
    ASSUME port_config_phase \in PhaseMaps, NEW p \in Ports, NEW f \in Phases
    PROVE  /\ [port_config_phase EXCEPT ![p] = f] \in PhaseMaps
           /\ port_config_phase[p] \in Phases
  BY Indices DEF PhaseMaps

\* A phase that some port is in, other than NotConnected, is the phase of a port.
LEMMA PhaseOfPort ==
    ASSUME port_config_phase \in PhaseMaps, NEW p \in 0..MaxPorts,
           port_config_phase[p] # "NotConnected"
    PROVE  p \in Ports
  BY Indices DEF PhaseMaps

\* ResetPort keeps the types of the ports and of the driver.
LEMMA ResetPortTypes ==
    ASSUME PortTypes, DriverTypes, NEW p \in Ports, NEW busy \in 0..MaxPorts,
           NEW cont \in Continuations, ResetPort(p, busy, cont),
           UNCHANGED <<connected, reset_change, kind, plugs, unplugs, devices, dcbaa, boot_port>>
    PROVE  PortTypes' /\ DriverTypes'
  <1>1. PortTypes'
    BY DEF PortTypes, ResetPort
  <1>2. port_config_phase' \in PhaseMaps
    BY PhaseUpdate DEF DriverTypes, ResetPort, Phases
  <1>3. addressing_port' \in 0..MaxPorts
    BY Indices DEF ResetPort
  <1>4. pc' = "ResetPort" /\ continuation' \in Continuations
    BY DEF ResetPort
  <1>5. DriverTypes'
    BY <1>2, <1>3, <1>4 DEF DriverTypes
  <1> QED
    BY <1>1, <1>5

\* The updates of a device that the handlers make keep its type.
LEMMA DeviceUpdates ==
    ASSUME devices \in [SlotIndex -> DeviceRecords], NEW s \in SlotIndex
    PROVE  /\ [devices EXCEPT ![s].alloc = TRUE] \in [SlotIndex -> DeviceRecords]
           /\ \A n \in 0..4 :
                 [devices EXCEPT ![s].initialize_phase = n] \in [SlotIndex -> DeviceRecords]
           /\ \A n \in 0..2 :
                 [devices EXCEPT ![s].hid_phase = n] \in [SlotIndex -> DeviceRecords]
           /\ \A n \in 0..4, k \in 0..15 :
                 [devices EXCEPT ![s].initialize_phase = n, ![s].class_drivers = k]
                     \in [SlotIndex -> DeviceRecords]
  BY ZenonT(40) DEF DeviceRecords

\* InitializeDevice keeps the types of what it changes.
LEMMA InitializeDeviceTypes ==
    ASSUME QueueTypes, DriverTypes, NEW p \in Ports, NEW s \in SlotIndex,
           InitializeDevice(p, s)
    PROVE  /\ port_config_phase' \in PhaseMaps
           /\ devices' \in [SlotIndex -> DeviceRecords]
           /\ ep0' \in [SlotIndex -> Seq(Requests)]
  <1>1. port_config_phase' \in PhaseMaps
    <2>1. port_config_phase \in PhaseMaps /\ "InitializingDevice" \in Phases
      BY DEF DriverTypes, Phases
    <2> QED
      BY <2>1, PhaseUpdate DEF InitializeDevice
  <1>2. devices' \in [SlotIndex -> DeviceRecords]
    <2>1. devices \in [SlotIndex -> DeviceRecords]
      BY DEF DriverTypes
    <2>3. 1 \in 0..4
      OBVIOUS
    <2>2. devices' = [devices EXCEPT ![s].initialize_phase = 1]
      BY DEF InitializeDevice
    <2> QED
      BY <2>1, <2>2, <2>3, DeviceUpdates
  <1>3. ep0[s] \in Seq(Requests) /\ "GetDeviceDescriptor" \in Requests
    BY DEF QueueTypes, Requests
  <1>4. Append(ep0[s], "GetDeviceDescriptor") \in Seq(Requests)
    BY <1>3, QueueAppend
  <1>5. ep0' \in [SlotIndex -> Seq(Requests)]
    BY <1>4 DEF QueueTypes, InitializeDevice
  <1> QED
    BY <1>1, <1>2, <1>5

\* The steps of the boot loop and the return from ResetPort keep the types.
LEMMA BootTypeInv ==
    ASSUME TypeInv, BootConfigurePort \/ EnterMainLoop \/ ResetPortReturns
    PROVE  TypeInv'
  <1>a. PortTypes /\ ControllerTypes /\ QueueTypes /\ DriverTypes /\ CallerOK
    BY DEF TypeInv, TypeOK
  <1>b. boot_port \in 1..(MaxPorts + 1) /\ addressing_port \in 0..MaxPorts
        /\ continuation \in Continuations /\ pc \in {"boot", "ResetPort", "main"}
    BY <1>a DEF DriverTypes
  <1>1. CASE BootConfigurePort
    <2>1. boot_port \in Ports /\ boot_port + 1 \in 1..(MaxPorts + 1)
      BY <1>1, <1>b, PortsAssumption DEF BootConfigurePort, BootLoop, Ports
    <2>2. UNCHANGED <<reset_change, connected, kind, plugs, unplugs, controller, transfers,
                      devices, dcbaa, commands, events>>
      BY <1>1 DEF BootConfigurePort
    <2>3. [to |-> "boot"] \in Continuations
      BY DEF Continuations
    <2>4. CASE boot_port \in connected /\ port_config_phase[boot_port] = "NotConnected"
      <3>1. ResetPort(boot_port, addressing_port, [to |-> "boot"]) /\ UNCHANGED boot_port
        BY <1>1, <2>4 DEF BootConfigurePort
      <3>2. PortTypes' /\ DriverTypes'
        BY <1>a, <1>b, <2>1, <2>2, <2>3, <3>1, ResetPortTypes
      <3>3. continuation' = [to |-> "boot"]
        BY <3>1 DEF ResetPort
      <3>4. CallerOK'
        BY <2>1, <3>1, <3>3, PortsAssumption DEF CallerOK, Ports
      <3> QED
        BY <1>a, <2>2, <3>2, <3>4, TypesKept DEF TypeInv, TypeOK
    <2>5. CASE ~(boot_port \in connected /\ port_config_phase[boot_port] = "NotConnected")
      <3>1. boot_port' = boot_port + 1
            /\ UNCHANGED <<registers, addressed, port_config_phase, addressing_port, pc,
                           continuation>>
        BY <1>1, <2>5 DEF BootConfigurePort
      <3>2. DriverTypes'
        BY <1>a, <2>1, <2>2, <3>1 DEF DriverTypes
      <3>3. PortTypes'
        BY <1>a, <2>2, <3>1 DEF PortTypes, registers
      <3>4. CallerOK'
        BY <1>1, <3>1 DEF CallerOK, BootConfigurePort
      <3> QED
        BY <1>a, <2>2, <3>2, <3>3, <3>4, TypesKept DEF TypeInv, TypeOK
    <2> QED
      BY <2>4, <2>5
  <1>2. CASE EnterMainLoop
    <2>1. DriverTypes' /\ CallerOK'
      BY <1>2, <1>a DEF EnterMainLoop, DriverTypes, CallerOK
    <2> QED
      BY <1>2, <1>a, <2>1, TypesKept DEF EnterMainLoop, TypeInv, TypeOK
  <1>3. CASE ResetPortReturns
    <2>1. pc = "ResetPort"
          /\ UNCHANGED <<registers, attached, controller, armed, addressing_port, dcbaa,
                         continuation, commands>>
      BY <1>3 DEF ResetPortReturns
    <2>2. CASE continuation.to = "boot"
      <3>1. pc' = "boot" /\ boot_port' = boot_port + 1
            /\ UNCHANGED <<events, port_config_phase, devices, ep0>>
        BY <1>3, <2>2 DEF ResetPortReturns
      <3>2. boot_port' \in 1..(MaxPorts + 1)
        BY <1>a, <1>b, <2>1, <2>2, <3>1, PortsAssumption DEF CallerOK
      <3>3. DriverTypes' /\ CallerOK'
        BY <1>a, <2>1, <3>1, <3>2 DEF DriverTypes, CallerOK
      <3>4. QueueTypes'
        BY <1>a, <2>1, <3>1 DEF QueueTypes
      <3> QED
        BY <1>a, <2>1, <3>3, <3>4, TypesKept DEF TypeInv, TypeOK
    <2>3. CASE continuation.to # "boot"
      <3>1. pc' = "main" /\ boot_port' = boot_port /\ events' = Tail(events)
        BY <1>3, <2>3 DEF ResetPortReturns
      <3>2. events' \in Seq(Events)
        BY <1>a, <2>1, <2>3, <3>1, QueueFront DEF CallerOK, QueueTypes
      <3>3. /\ port_config_phase' \in PhaseMaps
            /\ devices' \in [SlotIndex -> DeviceRecords]
            /\ ep0' \in [SlotIndex -> Seq(Requests)]
        <4>1. CASE continuation.to = "initialize"
          <5>1. continuation.port \in Ports /\ continuation.slot \in SlotIndex
            BY <1>b, <4>1, Indices DEF Continuations
          <5>2. InitializeDevice(continuation.port, continuation.slot)
            BY <1>3, <2>3, <4>1 DEF ResetPortReturns
          <5> QED
            BY <1>a, <5>1, <5>2, InitializeDeviceTypes
        <4>2. CASE continuation.to # "initialize"
          BY <1>3, <1>a, <2>3, <4>2 DEF ResetPortReturns, DriverTypes, QueueTypes
        <4> QED
          BY <4>1, <4>2
      <3>4. DriverTypes' /\ CallerOK'
        BY <1>a, <2>1, <3>1, <3>3 DEF DriverTypes, CallerOK
      <3>5. QueueTypes'
        BY <1>a, <2>1, <3>2, <3>3 DEF QueueTypes
      <3> QED
        BY <1>a, <2>1, <3>4, <3>5, TypesKept DEF TypeInv, TypeOK
    <2> QED
      BY <2>2, <2>3
  <1> QED
    BY <1>1, <1>2, <1>3

\* The event at the front of the ring, when ProcessEvent looks at it.
LEMMA ProcessingFront ==
    ASSUME QueueTypes, NEW t, Processing(t)
    PROVE  Head(events) \in Events /\ Head(events).type = t /\ Tail(events) \in Seq(Events)
  BY QueueFront DEF QueueTypes, Processing

\* ProcessEvent ends by popping the event: nothing then depends on the ring's front.
LEMMA PopKeeps ==
    ASSUME QueueTypes, NEW t, Processing(t), Pop
    PROVE  events' \in Seq(Events) /\ CallerOK' /\ pc' = "main"
  BY ProcessingFront DEF Pop, Processing, CallerOK

\* A request repeated n times is a sequence of requests.
LEMMA RepeatedRequest ==
    ASSUME NEW n \in Nat
    PROVE  [i \in 1..n |-> "SetProtocol"] \in Seq(Requests)
  BY DEF Requests

\* The port status change handlers keep the types.
LEMMA PortStatusChangeTypeInv ==
    ASSUME TypeInv,
           \/ PortStatusChangeNotConnected \/ PortStatusChangeResetting
           \/ PortStatusChangeInvalidPhase
    PROVE  TypeInv'
  <1>a. PortTypes /\ ControllerTypes /\ QueueTypes /\ DriverTypes
    BY DEF TypeInv, TypeOK
  <1>b. Processing("PortStatusChange")
    BY DEF PortStatusChangeNotConnected, PortStatusChangeResetting, PortStatusChangeInvalidPhase
  <1> DEFINE p == Head(events).port
  <1>c. p \in Ports
    BY <1>a, <1>b, ProcessingFront, EventFields
  <1>1. CASE PortStatusChangeNotConnected
    <2>1. ResetPort(p, addressing_port, [to |-> "pop"])
          /\ UNCHANGED <<connected, reset_change, kind, plugs, unplugs, controller, transfers,
                         devices, dcbaa, boot_port, commands, events>>
      BY <1>1 DEF PortStatusChangeNotConnected
    <2>2. [to |-> "pop"] \in Continuations /\ addressing_port \in 0..MaxPorts
      BY <1>a DEF Continuations, DriverTypes
    <2>3. PortTypes' /\ DriverTypes'
      BY <1>a, <1>c, <2>1, <2>2, ResetPortTypes
    <2>4. events' # <<>> /\ continuation' = [to |-> "pop"]
      BY <1>b, <2>1 DEF Processing, ResetPort
    <2>5. CallerOK'
      BY <2>4 DEF CallerOK
    <2> QED
      BY <1>a, <2>1, <2>3, <2>5, TypesKept DEF TypeInv, TypeOK
  <1>2. CASE PortStatusChangeResetting
    <2>1. Pop /\ EnableSlot(p)
          /\ UNCHANGED <<connected, enabled, connect_change, resetting, attached, controller,
                         transfers, addressing_port, devices, dcbaa>>
      BY <1>2 DEF PortStatusChangeResetting
    <2>2. events' \in Seq(Events) /\ CallerOK'
      BY <1>a, <1>b, <2>1, PopKeeps
    <2>3. PortTypes'
      BY <1>a, <2>1 DEF EnableSlot, PortTypes, attached
    <2>4. commands' \in Seq(Commands)
      <3>1. commands \in Seq(Commands)
        BY <1>a DEF QueueTypes
      <3>2. Append(commands, [type |-> "EnableSlot", slot |-> 0, port |-> NoPort])
                \in Seq(Commands)
        BY <3>1, CommandTypes, QueueAppend
      <3> QED
        BY <2>1, <3>1, <3>2 DEF EnableSlot
    <2>5. port_config_phase' \in PhaseMaps
      <3>1. port_config_phase \in PhaseMaps /\ "EnablingSlot" \in Phases
        BY <1>a DEF DriverTypes, Phases
      <3> QED
        BY <1>c, <2>1, <3>1, PhaseUpdate DEF EnableSlot
    <2>6. DriverTypes'
      BY <1>a, <2>1, <2>5 DEF DriverTypes, Pop
    <2>7. QueueTypes'
      BY <1>a, <2>1, <2>2, <2>4 DEF QueueTypes, transfers
    <2> QED
      BY <1>a, <2>1, <2>2, <2>3, <2>6, <2>7, TypesKept DEF TypeInv, TypeOK
  <1>3. CASE PortStatusChangeInvalidPhase
    <2>1. Pop
          /\ UNCHANGED <<registers, attached, controller, transfers, port_config_phase,
                         addressing_port, devices, dcbaa, commands>>
      BY <1>3 DEF PortStatusChangeInvalidPhase
    <2>2. events' \in Seq(Events) /\ CallerOK'
      BY <1>a, <1>b, <2>1, PopKeeps
    <2>3. DriverTypes' /\ QueueTypes'
      BY <1>a, <2>1, <2>2 DEF DriverTypes, Pop, QueueTypes, transfers
    <2> QED
      BY <1>a, <2>1, <2>2, <2>3, TypesKept DEF TypeInv, TypeOK
  <1> QED
    BY <1>1, <1>2, <1>3

\* The command completion handlers keep the types.
LEMMA CommandCompletionTypeInv ==
    ASSUME TypeInv, SlotEnabled \/ DeviceAddressed \/ EndpointsConfigured
    PROVE  TypeInv'
  <1>a. PortTypes /\ ControllerTypes /\ QueueTypes /\ DriverTypes
    BY DEF TypeInv, TypeOK
  <1>b. Processing("CommandCompletion")
    BY DEF SlotEnabled, DeviceAddressed, EndpointsConfigured
  <1> DEFINE s == Head(events).slot
             p == PortOf(s)
  <1>c. s \in SlotIndex /\ p \in 0..MaxPorts
    BY <1>a, <1>b, ProcessingFront, EventFields DEF PortOf, ControllerTypes
  <1>d. /\ addressing_port \in 0..MaxPorts /\ commands \in Seq(Commands)
        /\ devices \in [SlotIndex -> DeviceRecords] /\ port_config_phase \in PhaseMaps
        /\ ep0 \in [SlotIndex -> Seq(Requests)]
    BY <1>a DEF DriverTypes, QueueTypes
  <1>1. CASE SlotEnabled
    <2>1. Pop /\ UNCHANGED <<registers, attached, controller, transfers, addressing_port>>
      BY <1>1 DEF SlotEnabled
    <2>2. events' \in Seq(Events) /\ CallerOK'
      BY <1>a, <1>b, <2>1, PopKeeps
    <2>3. CASE port_config_phase[addressing_port] = "EnablingSlot"
      <3>1. AddressDevice(addressing_port, s)
        BY <1>1, <2>3 DEF SlotEnabled
      <3>2. addressing_port \in Ports
        BY <1>d, <2>3, PhaseOfPort
      <3>3. devices' \in [SlotIndex -> DeviceRecords]
        BY <1>c, <1>d, <3>1, DeviceUpdates DEF AddressDevice
      <3>4. dcbaa' \in [SlotIndex -> {"null", "scratchpad", "device_context"}]
        BY <1>a, <1>c, <3>1 DEF AddressDevice, DriverTypes
      <3>5. "AddressingDevice" \in Phases
        BY DEF Phases
      <3>6. port_config_phase' \in PhaseMaps
        BY <1>d, <3>1, <3>2, <3>5, PhaseUpdate DEF AddressDevice
      <3>7. [type |-> "AddressDevice", slot |-> s, port |-> addressing_port] \in Commands
        BY <1>c, <3>2, CommandTypes
      <3>8. commands' \in Seq(Commands)
        BY <1>d, <3>1, <3>7, QueueAppend DEF AddressDevice
      <3>9. DriverTypes'
        BY <1>a, <2>1, <3>3, <3>4, <3>6 DEF DriverTypes, Pop
      <3>10. QueueTypes'
        BY <1>a, <2>1, <2>2, <3>8 DEF QueueTypes, transfers
      <3> QED
        BY <1>a, <2>1, <2>2, <3>9, <3>10, TypesKept DEF TypeInv, TypeOK
    <2>4. CASE port_config_phase[addressing_port] # "EnablingSlot"
      <3>1. UNCHANGED <<devices, dcbaa, port_config_phase, commands>>
        BY <1>1, <2>4 DEF SlotEnabled
      <3>2. DriverTypes' /\ QueueTypes'
        BY <1>a, <2>1, <2>2, <3>1 DEF DriverTypes, Pop, QueueTypes, transfers
      <3> QED
        BY <1>a, <2>1, <2>2, <3>2, TypesKept DEF TypeInv, TypeOK
    <2> QED
      BY <2>3, <2>4
  <1>2. CASE DeviceAddressed
    <2>1. UNCHANGED <<connected, reset_change, kind, plugs, unplugs, controller, armed, dcbaa,
                      commands>>
      BY <1>2 DEF DeviceAddressed
    <2>2. CASE /\ port_config_phase[p] = "AddressingDevice" 
               /\ \E w \in WaitingPorts :
                     ResetPort(w, NoPort, [to |-> "initialize", port |-> p, slot |-> s])
               /\ UNCHANGED <<devices, ep0, boot_port, events>>
      <3>1. p \in Ports
        BY <1>c, <1>d, <2>2, PhaseOfPort
      <3>2. PICK w \in Ports :
                ResetPort(w, NoPort, [to |-> "initialize", port |-> p, slot |-> s])
        BY <2>2 DEF WaitingPorts
      <3>3. [to |-> "initialize", port |-> p, slot |-> s] \in Continuations
        BY <1>c, <3>1 DEF Continuations
      <3>4. PortTypes' /\ DriverTypes'
        BY <1>a, <2>1, <2>2, <3>2, <3>3, Indices, ResetPortTypes
      <3>5. events' # <<>> /\ continuation'.to = "initialize"
        BY <1>b, <2>2, <3>2 DEF Processing, ResetPort
      <3>6. CallerOK'
        BY <3>5 DEF CallerOK
      <3>7. QueueTypes'
        BY <1>a, <2>1, <2>2 DEF QueueTypes
      <3> QED
        BY <1>a, <2>1, <3>4, <3>6, <3>7, TypesKept DEF TypeInv, TypeOK
    <2>3. CASE /\ port_config_phase[p] = "AddressingDevice"
               /\ addressing_port' = NoPort /\ InitializeDevice(p, s) /\ Pop
               /\ UNCHANGED <<connect_change, resetting, enabled, addressed>>
      <3>1. p \in Ports
        BY <1>c, <1>d, <2>3, PhaseOfPort
      <3>2. events' \in Seq(Events) /\ CallerOK'
        BY <1>a, <1>b, <2>3, PopKeeps
      <3>3. /\ port_config_phase' \in PhaseMaps /\ devices' \in [SlotIndex -> DeviceRecords]
            /\ ep0' \in [SlotIndex -> Seq(Requests)]
        BY <1>a, <1>c, <2>3, <3>1, InitializeDeviceTypes
      <3>4. DriverTypes'
        BY <1>a, <2>1, <2>3, <3>3, Indices DEF DriverTypes, Pop
      <3>5. QueueTypes' /\ PortTypes'
        BY <1>a, <2>1, <2>3, <3>2, <3>3 DEF QueueTypes, PortTypes
      <3> QED
        BY <1>a, <2>1, <3>2, <3>4, <3>5, TypesKept DEF TypeInv, TypeOK
    <2>4. CASE /\ Pop
               /\ UNCHANGED <<addressing_port, port_config_phase, devices, ep0, connect_change,
                              resetting, enabled, addressed>>
      <3>1. events' \in Seq(Events) /\ CallerOK'
        BY <1>a, <1>b, <2>4, PopKeeps
      <3>2. DriverTypes'
        BY <1>a, <2>1, <2>4 DEF DriverTypes, Pop
      <3>3. QueueTypes' /\ PortTypes'
        BY <1>a, <2>1, <2>4, <3>1 DEF QueueTypes, PortTypes
      <3> QED
        BY <1>a, <2>1, <3>1, <3>2, <3>3, TypesKept DEF TypeInv, TypeOK
    <2> QED
      BY <1>2, <2>2, <2>3, <2>4 DEF DeviceAddressed
  <1>3. CASE EndpointsConfigured
    <2>1. Pop /\ UNCHANGED <<registers, attached, controller, armed, addressing_port, dcbaa,
                             commands>>
      BY <1>3 DEF EndpointsConfigured
    <2>2. events' \in Seq(Events) /\ CallerOK'
      BY <1>a, <1>b, <2>1, PopKeeps
    <2>3. /\ port_config_phase' \in PhaseMaps /\ devices' \in [SlotIndex -> DeviceRecords]
          /\ ep0' \in [SlotIndex -> Seq(Requests)]
      <3>1. CASE devices[s].alloc /\ port_config_phase[p] = "ConfiguringEndpoints"
        <4>1. p \in Ports /\ "Configured" \in Phases
          BY <1>c, <1>d, <3>1, PhaseOfPort DEF Phases
        <4>2. /\ devices' = [devices EXCEPT ![s].hid_phase = 1]
              /\ ep0' = [ep0 EXCEPT ![s] =
                             @ \o [i \in 1..devices[s].class_drivers |-> "SetProtocol"]]
              /\ port_config_phase' = [port_config_phase EXCEPT ![p] = "Configured"]
          BY <1>3, <3>1 DEF EndpointsConfigured
        <4>3. port_config_phase' \in PhaseMaps
          BY <1>d, <4>1, <4>2, PhaseUpdate
        <4>4. 1 \in 0..2
          OBVIOUS
        <4>5. devices' \in [SlotIndex -> DeviceRecords]
          BY <1>c, <1>d, <4>2, <4>4, DeviceUpdates
        <4>6. devices[s].class_drivers \in Nat /\ ep0[s] \in Seq(Requests)
          <5>1. devices[s] \in DeviceRecords /\ ep0[s] \in Seq(Requests)
            BY <1>c, <1>d
          <5>2. devices[s].class_drivers \in 0..15
            BY <5>1 DEF DeviceRecords
          <5> QED
            BY SMTT(30), <5>1, <5>2
        <4>7. [i \in 1..devices[s].class_drivers |-> "SetProtocol"] \in Seq(Requests)
          BY <4>6, RepeatedRequest
        <4>8. ep0[s] \o [i \in 1..devices[s].class_drivers |-> "SetProtocol"] \in Seq(Requests)
          BY <4>6, <4>7
        <4>9. ep0' \in [SlotIndex -> Seq(Requests)]
          BY <1>c, <1>d, <4>2, <4>8
        <4> QED
          BY <4>3, <4>5, <4>9
      <3>2. CASE ~(devices[s].alloc /\ port_config_phase[p] = "ConfiguringEndpoints")
        BY <1>3, <1>d, <3>2 DEF EndpointsConfigured
      <3> QED
        BY <3>1, <3>2
    <2>4. DriverTypes'
      BY <1>a, <2>1, <2>3 DEF DriverTypes, Pop
    <2>5. QueueTypes'
      BY <1>a, <2>1, <2>2, <2>3 DEF QueueTypes
    <2> QED
      BY <1>a, <2>1, <2>2, <2>4, <2>5, TypesKept DEF TypeInv, TypeOK
  <1> QED
    BY <1>1, <1>2, <1>3

\* The transfer event handlers keep the types.
LEMMA TransferTypeInv ==
    ASSUME TypeInv,
           TransferFailed \/ InterruptCompleted \/ HidControlCompleted \/ InitializationStep
    PROVE  TypeInv'
  <1>a. PortTypes /\ ControllerTypes /\ QueueTypes /\ DriverTypes
    BY DEF TypeInv, TypeOK
  <1>b. Processing("Transfer") /\ TransferFrame
    BY DEF TransferFailed, InterruptCompleted, HidControlCompleted, InitializationStep
  <1> DEFINE s == Head(events).slot
             p == PortOf(s)
  <1>c. s \in SlotIndex /\ p \in 0..MaxPorts /\ Head(events).data \in 0..15
    BY <1>a, <1>b, ProcessingFront, EventFields DEF PortOf, ControllerTypes
  <1>d. /\ commands \in Seq(Commands) /\ devices \in [SlotIndex -> DeviceRecords]
        /\ port_config_phase \in PhaseMaps /\ ep0 \in [SlotIndex -> Seq(Requests)]
        /\ armed \in [SlotIndex -> Nat]
    BY <1>a DEF DriverTypes, QueueTypes
  <1>e. Pop /\ UNCHANGED <<registers, attached, controller, addressing_port, dcbaa>>
    BY <1>b DEF TransferFrame
  <1>f. events' \in Seq(Events) /\ CallerOK'
    BY <1>a, <1>b, <1>e, PopKeeps
  <1>g. SUFFICES /\ commands' \in Seq(Commands) /\ devices' \in [SlotIndex -> DeviceRecords]
                 /\ port_config_phase' \in PhaseMaps /\ ep0' \in [SlotIndex -> Seq(Requests)]
                 /\ armed' \in [SlotIndex -> Nat]
    <2>1. DriverTypes'
      BY <1>a, <1>e, <1>g DEF DriverTypes, Pop
    <2>2. QueueTypes'
      BY <1>f, <1>g DEF QueueTypes
    <2> QED
      BY <1>a, <1>e, <1>f, <2>1, <2>2, TypesKept DEF TypeInv, TypeOK
  <1>1. CASE TransferFailed
    BY <1>1, <1>d DEF TransferFailed, transfers
  <1>2. CASE InterruptCompleted
    BY <1>2, <1>c, <1>d DEF InterruptCompleted
  <1>3. CASE HidControlCompleted
    <2>1. UNCHANGED <<port_config_phase, ep0, commands>>
      BY <1>3 DEF HidControlCompleted
    <2>2. \/ UNCHANGED <<devices, armed>>
          \/ /\ devices' = [devices EXCEPT ![s].hid_phase = 2]
             /\ armed' = [armed EXCEPT ![s] = @ + 1]
      BY <1>3 DEF HidControlCompleted
    <2>3. 2 \in 0..2
      OBVIOUS
    <2>4. [devices EXCEPT ![s].hid_phase = 2] \in [SlotIndex -> DeviceRecords]
      BY <1>c, <1>d, <2>3, DeviceUpdates
    <2>6. [armed EXCEPT ![s] = @ + 1] \in [SlotIndex -> Nat]
      BY <1>c, <1>d
    <2>5. devices' \in [SlotIndex -> DeviceRecords] /\ armed' \in [SlotIndex -> Nat]
      BY <1>d, <2>2, <2>4, <2>6
    <2> QED
      BY <1>d, <2>1, <2>5
  <1>4. CASE InitializationStep
    <2>a. UNCHANGED armed
      BY <1>4 DEF InitializationStep
    <2>b. ep0[s] \in Seq(Requests) /\ "GetConfigDescriptor" \in Requests
          /\ "SetConfiguration" \in Requests
      BY <1>c, <1>d DEF Requests
    <2>c. /\ [ep0 EXCEPT ![s] = Append(@, "GetConfigDescriptor")] \in [SlotIndex -> Seq(Requests)]
          /\ [ep0 EXCEPT ![s] = @ \o <<"SetConfiguration">>] \in [SlotIndex -> Seq(Requests)]
      <3>1. ep0[s] \o <<"SetConfiguration">> \in Seq(Requests)
        BY <2>b
      <3> QED
        BY <1>c, <1>d, <2>b, <3>1, QueueAppend
    <2>d. 2 \in 0..4 /\ 3 \in 0..4 /\ 4 \in 0..4
      OBVIOUS
    <2>1. CASE InitializePhase1(s)
      <3>1. devices' \in [SlotIndex -> DeviceRecords]
        BY <1>c, <1>d, <2>1, <2>d, DeviceUpdates DEF InitializePhase1
      <3> QED
        BY <1>d, <2>1, <2>a, <2>c, <3>1 DEF InitializePhase1
    <2>2. CASE InitializePhase2(s)
      <3>1. devices' \in [SlotIndex -> DeviceRecords]
        <4>1. [devices EXCEPT ![s].initialize_phase = 3, ![s].class_drivers = Head(events).data]
                  \in [SlotIndex -> DeviceRecords]
          BY <1>c, <1>d, <2>d, DeviceUpdates
        <4> QED
          BY <1>d, <2>2, <4>1 DEF InitializePhase2
      <3> QED
        BY <1>d, <2>2, <2>a, <2>c, <3>1 DEF InitializePhase2
    <2>3. CASE InitializePhase3(s)
      <3>1. devices' \in [SlotIndex -> DeviceRecords]
        BY <1>c, <1>d, <2>3, <2>d, DeviceUpdates DEF InitializePhase3
      <3>2. UNCHANGED ep0
        BY <2>3 DEF InitializePhase3
      <3>3. CASE UNCHANGED <<port_config_phase, commands>>
        BY <1>d, <2>a, <3>1, <3>2, <3>3
      <3>4. CASE /\ port_config_phase[p] = "InitializingDevice"
                 /\ port_config_phase' = [port_config_phase EXCEPT ![p] = "ConfiguringEndpoints"]
                 /\ commands' = Append(commands, [type |-> "ConfigureEndpoint", slot |-> s,
                                                  port |-> NoPort])
        <4>1. p \in Ports /\ "ConfiguringEndpoints" \in Phases
          BY <1>c, <1>d, <3>4, PhaseOfPort DEF Phases
        <4>2. port_config_phase' \in PhaseMaps
          BY <1>d, <3>4, <4>1, PhaseUpdate
        <4>3. commands' \in Seq(Commands)
          BY <1>c, <1>d, <3>4, CommandTypes, QueueAppend
        <4> QED
          BY <1>d, <2>a, <3>1, <3>2, <4>2, <4>3
      <3> QED
        BY <2>3, <3>3, <3>4 DEF InitializePhase3, ConfigureEndpoints
    <2> QED
      BY <1>4, <2>1, <2>2, <2>3 DEF InitializationStep
  <1> QED
    BY <1>1, <1>2, <1>3, <1>4

\* Every step keeps the types.
LEMMA NextTypeInv == TypeInv /\ [Next]_vars => TypeInv'
  <1>1. ASSUME TypeInv, Next PROVE TypeInv'
    <2>1. CASE DriverStep
      <3>1. CASE MainLoopIdle
        BY <1>1, <3>1, TypesKept, CallerKept
        DEF MainLoopIdle, vars, TypeInv, TypeOK
      <3> QED
        BY <1>1, <2>1, <3>1, BootTypeInv, PortStatusChangeTypeInv, CommandCompletionTypeInv,
           TransferTypeInv
        DEF DriverStep, ProcessEvent
    <2> QED
      BY <1>1, <2>1, HcTypeInv, UserTypeInv DEF Next
  <1>2. ASSUME TypeInv, UNCHANGED vars PROVE TypeInv'
    BY <1>2, TypesKept, CallerKept DEF vars, TypeInv, TypeOK
  <1> QED
    BY <1>1, <1>2

\* The type invariant of the port configuration protocol holds of every behaviour, for
\* every number of ports, slots, devices and bounds: in particular no handler of
\* xhci.cpp ever assigns port_config_phase[0], queues a malformed command or indexes
\* port_config_phase, devices_ or the DCBAA out of range.
THEOREM TypeCorrect == Spec => []TypeOK
  <1>1. Spec => []TypeInv
    BY InitTypeInv, NextTypeInv, PTL DEF Spec
  <1>2. TypeInv => TypeOK
    BY DEF TypeInv
  <1> QED
    BY <1>1, <1>2, PTL

-----------------------------------------------------------------------------
(* Exclusion.  AddressingExclusion is not inductive: when one device has its  *)
(* address and a waiting port takes the turn, the handler sets addressing_port *)
(* to the new port before it takes the old one out of AddressingDevice.       *)

Turns ==
    \A p \in Ports :
        port_config_phase[p] \in InTurn <=> (addressing_port = p \/ HandedOver(p))

HandOver ==
    \A p \in Ports :
        HandedOver(p) => port_config_phase[p] = "AddressingDevice" /\ addressing_port # p

ExclusionInv == Turns /\ HandOver

\* Steps that leave the phases, the turn and the caller of ResetPort alone.
LEMMA ExclusionKept ==
    ASSUME ExclusionInv, UNCHANGED <<port_config_phase, addressing_port, pc, continuation>>
    PROVE  ExclusionInv'
  BY DEF ExclusionInv, Turns, HandOver, HandedOver

\* Steps of the main loop that leave the turn alone and move one port without
\* entering or leaving the phases of a turn.
LEMMA ExclusionPhaseStep ==
    ASSUME ExclusionInv, port_config_phase \in PhaseMaps, NEW q \in Ports, NEW f,
           f \in InTurn <=> port_config_phase[q] \in InTurn,
           port_config_phase' = [port_config_phase EXCEPT ![q] = f],
           addressing_port' = addressing_port, pc = "main", pc' = "main"
    PROVE  ExclusionInv'
  <1>1. \A p : ~HandedOver(p) /\ ~HandedOver(p)'
    BY DEF HandedOver
  <1>2. ASSUME NEW p \in Ports
        PROVE  port_config_phase'[p] = IF p = q THEN f ELSE port_config_phase[p]
    BY Indices DEF PhaseMaps
  <1>3. Turns'
    BY <1>1, <1>2 DEF ExclusionInv, Turns
  <1> QED
    BY <1>1, <1>3 DEF ExclusionInv, HandOver

\* ResetPort called by the boot loop or for a port status change.
LEMMA ResetPortExclusion ==
    ASSUME ExclusionInv, port_config_phase \in PhaseMaps, NEW q \in Ports, NEW cont,
           pc # "ResetPort", port_config_phase[q] = "NotConnected", cont.to # "initialize",
           ResetPort(q, addressing_port, cont)
    PROVE  ExclusionInv'
  <1>1. \A p : ~HandedOver(p) /\ ~HandedOver(p)'
    BY DEF HandedOver, ResetPort
  <1>2. addressing_port # q
    BY <1>1 DEF ExclusionInv, Turns, InTurn
  <1>3. ASSUME NEW p \in Ports, p # q
        PROVE  port_config_phase'[p] = port_config_phase[p]
    BY <1>3, Indices DEF PhaseMaps, ResetPort
  <1>4. CASE MayReset(q, addressing_port)
    <2>1. addressing_port = NoPort /\ addressing_port' = q
      BY <1>4 DEF MayReset, ResetPort
    <2>2. port_config_phase'[q] = "ResettingPort"
      BY <1>4, Indices DEF PhaseMaps, ResetPort
    <2>3. Turns'
      BY <1>1, <1>3, <2>1, <2>2, Indices DEF ExclusionInv, Turns, InTurn
    <2> QED
      BY <1>1, <2>3 DEF ExclusionInv, HandOver
  <1>5. CASE ~MayReset(q, addressing_port)
    <2>1. addressing_port' = addressing_port
      BY <1>5 DEF ResetPort
    <2>2. port_config_phase'[q] \in {"WaitingAddressed", "NotConnected"}
      BY <1>5, Indices DEF PhaseMaps, ResetPort
    <2>3. Turns'
      BY <1>1, <1>2, <1>3, <2>1, <2>2 DEF ExclusionInv, Turns, InTurn
    <2> QED
      BY <1>1, <2>3 DEF ExclusionInv, HandOver
  <1> QED
    BY <1>4, <1>5

\* The end of a device's turn, OnEvent(CommandCompletion) for Address Device.
LEMMA DeviceAddressedExclusion ==
    ASSUME TypeInv, ExclusionInv, DeviceAddressed
    PROVE  ExclusionInv'
  <1>a. ControllerTypes /\ QueueTypes /\ DriverTypes
    BY DEF TypeInv, TypeOK
  <1>b. Processing("CommandCompletion")
    BY DEF DeviceAddressed
  <1> DEFINE s == Head(events).slot
             p == PortOf(s)
  <1>c. s \in SlotIndex /\ p \in 0..MaxPorts /\ port_config_phase \in PhaseMaps
    BY <1>a, <1>b, ProcessingFront, EventFields DEF PortOf, ControllerTypes, DriverTypes
  <1>d. pc = "main" /\ \A q : ~HandedOver(q)
    BY <1>b DEF Processing, HandedOver
  <1>1. CASE /\ p = addressing_port /\ port_config_phase[p] = "AddressingDevice"
             /\ \E w \in WaitingPorts :
                   ResetPort(w, NoPort, [to |-> "initialize", port |-> p, slot |-> s])
    <2>1. p \in Ports
      BY <1>1, <1>c, PhaseOfPort
    <2>2. PICK w \in WaitingPorts :
              ResetPort(w, NoPort, [to |-> "initialize", port |-> p, slot |-> s])
      BY <1>1
    <2>3. w \in Ports /\ port_config_phase[w] = "WaitingAddressed" /\ w # p
      BY <1>1, <2>2 DEF WaitingPorts
    <2>4. \A q : HandedOver(q)' <=> q = p
      BY <2>2 DEF HandedOver, ResetPort
    <2>5. ASSUME NEW q \in Ports, q # w
          PROVE  port_config_phase'[q] = port_config_phase[q]
      BY <1>c, <2>2, <2>3, <2>5, Indices DEF PhaseMaps, ResetPort
    <2>6. \/ addressing_port' = w /\ port_config_phase'[w] = "ResettingPort"
          \/ addressing_port' = NoPort /\ port_config_phase'[w] = "WaitingAddressed"
      BY <1>c, <2>2, <2>3, Indices DEF PhaseMaps, ResetPort, MustWait
    <2>7. \A q \in Ports : port_config_phase[q] \in InTurn <=> q = p
      BY <1>1, <1>d, <2>1 DEF ExclusionInv, Turns
    <2>8. Turns'
      BY <2>1, <2>3, <2>4, <2>5, <2>6, <2>7, Indices DEF Turns, InTurn
    <2>9. HandOver'
      BY <1>1, <2>1, <2>3, <2>4, <2>5, <2>6, Indices DEF HandOver
    <2> QED
      BY <2>8, <2>9 DEF ExclusionInv
  <1>2. CASE /\ p = addressing_port /\ port_config_phase[p] = "AddressingDevice"
             /\ addressing_port' = NoPort /\ InitializeDevice(p, s) /\ Pop
    <2>1. p \in Ports
      BY <1>2, <1>c, PhaseOfPort
    <2>2. \A q : ~HandedOver(q)'
      BY <1>2, <1>d DEF HandedOver, Pop
    <2>3. ASSUME NEW q \in Ports
          PROVE  port_config_phase'[q] = IF q = p THEN "InitializingDevice"
                                                  ELSE port_config_phase[q]
      BY <1>2, <1>c, <2>1, Indices DEF PhaseMaps, InitializeDevice
    <2>4. Turns'
      BY <1>2, <1>d, <2>1, <2>2, <2>3, Indices DEF ExclusionInv, Turns, InTurn
    <2> QED
      BY <2>2, <2>4 DEF ExclusionInv, HandOver
  <1>3. CASE Pop /\ UNCHANGED <<addressing_port, port_config_phase>>
    BY <1>3, ExclusionKept DEF Pop
  <1> QED
    BY <1>1, <1>2, <1>3 DEF DeviceAddressed

\* Every step of the driver keeps the turns.
LEMMA DriverExclusion ==
    ASSUME TypeInv, ExclusionInv, DriverStep
    PROVE  ExclusionInv'
  <1>a. ControllerTypes /\ QueueTypes /\ DriverTypes
    BY DEF TypeInv, TypeOK
  <1>b. port_config_phase \in PhaseMaps /\ continuation \in Continuations
        /\ boot_port \in 1..(MaxPorts + 1)
    BY <1>a DEF DriverTypes
  <1>1. CASE BootConfigurePort
    <2>1. pc = "boot" /\ boot_port \in Ports
      BY <1>1, <1>b, PortsAssumption DEF BootConfigurePort, BootLoop, Ports
    <2>2. CASE boot_port \in connected /\ port_config_phase[boot_port] = "NotConnected"
      <3>1. ResetPort(boot_port, addressing_port, [to |-> "boot"])
        BY <1>1, <2>2 DEF BootConfigurePort
      <3> QED
        BY <1>b, <2>1, <2>2, <3>1, ResetPortExclusion
    <2>3. CASE ~(boot_port \in connected /\ port_config_phase[boot_port] = "NotConnected")
      BY <1>1, <2>3, ExclusionKept DEF BootConfigurePort
    <2> QED
      BY <2>2, <2>3
  <1>2. CASE EnterMainLoop
    BY <1>2 DEF EnterMainLoop, ExclusionInv, Turns, HandOver, HandedOver
  <1>3. CASE ResetPortReturns
    <2>1. pc = "ResetPort" /\ pc' # "ResetPort" /\ UNCHANGED <<addressing_port, continuation>>
      BY <1>3 DEF ResetPortReturns
    <2>2. \A q : ~HandedOver(q)'
      BY <2>1 DEF HandedOver
    <2>3. CASE continuation.to = "initialize"
      <3> DEFINE p == continuation.port
      <3>1. p \in Ports /\ InitializeDevice(p, continuation.slot)
        BY <1>3, <1>b, <2>3 DEF ResetPortReturns, Continuations
      <3>2. ASSUME NEW q \in Ports
            PROVE  port_config_phase'[q] = IF q = p THEN "InitializingDevice"
                                                    ELSE port_config_phase[q]
        BY <1>b, <3>1, Indices DEF PhaseMaps, InitializeDevice
      <3>3. \A q \in Ports : HandedOver(q) <=> q = p
        BY <2>1, <2>3 DEF HandedOver
      <3>4. Turns'
        BY <2>1, <2>2, <3>1, <3>2, <3>3 DEF ExclusionInv, Turns, HandOver, InTurn
      <3> QED
        BY <2>2, <3>4 DEF ExclusionInv, HandOver
    <2>4. CASE continuation.to # "initialize"
      <3>1. UNCHANGED port_config_phase
        BY <1>3, <2>4 DEF ResetPortReturns
      <3>2. \A q : ~HandedOver(q)
        BY <2>4 DEF HandedOver
      <3> QED
        BY <2>1, <2>2, <3>1, <3>2 DEF ExclusionInv, Turns, HandOver
    <2> QED
      BY <2>3, <2>4
  <1>4. CASE PortStatusChangeNotConnected
    <2>1. Processing("PortStatusChange") /\ StartsPort(Head(events).port)
          /\ ResetPort(Head(events).port, addressing_port, [to |-> "pop"])
      BY <1>4 DEF PortStatusChangeNotConnected
    <2>2. Head(events).port \in Ports /\ pc # "ResetPort"
      BY <1>a, <2>1, ProcessingFront, EventFields DEF Processing
    <2> QED
      BY <1>b, <2>1, <2>2, ResetPortExclusion DEF StartsPort
  <1>5. CASE PortStatusChangeResetting
    <2> DEFINE p == Head(events).port
    <2>1. Processing("PortStatusChange") /\ port_config_phase[p] = "ResettingPort"
          /\ EnableSlot(p) /\ Pop /\ UNCHANGED addressing_port
      BY <1>5 DEF PortStatusChangeResetting
    <2>2. p \in Ports /\ pc = "main" /\ pc' = "main"
      BY <1>a, <2>1, ProcessingFront, EventFields DEF Processing, Pop
    <2>3. CASE UNCHANGED port_config_phase
      BY <2>1, <2>3, ExclusionKept DEF Pop
    <2>4. CASE port_config_phase' = [port_config_phase EXCEPT ![p] = "EnablingSlot"]
      BY <1>b, <2>1, <2>2, <2>4, ExclusionPhaseStep DEF InTurn
    <2> QED
      BY <2>1, <2>3, <2>4 DEF EnableSlot
  <1>6. CASE PortStatusChangeInvalidPhase
    BY <1>6, ExclusionKept DEF PortStatusChangeInvalidPhase, Pop
  <1>7. CASE SlotEnabled
    <2>1. Processing("CommandCompletion") /\ Pop /\ UNCHANGED addressing_port
      BY <1>7 DEF SlotEnabled
    <2>2. CASE port_config_phase[addressing_port] = "EnablingSlot"
      <3>1. addressing_port \in Ports
        BY <1>a, <1>b, <2>2, PhaseOfPort DEF DriverTypes
      <3>2. port_config_phase' = [port_config_phase EXCEPT ![addressing_port] = "AddressingDevice"]
        BY <1>7, <2>2 DEF SlotEnabled, AddressDevice
      <3> QED
        BY <1>b, <2>1, <2>2, <3>1, <3>2, ExclusionPhaseStep DEF InTurn, Processing, Pop
    <2>3. CASE port_config_phase[addressing_port] # "EnablingSlot"
      BY <1>7, <2>1, <2>3, ExclusionKept DEF SlotEnabled, Pop
    <2> QED
      BY <2>2, <2>3
  <1>8. CASE DeviceAddressed
    BY <1>8, DeviceAddressedExclusion
  <1>9. CASE EndpointsConfigured
    <2> DEFINE p == PortOf(Head(events).slot)
    <2>1. Processing("CommandCompletion") /\ Pop /\ UNCHANGED addressing_port
      BY <1>9 DEF EndpointsConfigured
    <2>2. p \in 0..MaxPorts
      BY <1>a, <2>1, ProcessingFront, EventFields DEF PortOf, ControllerTypes
    <2>3. CASE /\ port_config_phase[p] = "ConfiguringEndpoints"
               /\ port_config_phase' = [port_config_phase EXCEPT ![p] = "Configured"]
      <3>1. p \in Ports
        BY <1>b, <2>2, <2>3, PhaseOfPort
      <3> QED
        BY <1>b, <2>1, <2>3, <3>1, ExclusionPhaseStep DEF InTurn, Processing, Pop
    <2>4. CASE UNCHANGED port_config_phase
      BY <2>1, <2>4, ExclusionKept DEF Pop
    <2> QED
      BY <1>9, <2>3, <2>4 DEF EndpointsConfigured
  <1>10. CASE TransferFailed \/ InterruptCompleted \/ HidControlCompleted
    BY <1>10, ExclusionKept
    DEF TransferFailed, InterruptCompleted, HidControlCompleted, TransferFrame, Pop
  <1>11. CASE InitializationStep
    <2> DEFINE s == Head(events).slot
               p == PortOf(s)
    <2>1. Processing("Transfer") /\ Pop /\ UNCHANGED addressing_port
      BY <1>11 DEF InitializationStep, TransferFrame
    <2>2. p \in 0..MaxPorts
      BY <1>a, <2>1, ProcessingFront, EventFields DEF PortOf, ControllerTypes
    <2>3. CASE /\ port_config_phase[p] = "InitializingDevice"
               /\ port_config_phase' = [port_config_phase EXCEPT ![p] = "ConfiguringEndpoints"]
      <3>1. p \in Ports
        BY <1>b, <2>2, <2>3, PhaseOfPort
      <3> QED
        BY <1>b, <2>1, <2>3, <3>1, ExclusionPhaseStep DEF InTurn, Processing, Pop
    <2>4. CASE UNCHANGED port_config_phase
      BY <2>1, <2>4, ExclusionKept DEF Pop
    <2> QED
      BY <1>11, <2>3, <2>4
      DEF InitializationStep, InitializePhase1, InitializePhase2, InitializePhase3,
          ConfigureEndpoints
  <1>12. CASE MainLoopIdle
    BY <1>12, ExclusionKept DEF MainLoopIdle, vars, driver
  <1> QED
    BY <1>1, <1>2, <1>3, <1>4, <1>5, <1>6, <1>7, <1>8, <1>9, <1>10, <1>11, <1>12
    DEF DriverStep, ProcessEvent

\* Every step keeps the turns: users, ports and controller never touch them.
LEMMA NextExclusion == TypeInv /\ ExclusionInv /\ [Next]_vars => ExclusionInv'
  <1>1. ASSUME ExclusionInv, HcStep PROVE ExclusionInv'
    BY <1>1, ExclusionKept
    DEF HcStep, HcResetDone, HcEnableSlot, HcAddressDevice, HcConfigureEndpoint,
        HcControlTransfer, driver
  <1>2. ASSUME ExclusionInv, UserStep PROVE ExclusionInv'
    BY <1>2, ExclusionKept DEF UserStep, Plug, Unplug, HcInterruptTransfer, driver
  <1>3. ASSUME ExclusionInv, UNCHANGED vars PROVE ExclusionInv'
    BY <1>3, ExclusionKept DEF vars, driver
  <1> QED
    BY <1>1, <1>2, <1>3, DriverExclusion DEF Next

\* addressing_port names exactly the port that is between reset and address assignment
\* whenever the driver is between two handlers, for any number of ports and whatever
\* is plugged in or pulled out meanwhile (the comments at xhci.cpp:34 and xhci.cpp:41).
THEOREM Exclusion == Spec => []AddressingExclusion
  <1>1. Init => ExclusionInv
    BY Indices DEF Init, ExclusionInv, Turns, HandOver, HandedOver, InTurn
  <1>2. ExclusionInv => AddressingExclusion
    BY DEF ExclusionInv, Turns, AddressingExclusion, HandedOver
  <1>3. Spec => [](TypeInv /\ ExclusionInv)
    BY <1>1, InitTypeInv, NextTypeInv, NextExclusion, PTL DEF Spec
  <1> QED
    BY <1>2, <1>3, PTL

-----------------------------------------------------------------------------
(* The commands of a turn.  Of Enable Slot and Address Device at most one is *)
(* under way, as a command or as its completion, and what it carries is as   *)
(* the phase of addressing_port says.                                        *)

AddressingCommands == {c \in Commands : IsAddressingCommand(c)}
AddressingEvents == {e \in Events : IsAddressingEvent(e)}

\* No message of the set S is in the queue q, or x alone is.
None(q, S) == \A i \in DOMAIN q : q[i] \notin S
Only(q, S, x) ==
    x \in S /\ \E i \in DOMAIN q : q[i] = x /\ \A j \in DOMAIN q : q[j] \in S => j = i

\* Slot s has not been given to a port yet, but to a turn, or it is slot 0, which stands
\* for the lack of one.
Fresh(s) == root_hub_port_num[s] = NoPort /\ s \in slots_in_use \cup {0}

\* The device on the port in turn does not listen at the default address.
Quiet == addressing_port \notin enabled \ addressed

FlightIdle == None(commands, AddressingCommands) /\ None(Unhandled, AddressingEvents)

CommandOK(c) ==
    \/ /\ c.type = "EnableSlot" /\ port_config_phase[addressing_port] = "EnablingSlot"
    \/ /\ c.type = "AddressDevice" /\ port_config_phase[addressing_port] = "AddressingDevice"
       /\ c.port = addressing_port /\ Fresh(c.slot)
       /\ \A t \in SlotIndex : root_hub_port_num[t] # addressing_port

FlightCommand ==
    \E c \in Commands : /\ Only(commands, AddressingCommands, c)
                        /\ None(Unhandled, AddressingEvents)
                        /\ CommandOK(c)

EventOK(e) ==
    \/ /\ e.issuer = "EnableSlot" /\ port_config_phase[addressing_port] = "EnablingSlot"
       /\ Fresh(e.slot)
    \/ /\ e.issuer = "AddressDevice" /\ port_config_phase[addressing_port] = "AddressingDevice"
       /\ e.slot # 0 => Quiet

FlightEvent ==
    \E e \in Events : /\ None(commands, AddressingCommands)
                      /\ Only(Unhandled, AddressingEvents, e)
                      /\ EventOK(e)

FlightInv == FlightIdle \/ FlightCommand \/ FlightEvent

\* The device contexts name each port at most once, and only after its turn has come to
\* Address Device; from the end of the turn on the port's device is there.
SlotInv ==
    /\ root_hub_port_num[0] = NoPort
    /\ \A s \in SlotIndex : root_hub_port_num[s] # NoPort =>
          /\ s \in slots_in_use
          /\ port_config_phase[root_hub_port_num[s]]
                \notin {"NotConnected", "WaitingAddressed", "ResettingPort", "EnablingSlot"}
          /\ \A t \in SlotIndex : root_hub_port_num[t] = root_hub_port_num[s] => t = s

DeviceInv ==
    /\ \A p \in Ports :
          port_config_phase[p] \in {"InitializingDevice", "ConfiguringEndpoints", "Configured"} =>
              \E s \in SlotIndex : devices[s].alloc /\ root_hub_port_num[s] = p
    /\ pc = "ResetPort" /\ continuation.to = "initialize" =>
          devices[continuation.slot].alloc /\ root_hub_port_num[continuation.slot] = continuation.port

\* Only the port in turn is reset or has a device at the default address.
DefaultInv ==
    /\ \A p \in resetting : p = addressing_port /\ port_config_phase[p] = "ResettingPort"
    /\ pc # "ResetPort" => resetting = {}
    /\ \A p \in enabled \ addressed : p = addressing_port

TurnInv == FlightInv /\ SlotInv /\ DeviceInv /\ DefaultInv

\* What happens to the messages of a set when a queue grows or loses its front
LEMMA QueueMessages ==
    ASSUME NEW T, NEW q \in Seq(T), NEW S
    PROVE  /\ \A y \in T : y \notin S =>
                 /\ None(q, S) => None(Append(q, y), S)
                 /\ \A x : Only(q, S, x) => Only(Append(q, y), S, x)
           /\ \A y \in T : y \in S /\ None(q, S) => Only(Append(q, y), S, y)
           /\ q # <<>> =>
                 /\ None(q, S) => None(Tail(q), S) /\ Head(q) \notin S
                 /\ Head(q) \notin S => \A x : Only(q, S, x) => Only(Tail(q), S, x)
                 /\ Head(q) \in S => \A x : Only(q, S, x) => Head(q) = x /\ None(Tail(q), S)
  <1>0. Len(q) \in Nat /\ DOMAIN q = 1..Len(q)
    OBVIOUS
  <1>1. ASSUME NEW y \in T
        PROVE  /\ DOMAIN Append(q, y) = 1..(Len(q) + 1)
               /\ \A i \in 1..Len(q) : Append(q, y)[i] = q[i]
               /\ Append(q, y)[Len(q) + 1] = y
    OBVIOUS
  <1>2. ASSUME NEW y \in T, y \notin S
        PROVE  /\ None(q, S) => None(Append(q, y), S)
               /\ \A x : Only(q, S, x) => Only(Append(q, y), S, x)
    <2>1. ASSUME None(q, S) PROVE None(Append(q, y), S)
      BY <1>0, <1>1, <1>2, <2>1 DEF None
    <2>2. ASSUME NEW x, Only(q, S, x) PROVE Only(Append(q, y), S, x)
      <3>1. PICK i \in 1..Len(q) : q[i] = x /\ \A j \in 1..Len(q) : q[j] \in S => j = i
        BY <1>0, <2>2 DEF Only
      <3>2. i \in DOMAIN Append(q, y) /\ Append(q, y)[i] = x
        BY <1>0, <1>1, <3>1
      <3>3. \A j \in DOMAIN Append(q, y) : Append(q, y)[j] \in S => j = i
        BY <1>0, <1>1, <1>2, <3>1
      <3> QED
        BY <2>2, <3>2, <3>3 DEF Only
    <2> QED
      BY <2>1, <2>2
  <1>3. ASSUME NEW y \in T, y \in S, None(q, S) PROVE Only(Append(q, y), S, y)
    <2>1. /\ Len(q) + 1 \in DOMAIN Append(q, y)
          /\ \A j \in DOMAIN Append(q, y) : Append(q, y)[j] \in S => j = Len(q) + 1
      BY <1>0, <1>1, <1>3 DEF None
    <2> QED
      BY <1>1, <1>3, <2>1 DEF Only
  <1>4. ASSUME q # <<>>
        PROVE  /\ None(q, S) => None(Tail(q), S) /\ Head(q) \notin S
               /\ Head(q) \notin S => \A x : Only(q, S, x) => Only(Tail(q), S, x)
               /\ Head(q) \in S => \A x : Only(q, S, x) => Head(q) = x /\ None(Tail(q), S)
    <2>1. /\ Len(q) > 0 /\ Head(q) = q[1] /\ DOMAIN Tail(q) = 1..(Len(q) - 1)
          /\ \A i \in 1..(Len(q) - 1) : Tail(q)[i] = q[i + 1]
      BY <1>4
    <2>2. None(q, S) => None(Tail(q), S) /\ Head(q) \notin S
      BY <1>0, <2>1 DEF None
    <2>3. ASSUME Head(q) \notin S, NEW x, Only(q, S, x) PROVE Only(Tail(q), S, x)
      <3>1. PICK i \in 1..Len(q) : q[i] = x /\ \A j \in 1..Len(q) : q[j] \in S => j = i
        BY <1>0, <2>3 DEF Only
      <3>2. x \in S /\ i # 1
        BY <2>1, <2>3, <3>1 DEF Only
      <3>3. i - 1 \in 1..(Len(q) - 1) /\ Tail(q)[i - 1] = x
        BY <1>0, <2>1, <3>1, <3>2
      <3>4. \A j \in 1..(Len(q) - 1) : Tail(q)[j] \in S => j = i - 1
        BY <1>0, <2>1, <3>1
      <3> QED
        BY <2>1, <3>2, <3>3, <3>4 DEF Only
    <2>4. ASSUME Head(q) \in S, NEW x, Only(q, S, x) PROVE Head(q) = x /\ None(Tail(q), S)
      <3>1. PICK i \in 1..Len(q) : q[i] = x /\ \A j \in 1..Len(q) : q[j] \in S => j = i
        BY <1>0, <2>4 DEF Only
      <3>2. i = 1
        BY <1>0, <2>1, <2>4, <3>1
      <3>3. \A j \in 1..(Len(q) - 1) : Tail(q)[j] \notin S
        BY <1>0, <2>1, <3>1, <3>2
      <3> QED
        BY <2>1, <3>1, <3>2, <3>3 DEF None
    <2> QED
      BY <2>2, <2>3, <2>4
  <1> QED
    BY <1>2, <1>3, <1>4

\* The messages of a turn that are in the queues are the same before and after a step.
CommandsKept ==
    /\ None(commands, AddressingCommands) => None(commands', AddressingCommands)
    /\ \A c \in Commands :
          Only(commands, AddressingCommands, c) => Only(commands', AddressingCommands, c)
EventsKept ==
    /\ None(Unhandled, AddressingEvents) => None(Unhandled', AddressingEvents)
    /\ \A e \in Events :
          Only(Unhandled, AddressingEvents, e) => Only(Unhandled', AddressingEvents, e)

\* The events that ProcessEvent has yet to handle, when an event is raised.
LEMMA UnhandledGrows ==
    ASSUME TypeInv, UNCHANGED <<pc, continuation>>, NEW y \in Events,
           events' = Append(events, y)
    PROVE  Unhandled \in Seq(Events) /\ Unhandled' = Append(Unhandled, y)
  <1>1. events \in Seq(Events)
    BY DEF TypeInv, TypeOK, QueueTypes
  <1>2. CASE pc = "ResetPort" /\ continuation.to # "boot"
    <2>1. events # <<>>
      BY <1>2 DEF TypeInv, CallerOK
    <2>2. Tail(Append(events, y)) = Append(Tail(events), y) /\ Tail(events) \in Seq(Events)
      BY <1>1, <2>1
    <2> QED
      BY <1>2, <2>2 DEF Unhandled
  <1>3. CASE ~(pc = "ResetPort" /\ continuation.to # "boot")
    BY <1>1, <1>3 DEF Unhandled
  <1> QED
    BY <1>2, <1>3

\* An event that is no completion of Enable Slot or Address Device joins the ring.
LEMMA OtherEventRaised ==
    ASSUME TypeInv, UNCHANGED <<pc, continuation>>, NEW y \in Events, ~IsAddressingEvent(y),
           events' = Append(events, y)
    PROVE  EventsKept
  <1>1. Unhandled \in Seq(Events) /\ Unhandled' = Append(Unhandled, y)
    BY UnhandledGrows
  <1>2. y \notin AddressingEvents
    BY DEF AddressingEvents
  <1> QED
    BY <1>1, <1>2, QueueMessages DEF EventsKept

\* A completion of Enable Slot or Address Device joins the ring.
LEMMA CompletionRaised ==
    ASSUME TypeInv, UNCHANGED <<pc, continuation>>, NEW y \in Events, IsAddressingEvent(y),
           events' = Append(events, y), None(Unhandled, AddressingEvents)
    PROVE  Only(Unhandled', AddressingEvents, y)
  <1>1. Unhandled \in Seq(Events) /\ Unhandled' = Append(Unhandled, y)
    BY UnhandledGrows
  <1>2. y \in AddressingEvents
    BY DEF AddressingEvents
  <1> QED
    BY <1>1, <1>2, QueueMessages

\* A port status change leaves the messages of the turn alone.
LEMMA ChangeRaised ==
    ASSUME TypeInv, UNCHANGED <<pc, continuation>>, NEW p \in Ports, RaisePortStatusChange(p)
    PROVE  EventsKept
  <1>1. CASE events' = events
    BY <1>1 DEF EventsKept, Unhandled
  <1>2. CASE events' = Append(events, [type |-> "PortStatusChange", port |-> p])
    <2>1. [type |-> "PortStatusChange", port |-> p] \in Events
      BY EventTypes
    <2>2. ~IsAddressingEvent([type |-> "PortStatusChange", port |-> p])
      BY DEF IsAddressingEvent
    <2> QED
      BY <1>2, <2>1, <2>2, OtherEventRaised
  <1> QED
    BY <1>1, <1>2 DEF RaisePortStatusChange

\* ProcessEvent takes the front event: it is handled when Pop is reached or, if the
\* handler waits in ResetPort, as soon as the wait starts.
LEMMA FrontTaken ==
    ASSUME TypeInv, NEW t, Processing(t),
           \/ Pop
           \/ pc' = "ResetPort" /\ continuation'.to # "boot" /\ UNCHANGED events
    PROVE  Unhandled = events /\ Unhandled' = Tail(events)
  BY DEF Unhandled, Processing, Pop

\* The handled event is no completion of Enable Slot or Address Device.
LEMMA OtherEventTaken ==
    ASSUME TypeInv, NEW t, Processing(t), ~IsAddressingEvent(Head(events)),
           Unhandled = events, Unhandled' = Tail(events)
    PROVE  EventsKept
  <1>1. events \in Seq(Events) /\ events # <<>>
    BY DEF TypeInv, TypeOK, QueueTypes, Processing
  <1>2. Head(events) \notin AddressingEvents
    BY DEF AddressingEvents
  <1> QED
    BY <1>1, <1>2, QueueMessages DEF EventsKept

\* The completion that ProcessEvent finds is the only message of the turn.
LEMMA CompletionTaken ==
    ASSUME TypeInv, FlightInv, Processing("CommandCompletion"),
           Head(events).issuer \in {"EnableSlot", "AddressDevice"}
    PROVE  /\ EventOK(Head(events)) /\ None(commands, AddressingCommands)
           /\ None(Tail(events), AddressingEvents)
  <1>1. events \in Seq(Events) /\ events # <<>> /\ Unhandled = events
    BY DEF TypeInv, TypeOK, QueueTypes, Processing, Unhandled
  <1>2. Head(events) \in AddressingEvents
    BY <1>1, QueueFront DEF AddressingEvents, IsAddressingEvent, Processing
  <1>3. ~None(Unhandled, AddressingEvents)
    BY <1>1, <1>2, QueueMessages
  <1>4. FlightEvent
    BY <1>3 DEF FlightInv, FlightIdle, FlightCommand
  <1>5. PICK e \in Events : /\ None(commands, AddressingCommands)
                            /\ Only(Unhandled, AddressingEvents, e)
                            /\ EventOK(e)
    BY <1>4 DEF FlightEvent
  <1>6. Head(events) = e /\ None(Tail(events), AddressingEvents)
    BY <1>1, <1>2, <1>5, QueueMessages
  <1> QED
    BY <1>5, <1>6

\* The Enable Slot or Address Device command that the controller executes is the only
\* message of the turn.
LEMMA CommandTaken ==
    ASSUME TypeInv, FlightInv, commands # <<>>, IsAddressingCommand(Head(commands))
    PROVE  /\ CommandOK(Head(commands)) /\ None(Tail(commands), AddressingCommands)
           /\ None(Unhandled, AddressingEvents)
  <1>1. commands \in Seq(Commands)
    BY DEF TypeInv, TypeOK, QueueTypes
  <1>2. Head(commands) \in AddressingCommands
    BY <1>1, QueueFront DEF AddressingCommands
  <1>3. ~None(commands, AddressingCommands)
    BY <1>1, <1>2, QueueMessages
  <1>4. FlightCommand
    BY <1>3 DEF FlightInv, FlightIdle, FlightEvent
  <1>5. PICK c \in Commands : /\ Only(commands, AddressingCommands, c)
                              /\ None(Unhandled, AddressingEvents)
                              /\ CommandOK(c)
    BY <1>4 DEF FlightCommand
  <1>6. Head(commands) = c /\ None(Tail(commands), AddressingCommands)
    BY <1>1, <1>2, <1>5, QueueMessages
  <1> QED
    BY <1>5, <1>6

\* A Configure Endpoint command joins or leaves the command ring.
LEMMA OtherCommand ==
    ASSUME TypeInv,
           \/ UNCHANGED commands
           \/ \E c \in Commands : ~IsAddressingCommand(c) /\ commands' = Append(commands, c)
           \/ /\ commands # <<>> /\ ~IsAddressingCommand(Head(commands))
              /\ commands' = Tail(commands)
    PROVE  CommandsKept
  <1>1. commands \in Seq(Commands)
    BY DEF TypeInv, TypeOK, QueueTypes
  <1>2. CASE UNCHANGED commands
    BY <1>2 DEF CommandsKept
  <1>3. ASSUME NEW c \in Commands, ~IsAddressingCommand(c), commands' = Append(commands, c)
        PROVE  CommandsKept
    <2>1. c \notin AddressingCommands
      BY <1>3 DEF AddressingCommands
    <2> QED
      BY <1>1, <1>3, <2>1, QueueMessages DEF CommandsKept
  <1>4. CASE /\ commands # <<>> /\ ~IsAddressingCommand(Head(commands))
             /\ commands' = Tail(commands)
    <2>1. Head(commands) \notin AddressingCommands
      BY <1>4 DEF AddressingCommands
    <2> QED
      BY <1>1, <1>4, <2>1, QueueMessages DEF CommandsKept
  <1> QED
    BY <1>2, <1>3, <1>4

\* An Enable Slot or Address Device command is issued.
LEMMA CommandIssued ==
    ASSUME TypeInv, NEW c \in Commands, IsAddressingCommand(c),
           None(commands, AddressingCommands), commands' = Append(commands, c)
    PROVE  Only(commands', AddressingCommands, c)
  <1>1. commands \in Seq(Commands) /\ c \in AddressingCommands
    BY DEF TypeInv, TypeOK, QueueTypes, AddressingCommands
  <1> QED
    BY <1>1, QueueMessages

\* The phases before a port's device has its device context, and those after its turn.
Early == {"NotConnected", "WaitingAddressed", "ResettingPort", "EnablingSlot"}
Late == {"InitializingDevice", "ConfiguringEndpoints", "Configured"}

\* Steps that leave the message of the turn as it is, and the port in turn with it.
LEMMA FlightKept ==
    ASSUME FlightInv, CommandsKept, EventsKept,
           UNCHANGED <<addressing_port, root_hub_port_num, slots_in_use>>,
           port_config_phase'[addressing_port] = port_config_phase[addressing_port],
           port_config_phase[addressing_port] = "AddressingDevice" /\ Quiet => Quiet'
    PROVE  FlightInv'
  <1>0. addressing_port' = addressing_port
        /\ port_config_phase'[addressing_port'] = port_config_phase[addressing_port]
    OBVIOUS
  <1>1. \A s : Fresh(s)' <=> Fresh(s)
    BY DEF Fresh
  <1>2. CASE FlightIdle
    BY <1>2 DEF FlightInv, FlightIdle, CommandsKept, EventsKept
  <1>3. CASE FlightCommand
    <2>1. PICK c \in Commands : /\ Only(commands, AddressingCommands, c)
                                /\ None(Unhandled, AddressingEvents) /\ CommandOK(c)
      BY <1>3 DEF FlightCommand
    <2>2. CommandOK(c)'
      BY <1>0, <1>1, <2>1 DEF CommandOK
    <2> QED
      BY <2>1, <2>2 DEF FlightInv, FlightCommand, CommandsKept, EventsKept
  <1>4. CASE FlightEvent
    <2>1. PICK e \in Events : /\ None(commands, AddressingCommands)
                              /\ Only(Unhandled, AddressingEvents, e) /\ EventOK(e)
      BY <1>4 DEF FlightEvent
    <2>2. EventOK(e)'
      BY <1>0, <1>1, <2>1 DEF EventOK
    <2> QED
      BY <2>1, <2>2 DEF FlightInv, FlightEvent, CommandsKept, EventsKept
  <1> QED
    BY <1>2, <1>3, <1>4 DEF FlightInv

\* While the port in turn is in no phase that awaits a completion, nothing is under way.
LEMMA NothingUnderWay ==
    ASSUME FlightInv,
           port_config_phase[addressing_port] \notin {"EnablingSlot", "AddressingDevice"}
    PROVE  FlightIdle
  BY DEF FlightInv, FlightCommand, FlightEvent, CommandOK, EventOK

\* Steps that write no device context.
LEMMA SlotsKept ==
    ASSUME TypeInv, SlotInv, UNCHANGED root_hub_port_num, slots_in_use \subseteq slots_in_use',
           \A q \in 0..MaxPorts : port_config_phase'[q] \in Early => port_config_phase[q] \in Early
    PROVE  SlotInv'
  <1>1. \A s \in SlotIndex : root_hub_port_num[s] \in 0..MaxPorts
    BY DEF TypeInv, TypeOK, ControllerTypes
  <1> QED
    BY <1>1 DEF SlotInv, Early

\* Steps that end no turn and free no device.
LEMMA DevicesKept ==
    ASSUME DeviceInv, UNCHANGED root_hub_port_num,
           \A s \in SlotIndex : devices[s].alloc => devices'[s].alloc,
           \A q \in Ports : port_config_phase'[q] \in Late => port_config_phase[q] \in Late,
           \/ pc = "ResetPort" /\ UNCHANGED continuation /\ continuation \in Continuations
           \/ pc' # "ResetPort"
           \/ continuation'.to # "initialize"
    PROVE  DeviceInv'
  <1>1. ASSUME NEW p \in Ports, port_config_phase'[p] \in Late
        PROVE  \E s \in SlotIndex : devices'[s].alloc /\ root_hub_port_num'[s] = p
    BY <1>1 DEF DeviceInv, Late
  <1>2. ASSUME pc' = "ResetPort", continuation'.to = "initialize"
        PROVE  /\ devices'[continuation'.slot].alloc
               /\ root_hub_port_num'[continuation'.slot] = continuation'.port
    <2>1. pc = "ResetPort" /\ continuation' = continuation /\ continuation.slot \in SlotIndex
      BY <1>2 DEF Continuations
    <2> QED
      BY <1>2, <2>1 DEF DeviceInv
  <1> QED
    BY <1>1, <1>2 DEF DeviceInv, Late

\* Steps that start no reset and enable no port.
LEMMA DefaultKept ==
    ASSUME DefaultInv, resetting' \subseteq resetting,
           enabled' \ addressed' \subseteq enabled \ addressed,
           UNCHANGED addressing_port,
           resetting # {} => port_config_phase'[addressing_port] = port_config_phase[addressing_port],
           pc = "ResetPort" /\ pc' # "ResetPort" => resetting = {}
    PROVE  DefaultInv'
  BY DEF DefaultInv

\* Steps that leave the turn alone: the port in turn, its message and its reset.
LEMMA TurnKept ==
    ASSUME TypeInv, TurnInv, CommandsKept, EventsKept,
           UNCHANGED <<addressing_port, root_hub_port_num, slots_in_use, continuation>>,
           resetting' \subseteq resetting,
           enabled' \ addressed' \subseteq enabled \ addressed,
           port_config_phase'[addressing_port] = port_config_phase[addressing_port],
           \A q \in 0..MaxPorts : port_config_phase'[q] \in Early => port_config_phase[q] \in Early,
           \A q \in Ports : port_config_phase'[q] \in Late => port_config_phase[q] \in Late,
           \A s \in SlotIndex : devices[s].alloc => devices'[s].alloc,
           pc' = "ResetPort" => pc = "ResetPort",
           pc = "ResetPort" /\ pc' # "ResetPort" => resetting = {}
    PROVE  TurnInv'
  <1>1. FlightInv'
    BY FlightKept DEF TurnInv, Quiet
  <1>2. SlotInv'
    BY SlotsKept DEF TurnInv
  <1>3. continuation \in Continuations
    BY DEF TypeInv, TypeOK, DriverTypes
  <1>4. DeviceInv'
    BY <1>3, DevicesKept DEF TurnInv
  <1>5. DefaultInv'
    BY DefaultKept DEF TurnInv
  <1> QED
    BY <1>1, <1>2, <1>4, <1>5 DEF TurnInv

\* What plugging, unplugging and reports do to the turn: nothing, but that the port in
\* turn may lose its device.
LEMMA UserTurn ==
    ASSUME TypeInv, TurnInv, UserStep
    PROVE  TurnInv'
  <1>1. ASSUME NEW p \in Ports, NEW k \in Kinds, Plug(p, k) PROVE TurnInv'
    <2>1. /\ UNCHANGED <<pc, continuation, addressing_port, port_config_phase, devices, commands,
                         root_hub_port_num, slots_in_use, resetting, enabled, addressed>>
          /\ RaisePortStatusChange(p)
      BY <1>1 DEF Plug, driver, controller
    <2>2. CommandsKept /\ EventsKept
      BY <2>1, ChangeRaised, OtherCommand
    <2> QED
      BY <2>1, <2>2, TurnKept
  <1>2. ASSUME NEW p \in Ports, Unplug(p) PROVE TurnInv'
    <2>1. /\ UNCHANGED <<pc, continuation, addressing_port, port_config_phase, devices, commands,
                         root_hub_port_num, slots_in_use>>
          /\ RaisePortStatusChange(p)
          /\ resetting' = resetting \ {p} /\ enabled' = enabled \ {p}
          /\ addressed' = addressed \ {p}
      BY <1>2 DEF Unplug, driver, controller
    <2>2. CommandsKept /\ EventsKept
      BY <2>1, ChangeRaised, OtherCommand
    <2>3. resetting' \subseteq resetting /\ enabled' \ addressed' \subseteq enabled \ addressed
      BY <2>1
    <2> QED
      BY <2>1, <2>2, <2>3, TurnKept
  <1>3. ASSUME NEW s \in Slots, HcInterruptTransfer(s) PROVE TurnInv'
    <2>1. /\ UNCHANGED <<pc, continuation, addressing_port, port_config_phase, devices, commands,
                         root_hub_port_num, slots_in_use, resetting, enabled, addressed>>
          /\ events' = Append(events, TransferEvent(s, "InterruptIn"))
      BY <1>3 DEF HcInterruptTransfer, driver, registers, attached
    <2>2. TransferEvent(s, "InterruptIn") \in Events
      BY Indices, TransferEventType DEF TypeInv, TypeOK, Requests
    <2>3. ~IsAddressingEvent(TransferEvent(s, "InterruptIn"))
      BY DEF IsAddressingEvent, TransferEvent
    <2>4. CommandsKept /\ EventsKept
      BY <2>1, <2>2, <2>3, OtherEventRaised, OtherCommand
    <2> QED
      BY <2>1, <2>4, TurnKept
  <1> QED
    BY <1>1, <1>2, <1>3 DEF UserStep

\* Enable Slot hands out a slot whose device context no port owns.
LEMMA EnableSlotTurn ==
    ASSUME TypeInv, TurnInv, HcEnableSlot
    PROVE  TurnInv'
  <1>1. /\ UNCHANGED <<pc, continuation, addressing_port, port_config_phase, devices,
                       root_hub_port_num, resetting, enabled, addressed>>
        /\ commands # <<>> /\ Head(commands).type = "EnableSlot"
    BY DEF HcEnableSlot, driver, registers, attached
  <1>2. PICK s \in IF Slots \subseteq slots_in_use THEN {0} ELSE Slots \ slots_in_use :
            slots_in_use' = slots_in_use \cup ({s} \ {0}) /\ Complete("EnableSlot", s)
    BY DEF HcEnableSlot
  <1>3. s \in SlotIndex
    BY <1>2, Indices
  <1> DEFINE e == [type |-> "CommandCompletion", slot |-> s, issuer |-> "EnableSlot"]
  <1>4. e \in Events /\ IsAddressingEvent(e)
    BY <1>3, EventTypes DEF IsAddressingEvent
  <1>5. CommandOK(Head(commands)) /\ None(Tail(commands), AddressingCommands)
        /\ None(Unhandled, AddressingEvents)
    BY <1>1, CommandTaken DEF TurnInv, IsAddressingCommand
  <1>6. port_config_phase[addressing_port] = "EnablingSlot"
    BY <1>1, <1>5 DEF CommandOK
  <1>7. root_hub_port_num[s] = NoPort
    BY <1>2, <1>3 DEF TurnInv, SlotInv
  <1>8. e.slot = s /\ e.issuer = "EnableSlot"
    OBVIOUS
  <1>9. Fresh(s)'
    BY <1>1, <1>2, <1>7 DEF Fresh
  <1>10. EventOK(e)'
    BY <1>1, <1>6, <1>8, <1>9 DEF EventOK
  <1>11. Only(Unhandled', AddressingEvents, e)
    BY <1>1, <1>2, <1>4, <1>5, CompletionRaised DEF Complete
  <1>12. FlightInv'
    BY <1>2, <1>4, <1>5, <1>10, <1>11 DEF FlightInv, FlightEvent, Complete
  <1>13. SlotInv'
    BY <1>1, <1>2, SlotsKept DEF TurnInv
  <1>14. DeviceInv' /\ DefaultInv'
    BY <1>1 DEF TurnInv, DeviceInv, DefaultInv
  <1> QED
    BY <1>12, <1>13, <1>14 DEF TurnInv

\* Address Device gives the port in turn a device context of its own, and when it
\* succeeds the device leaves the default address.
LEMMA AddressDeviceTurn ==
    ASSUME TypeInv, TurnInv, HcAddressDevice
    PROVE  TurnInv'
  <1> DEFINE c == Head(commands)
             succeeds == c.slot # 0 /\ c.port \in enabled
             e == [type |-> "CommandCompletion", slot |-> c.slot, issuer |-> "AddressDevice"]
  <1>1. /\ UNCHANGED <<pc, continuation, addressing_port, port_config_phase, devices,
                       resetting, enabled, slots_in_use>>
        /\ commands # <<>> /\ c.type = "AddressDevice" /\ Complete("AddressDevice", c.slot)
        /\ addressed' = IF succeeds THEN addressed \cup {c.port} ELSE addressed
        /\ \/ root_hub_port_num' = [root_hub_port_num EXCEPT ![c.slot] = c.port] /\ c.slot # 0
           \/ root_hub_port_num' = root_hub_port_num
    BY DEF HcAddressDevice, driver, registers
  <1>2. c \in Commands /\ c.slot \in SlotIndex /\ c.port \in Ports
    BY <1>1, QueueFront, CommandFields DEF TypeInv, TypeOK, QueueTypes
  <1>3. e \in Events /\ IsAddressingEvent(e)
    BY <1>2, EventTypes DEF IsAddressingEvent
  <1>4. CommandOK(c) /\ None(Tail(commands), AddressingCommands)
        /\ None(Unhandled, AddressingEvents)
    BY <1>1, CommandTaken DEF TurnInv, IsAddressingCommand
  <1>5. /\ port_config_phase[addressing_port] = "AddressingDevice"
        /\ c.port = addressing_port /\ Fresh(c.slot)
        /\ \A t \in SlotIndex : root_hub_port_num[t] # addressing_port
    BY <1>1, <1>4 DEF CommandOK
  <1>6. c.slot # 0 => Quiet'
    BY <1>1, <1>5 DEF Quiet
  <1>7. e.slot = c.slot /\ e.issuer = "AddressDevice"
    OBVIOUS
  <1>8. PICK d \in Events : d = e
    BY <1>3
  <1>e. EventOK(d)'
    BY <1>1, <1>5, <1>6, <1>7, <1>8 DEF EventOK
  <1>9. Only(Unhandled', AddressingEvents, e)
    BY <1>1, <1>3, <1>4, CompletionRaised DEF Complete
  <1>10. FlightInv'
    BY <1>1, <1>4, <1>8, <1>9, <1>e DEF FlightInv, FlightEvent, Complete
  <1>11. DefaultInv'
    BY <1>1 DEF TurnInv, DefaultInv
  <1>12. CASE root_hub_port_num' = root_hub_port_num
    <2>1. SlotInv'
      BY <1>1, <1>12, SlotsKept DEF TurnInv
    <2>2. DeviceInv'
      BY <1>1, <1>12 DEF TurnInv, DeviceInv
    <2> QED
      BY <1>10, <1>11, <2>1, <2>2 DEF TurnInv
  <1>13. CASE root_hub_port_num' = [root_hub_port_num EXCEPT ![c.slot] = c.port] /\ c.slot # 0
    <2>1. ASSUME NEW t \in SlotIndex
          PROVE  root_hub_port_num'[t] = IF t = c.slot THEN addressing_port
                                                       ELSE root_hub_port_num[t]
      BY <1>5, <1>13 DEF TypeInv, TypeOK, ControllerTypes
    <2>2. c.slot \in slots_in_use /\ root_hub_port_num[c.slot] = NoPort
      BY <1>5, <1>13 DEF Fresh
    <2>3. SlotInv'
      <3>1. root_hub_port_num'[0] = NoPort
        BY <1>13, <2>1, Indices DEF TurnInv, SlotInv
      <3>2. ASSUME NEW t \in SlotIndex, root_hub_port_num'[t] # NoPort
            PROVE  /\ t \in slots_in_use'
                   /\ port_config_phase'[root_hub_port_num'[t]] \notin Early
                   /\ \A u \in SlotIndex :
                         root_hub_port_num'[u] = root_hub_port_num'[t] => u = t
        <4>1. CASE t = c.slot
          BY <1>1, <1>5, <2>1, <2>2, <4>1 DEF Early
        <4>2. CASE t # c.slot
          BY <1>1, <1>5, <2>1, <2>2, <3>2, <4>2 DEF TurnInv, SlotInv, Early
        <4> QED
          BY <4>1, <4>2
      <3> QED
        BY <3>1, <3>2 DEF SlotInv, Early
    <2>4. ASSUME NEW t \in SlotIndex, root_hub_port_num[t] \in Ports
          PROVE  root_hub_port_num'[t] = root_hub_port_num[t]
      BY <2>1, <2>2, <2>4, Indices
    <2>5. ASSUME NEW p \in Ports, port_config_phase'[p] \in Late
          PROVE  \E t \in SlotIndex : devices'[t].alloc /\ root_hub_port_num'[t] = p
      BY <1>1, <2>4, <2>5 DEF TurnInv, DeviceInv, Late
    <2>6. ASSUME pc' = "ResetPort", continuation'.to = "initialize"
          PROVE  /\ devices'[continuation'.slot].alloc
                 /\ root_hub_port_num'[continuation'.slot] = continuation'.port
      <3>1. continuation.slot \in SlotIndex /\ continuation.port \in Ports
        BY <1>1, <2>6 DEF TypeInv, TypeOK, DriverTypes, Continuations
      <3> QED
        BY <1>1, <2>4, <2>6, <3>1 DEF TurnInv, DeviceInv
    <2>7. DeviceInv'
      BY <2>5, <2>6 DEF DeviceInv, Late
    <2> QED
      BY <1>10, <1>11, <2>3, <2>7 DEF TurnInv
  <1> QED
    BY <1>1, <1>12, <1>13

\* The end of a reset enables the port in turn; it is not addressed before the driver
\* has seen that.
LEMMA ResetDoneTurn ==
    ASSUME TypeInv, TurnInv, NEW p \in Ports, HcResetDone(p)
    PROVE  TurnInv'
  <1>1. /\ UNCHANGED <<pc, continuation, addressing_port, port_config_phase, devices, commands,
                       root_hub_port_num, slots_in_use, addressed>>
        /\ RaisePortStatusChange(p) /\ p \in resetting
        /\ resetting' = resetting \ {p} /\ enabled' = enabled \cup {p}
    BY DEF HcResetDone, driver, controller, attached
  <1>2. CommandsKept /\ EventsKept
    BY <1>1, ChangeRaised, OtherCommand
  <1>3. p = addressing_port /\ port_config_phase[p] = "ResettingPort"
    BY <1>1 DEF TurnInv, DefaultInv
  <1>4. FlightInv'
    BY <1>1, <1>2, <1>3, FlightKept DEF TurnInv
  <1>5. SlotInv' /\ DeviceInv'
    BY <1>1 DEF TurnInv, SlotInv, DeviceInv
  <1>6. DefaultInv'
    BY <1>1, <1>3 DEF TurnInv, DefaultInv
  <1> QED
    BY <1>4, <1>5, <1>6 DEF TurnInv

\* Every step of the controller keeps the turn.
LEMMA HcTurn ==
    ASSUME TypeInv, TurnInv, HcStep
    PROVE  TurnInv'
  <1>1. CASE HcConfigureEndpoint
    <2>1. /\ UNCHANGED <<pc, continuation, addressing_port, port_config_phase, devices,
                         root_hub_port_num, slots_in_use, resetting, enabled, addressed>>
          /\ commands # <<>> /\ Head(commands).type = "ConfigureEndpoint"
          /\ Complete("ConfigureEndpoint", Head(commands).slot)
      BY <1>1 DEF HcConfigureEndpoint, driver, controller, registers, attached
    <2>2. Head(commands).slot \in SlotIndex
      BY <2>1, QueueFront, CommandFields DEF TypeInv, TypeOK, QueueTypes
    <2> DEFINE e == [type |-> "CommandCompletion", slot |-> Head(commands).slot,
                     issuer |-> "ConfigureEndpoint"]
    <2>3. e \in Events /\ ~IsAddressingEvent(e)
      BY <2>2, EventTypes DEF IsAddressingEvent
    <2>4. CommandsKept
      BY <2>1, OtherCommand DEF Complete, IsAddressingCommand
    <2>5. EventsKept
      BY <2>1, <2>3, OtherEventRaised DEF Complete
    <2> QED
      BY <2>1, <2>4, <2>5, TurnKept
  <1>2. ASSUME NEW s \in Slots, HcControlTransfer(s) PROVE TurnInv'
    <2>1. /\ UNCHANGED <<pc, continuation, addressing_port, port_config_phase, devices, commands,
                         root_hub_port_num, slots_in_use, resetting, enabled, addressed>>
          /\ ep0[s] # <<>> /\ events' = Append(events, TransferEvent(s, Head(ep0[s])))
      BY <1>2 DEF HcControlTransfer, driver, controller, registers, attached
    <2>2. Head(ep0[s]) \in Requests
      BY <2>1, Indices, QueueFront DEF TypeInv, TypeOK, QueueTypes
    <2>3. TransferEvent(s, Head(ep0[s])) \in Events
      BY <2>2, Indices, TransferEventType DEF TypeInv, TypeOK
    <2>4. ~IsAddressingEvent(TransferEvent(s, Head(ep0[s])))
      BY DEF IsAddressingEvent, TransferEvent
    <2>5. CommandsKept /\ EventsKept
      BY <2>1, <2>3, <2>4, OtherEventRaised, OtherCommand
    <2> QED
      BY <2>1, <2>5, TurnKept
  <1> QED
    BY <1>1, <1>2, EnableSlotTurn, AddressDeviceTurn, ResetDoneTurn DEF HcStep

\* ResetPort called by the boot loop or for a port status change: it starts a reset only
\* when no port has the turn, so when no device is at the default address.
LEMMA ResetPortTurn ==
    ASSUME TypeInv, ExclusionInv, TurnInv, NEW q \in Ports, NEW cont,
           cont.to # "initialize", pc # "ResetPort", port_config_phase[q] = "NotConnected",
           ResetPort(q, addressing_port, cont), EventsKept,
           UNCHANGED <<commands, root_hub_port_num, slots_in_use, devices>>
    PROVE  TurnInv'
  <1>0. port_config_phase \in PhaseMaps /\ addressing_port \in 0..MaxPorts
        /\ enabled \subseteq Ports /\ resetting = {} /\ CommandsKept
    BY OtherCommand DEF TypeInv, TypeOK, DriverTypes, PortTypes, TurnInv, DefaultInv
  <1>1. addressing_port # q
    BY DEF ExclusionInv, Turns, InTurn, HandedOver
  <1>2. ASSUME NEW r \in 0..MaxPorts, r # q
        PROVE  port_config_phase'[r] = port_config_phase[r]
    BY <1>0, <1>2, Indices DEF PhaseMaps, ResetPort
  <1>3. port_config_phase'[q] = IF MayReset(q, addressing_port) THEN "ResettingPort"
                                ELSE IF MustWait(q, addressing_port) THEN "WaitingAddressed"
                                ELSE "NotConnected"
    BY <1>0, Indices DEF PhaseMaps, ResetPort
  <1>4. /\ \A r \in 0..MaxPorts : port_config_phase'[r] \in Early => port_config_phase[r] \in Early
        /\ \A r \in Ports : port_config_phase'[r] \in Late => port_config_phase[r] \in Late
    BY <1>2, <1>3, Indices DEF Early, Late
  <1>5. SlotInv'
    BY <1>4, SlotsKept DEF TurnInv
  <1>6. pc' = "ResetPort" /\ continuation' = cont
    BY DEF ResetPort
  <1>7. DeviceInv'
    BY <1>4, <1>6, DevicesKept DEF TurnInv
  <1>8. CASE MayReset(q, addressing_port)
    <2>1. addressing_port = NoPort /\ addressing_port' = q
      BY <1>8 DEF MayReset, ResetPort
    <2>2. port_config_phase[addressing_port] = "NotConnected"
      BY <1>0, <2>1 DEF PhaseMaps
    <2>3. FlightIdle
      BY <2>2, NothingUnderWay DEF TurnInv
    <2>4. FlightInv'
      BY <1>0, <2>3 DEF FlightInv, FlightIdle, CommandsKept, EventsKept
    <2>5. /\ resetting' = {q} /\ enabled' = enabled \ {q} /\ addressed' = addressed \ {q}
      BY <1>0, <1>8 DEF ResetPort
    <2>6. enabled \ addressed = {}
      BY <1>0, <2>1, Indices DEF TurnInv, DefaultInv
    <2>7. DefaultInv'
      BY <1>3, <1>6, <1>8, <2>1, <2>5, <2>6 DEF DefaultInv
    <2> QED
      BY <1>5, <1>7, <2>4, <2>7 DEF TurnInv
  <1>9. CASE ~MayReset(q, addressing_port)
    <2>1. UNCHANGED <<addressing_port, resetting, enabled, addressed>>
      BY <1>9 DEF ResetPort
    <2>2. port_config_phase'[addressing_port] = port_config_phase[addressing_port]
      BY <1>0, <1>1, <1>2
    <2>3. FlightInv'
      BY <1>0, <2>1, <2>2, FlightKept DEF TurnInv, Quiet
    <2>4. DefaultInv'
      BY <1>0, <1>6, <2>1, <2>2, DefaultKept DEF TurnInv
    <2> QED
      BY <1>5, <1>7, <2>3, <2>4 DEF TurnInv
  <1> QED
    BY <1>8, <1>9

\* The port in turn is enabled again and asks for a slot.
LEMMA ResettingTurn ==
    ASSUME TypeInv, ExclusionInv, TurnInv, PortStatusChangeResetting
    PROVE  TurnInv'
  <1> DEFINE p == Head(events).port
             c == [type |-> "EnableSlot", slot |-> 0, port |-> NoPort]
  <1>1. /\ UNCHANGED <<addressing_port, devices, root_hub_port_num, slots_in_use, resetting,
                       enabled, addressed>>
        /\ Processing("PortStatusChange") /\ Pop
        /\ port_config_phase[p] = "ResettingPort" /\ EnableSlot(p)
    BY DEF PortStatusChangeResetting, controller, attached
  <1>2. p \in Ports /\ pc = "main" /\ pc' = "main" /\ UNCHANGED continuation
    BY <1>1, ProcessingFront, EventFields DEF Processing, Pop, TypeInv, TypeOK
  <1>3. EventsKept
    BY <1>1, FrontTaken, OtherEventTaken DEF Processing, IsAddressingEvent
  <1>4. CASE UNCHANGED <<port_config_phase, commands>>
    <2>1. CommandsKept
      BY <1>4, OtherCommand
    <2> QED
      BY <1>1, <1>2, <1>3, <1>4, <2>1, TurnKept
  <1>5. CASE /\ port_config_phase' = [port_config_phase EXCEPT ![p] = "EnablingSlot"]
             /\ commands' = Append(commands, c)
    <2>0. port_config_phase \in PhaseMaps
      BY DEF TypeInv, TypeOK, DriverTypes
    <2>1. addressing_port = p
      BY <1>1, <1>2 DEF ExclusionInv, Turns, InTurn, HandedOver
    <2>2. FlightIdle
      BY <1>1, <2>1, NothingUnderWay DEF TurnInv
    <2>3. port_config_phase'[p] = "EnablingSlot"
          /\ \A r \in 0..MaxPorts : r # p => port_config_phase'[r] = port_config_phase[r]
      BY <1>2, <1>5, <2>0, Indices DEF PhaseMaps
    <2>4. c \in Commands /\ IsAddressingCommand(c) /\ c.type = "EnableSlot"
      BY CommandTypes DEF IsAddressingCommand
    <2>5. Only(commands', AddressingCommands, c)
      BY <1>5, <2>2, <2>4, CommandIssued DEF FlightIdle
    <2>6. CommandOK(c)'
      BY <1>1, <2>1, <2>3, <2>4 DEF CommandOK
    <2>7. FlightInv'
      BY <1>3, <2>2, <2>4, <2>5, <2>6 DEF FlightInv, FlightIdle, FlightCommand, EventsKept
    <2>8. /\ \A r \in 0..MaxPorts :
                port_config_phase'[r] \in Early => port_config_phase[r] \in Early
          /\ \A r \in Ports : port_config_phase'[r] \in Late => port_config_phase[r] \in Late
      BY <1>1, <2>3, Indices DEF Early, Late
    <2>9. SlotInv' /\ DeviceInv'
      BY <1>1, <1>2, <2>8, SlotsKept, DevicesKept DEF TurnInv
    <2>10. resetting = {}
      BY <1>2 DEF TurnInv, DefaultInv
    <2>11. DefaultInv'
      BY <1>1, <1>2, <2>10, DefaultKept DEF TurnInv
    <2> QED
      BY <2>7, <2>9, <2>11 DEF TurnInv
  <1> QED
    BY <1>1, <1>4, <1>5 DEF EnableSlot

\* The slot for the port in turn arrives and Address Device is issued.
LEMMA SlotEnabledTurn ==
    ASSUME TypeInv, TurnInv, SlotEnabled
    PROVE  TurnInv'
  <1> DEFINE s == Head(events).slot
             c == [type |-> "AddressDevice", slot |-> s, port |-> addressing_port]
  <1>1. /\ UNCHANGED <<addressing_port, root_hub_port_num, slots_in_use, resetting,
                       enabled, addressed>>
        /\ Processing("CommandCompletion") /\ Head(events).issuer = "EnableSlot" /\ Pop
    BY DEF SlotEnabled, controller, registers, attached
  <1>2. s \in SlotIndex /\ pc = "main" /\ pc' = "main" /\ UNCHANGED continuation
    BY <1>1, ProcessingFront, EventFields DEF Processing, Pop, TypeInv, TypeOK
  <1>3. EventOK(Head(events)) /\ None(commands, AddressingCommands)
        /\ None(Unhandled', AddressingEvents)
    BY <1>1, CompletionTaken, FrontTaken DEF TurnInv
  <1>4. port_config_phase[addressing_port] = "EnablingSlot" /\ Fresh(s)
    BY <1>1, <1>3 DEF EventOK
  <1>5. AddressDevice(addressing_port, s)
    BY <1>4 DEF SlotEnabled
  <1>6. port_config_phase \in PhaseMaps /\ addressing_port \in 0..MaxPorts
        /\ devices \in [SlotIndex -> DeviceRecords]
    BY DEF TypeInv, TypeOK, DriverTypes
  <1>7. addressing_port \in Ports
    BY <1>4, <1>6, PhaseOfPort
  <1>8. port_config_phase'[addressing_port] = "AddressingDevice"
        /\ \A r \in 0..MaxPorts : r # addressing_port => port_config_phase'[r] = port_config_phase[r]
    BY <1>5, <1>6, Indices DEF PhaseMaps, AddressDevice
  <1>9. \A t \in SlotIndex : root_hub_port_num[t] # addressing_port
    BY <1>4, <1>7, Indices DEF TurnInv, SlotInv
  <1>10. c \in Commands /\ IsAddressingCommand(c) /\ c.type = "AddressDevice"
         /\ c.slot = s /\ c.port = addressing_port
    BY <1>2, <1>7, CommandTypes DEF IsAddressingCommand
  <1>11. Only(commands', AddressingCommands, c)
    BY <1>3, <1>5, <1>10, CommandIssued DEF AddressDevice
  <1>12. PICK d \in Commands : d = c
    BY <1>10
  <1>13. CommandOK(d)'
    BY <1>1, <1>4, <1>8, <1>9, <1>10, <1>12 DEF CommandOK, Fresh
  <1>14. FlightInv'
    BY <1>3, <1>11, <1>12, <1>13 DEF FlightInv, FlightCommand
  <1>15. /\ \A r \in 0..MaxPorts :
               port_config_phase'[r] \in Early => port_config_phase[r] \in Early
         /\ \A r \in Ports : port_config_phase'[r] \in Late => port_config_phase[r] \in Late
    BY <1>8, Indices DEF Early, Late
  <1>16. \A t \in SlotIndex : devices[t].alloc => devices'[t].alloc
    BY <1>2, <1>5, <1>6 DEF AddressDevice, DeviceRecords
  <1>17. SlotInv' /\ DeviceInv'
    BY <1>1, <1>2, <1>15, <1>16, SlotsKept, DevicesKept DEF TurnInv
  <1>18. resetting = {}
    BY <1>2 DEF TurnInv, DefaultInv
  <1>19. DefaultInv'
    BY <1>1, <1>2, <1>18, DefaultKept DEF TurnInv
  <1> QED
    BY <1>14, <1>17, <1>19 DEF TurnInv

\* The device in turn has its address: the turn ends, or passes to a waiting port.
LEMMA DeviceAddressedTurn ==
    ASSUME TypeInv, ExclusionInv, TurnInv, DeviceAddressed
    PROVE  TurnInv'
  <1> DEFINE s == Head(events).slot
             p == PortOf(s)
             cont == [to |-> "initialize", port |-> p, slot |-> s]
  <1>1. /\ UNCHANGED <<root_hub_port_num, slots_in_use, commands>>
        /\ Processing("CommandCompletion") /\ Head(events).issuer = "AddressDevice"
    BY DEF DeviceAddressed, controller
  <1>2. s \in SlotIndex /\ pc = "main"
    BY <1>1, ProcessingFront, EventFields DEF Processing, TypeInv, TypeOK
  <1>3. EventOK(Head(events)) /\ None(commands, AddressingCommands)
        /\ None(Tail(events), AddressingEvents)
    BY <1>1, CompletionTaken DEF TurnInv
  <1>4. s # 0 => Quiet
    BY <1>1, <1>3 DEF EventOK
  <1>5. port_config_phase \in PhaseMaps /\ p \in 0..MaxPorts
        /\ devices \in [SlotIndex -> DeviceRecords] /\ resetting = {}
    BY <1>2 DEF TypeInv, TypeOK, DriverTypes, ControllerTypes, PortOf, TurnInv, DefaultInv
  <1>6. ASSUME Unhandled' = Tail(events) PROVE FlightInv'
    BY <1>1, <1>3, <1>6 DEF FlightInv, FlightIdle
  <1>7. ASSUME p = addressing_port, port_config_phase[p] = "AddressingDevice"
        PROVE  p \in Ports /\ root_hub_port_num[s] = p /\ enabled \ addressed = {}
    <2>1. p \in Ports
      BY <1>5, <1>7, PhaseOfPort
    <2>2. root_hub_port_num[s] = p
      BY DEF PortOf
    <2>3. s # 0
      BY <2>1, <2>2, Indices DEF TurnInv, SlotInv
    <2>4. enabled \ addressed = {}
      BY <1>4, <2>3 DEF TurnInv, DefaultInv, Quiet
    <2> QED
      BY <2>1, <2>2, <2>4
  <1>8. CASE /\ FindBySlot(s) /\ p = addressing_port /\ port_config_phase[p] = "AddressingDevice"
             /\ \E w \in WaitingPorts : ResetPort(w, NoPort, cont)
             /\ UNCHANGED <<devices, events>>
    <2>1. PICK w \in WaitingPorts : ResetPort(w, NoPort, cont)
      BY <1>8
    <2>2. w \in Ports /\ port_config_phase[w] = "WaitingAddressed"
      BY <2>1 DEF WaitingPorts
    <2>3. /\ pc' = "ResetPort" /\ continuation' = cont
          /\ cont.to = "initialize" /\ cont.port = p /\ cont.slot = s
      BY <2>1 DEF ResetPort
    <2>4. FlightInv'
      BY <1>1, <1>6, <1>8, <2>3, FrontTaken
    <2>5. /\ port_config_phase'[w] \in {"ResettingPort", "WaitingAddressed"}
          /\ \A r \in 0..MaxPorts : r # w => port_config_phase'[r] = port_config_phase[r]
      BY <1>5, <2>1, <2>2, Indices DEF PhaseMaps, ResetPort
    <2>6. /\ \A r \in 0..MaxPorts :
                port_config_phase'[r] \in Early => port_config_phase[r] \in Early
          /\ \A r \in Ports : port_config_phase'[r] \in Late => port_config_phase[r] \in Late
      BY <2>2, <2>5, Indices DEF Early, Late
    <2>7. SlotInv'
      BY <1>1, <2>6, SlotsKept DEF TurnInv
    <2>8. ASSUME NEW r \in Ports, port_config_phase'[r] \in Late
          PROVE  \E t \in SlotIndex : devices'[t].alloc /\ root_hub_port_num'[t] = r
      BY <1>1, <1>8, <2>6, <2>8 DEF TurnInv, DeviceInv, Late
    <2>9. devices'[continuation'.slot].alloc
          /\ root_hub_port_num'[continuation'.slot] = continuation'.port
      BY <1>1, <1>8, <2>3, <1>7
    <2>10. DeviceInv'
      BY <2>8, <2>9 DEF DeviceInv, Late
    <2>11. \/ /\ addressing_port' = w /\ resetting' = {w}
              /\ port_config_phase'[w] = "ResettingPort"
              /\ enabled' = enabled \ {w} /\ addressed' = addressed \ {w}
           \/ resetting' = {} /\ UNCHANGED <<enabled, addressed>>
      BY <1>5, <2>1, <2>2, Indices DEF PhaseMaps, ResetPort
    <2>12. enabled \ addressed = {}
      BY <1>7, <1>8
    <2>13. DefaultInv'
      BY <2>3, <2>11, <2>12 DEF DefaultInv
    <2> QED
      BY <2>4, <2>7, <2>10, <2>13 DEF TurnInv
  <1>9. CASE /\ FindBySlot(s) /\ p = addressing_port /\ port_config_phase[p] = "AddressingDevice"
             /\ addressing_port' = NoPort /\ InitializeDevice(p, s) /\ Pop
             /\ UNCHANGED <<resetting, enabled, addressed>>
    <2>1. p \in Ports /\ root_hub_port_num[s] = p /\ enabled \ addressed = {}
      BY <1>7, <1>9
    <2>2. FlightInv' /\ pc' = "main"
      BY <1>1, <1>2, <1>6, <1>9, FrontTaken DEF Pop
    <2>3. /\ port_config_phase'[p] = "InitializingDevice"
          /\ \A r \in 0..MaxPorts : r # p => port_config_phase'[r] = port_config_phase[r]
      BY <1>5, <1>9, <2>1, Indices DEF PhaseMaps, InitializeDevice
    <2>4. SlotInv'
      BY <1>1, <2>3, SlotsKept DEF TurnInv, Early
    <2>5. \A t \in SlotIndex : devices[t].alloc => devices'[t].alloc
      BY <1>2, <1>5, <1>9 DEF InitializeDevice, DeviceRecords
    <2>6. ASSUME NEW r \in Ports, port_config_phase'[r] \in Late
          PROVE  \E t \in SlotIndex : devices'[t].alloc /\ root_hub_port_num'[t] = r
      <3>1. CASE r = p
        BY <1>1, <1>2, <1>9, <2>1, <2>5, <3>1
      <3>2. CASE r # p
        BY <1>1, <2>3, <2>5, <2>6, <3>2, Indices DEF TurnInv, DeviceInv, Late
      <3> QED
        BY <3>1, <3>2
    <2>7. DeviceInv'
      BY <2>2, <2>6 DEF DeviceInv, Late
    <2>8. DefaultInv'
      BY <1>5, <1>9, <2>1 DEF DefaultInv
    <2> QED
      BY <2>2, <2>4, <2>7, <2>8 DEF TurnInv
  <1>10. CASE /\ Pop
              /\ UNCHANGED <<addressing_port, port_config_phase, devices, resetting, enabled,
                             addressed>>
    <2>1. FlightInv' /\ pc' = "main" /\ UNCHANGED continuation
      BY <1>1, <1>2, <1>6, <1>10, FrontTaken DEF Pop
    <2>2. SlotInv' /\ DeviceInv'
      BY <1>1, <1>10, <2>1, SlotsKept, DevicesKept DEF TurnInv
    <2>3. DefaultInv'
      BY <1>5, <1>10, DefaultKept DEF TurnInv
    <2> QED
      BY <2>1, <2>2, <2>3 DEF TurnInv
  <1> QED
    BY <1>8, <1>9, <1>10 DEF DeviceAddressed

\* ResetPort returns; the device that waited for it is initialized.
LEMMA ResetPortReturnsTurn ==
    ASSUME TypeInv, ExclusionInv, TurnInv, ResetPortReturns
    PROVE  TurnInv'
  <1>1. /\ UNCHANGED <<addressing_port, root_hub_port_num, slots_in_use, commands, continuation,
                       resetting, enabled, addressed>>
        /\ pc = "ResetPort" /\ resetting = {} /\ pc' # "ResetPort"
    BY DEF ResetPortReturns, registers, attached, controller
  <1>2. Unhandled' = Unhandled
    BY DEF ResetPortReturns, Unhandled
  <1>3. CommandsKept /\ EventsKept
    BY <1>1, <1>2, OtherCommand DEF EventsKept
  <1>4. CASE continuation.to # "initialize"
    <2>1. UNCHANGED <<port_config_phase, devices>>
      BY <1>4 DEF ResetPortReturns
    <2> QED
      BY <1>1, <1>3, <2>1, TurnKept
  <1>5. CASE continuation.to = "initialize"
    <2> DEFINE p == continuation.port
               s == continuation.slot
    <2>1. port_config_phase \in PhaseMaps /\ addressing_port \in 0..MaxPorts
          /\ devices \in [SlotIndex -> DeviceRecords] /\ p \in Ports /\ s \in SlotIndex
      BY <1>5 DEF TypeInv, TypeOK, DriverTypes, Continuations
    <2>2. InitializeDevice(p, s)
      BY <1>5 DEF ResetPortReturns
    <2>3. port_config_phase[p] = "AddressingDevice" /\ addressing_port # p
      BY <1>1, <1>5, <2>1 DEF ExclusionInv, HandOver, HandedOver
    <2>4. /\ port_config_phase'[p] = "InitializingDevice"
          /\ \A r \in 0..MaxPorts : r # p => port_config_phase'[r] = port_config_phase[r]
      BY <2>1, <2>2, Indices DEF PhaseMaps, InitializeDevice
    <2>5. FlightInv'
      BY <1>1, <1>3, <2>1, <2>3, <2>4, FlightKept DEF TurnInv, Quiet
    <2>6. SlotInv'
      BY <1>1, <2>4, SlotsKept DEF TurnInv, Early
    <2>7. \A t \in SlotIndex : devices[t].alloc => devices'[t].alloc
      BY <2>1, <2>2 DEF InitializeDevice, DeviceRecords
    <2>8. devices[s].alloc /\ root_hub_port_num[s] = p
      BY <1>1, <1>5 DEF TurnInv, DeviceInv
    <2>9. ASSUME NEW r \in Ports, port_config_phase'[r] \in Late
          PROVE  \E t \in SlotIndex : devices'[t].alloc /\ root_hub_port_num'[t] = r
      <3>1. CASE r = p
        BY <1>1, <2>1, <2>7, <2>8, <3>1
      <3>2. CASE r # p
        BY <1>1, <2>4, <2>7, <2>9, <3>2, Indices DEF TurnInv, DeviceInv, Late
      <3> QED
        BY <3>1, <3>2
    <2>10. DeviceInv'
      BY <1>1, <2>9 DEF DeviceInv, Late
    <2>11. DefaultInv'
      BY <1>1, DefaultKept DEF TurnInv
    <2> QED
      BY <2>5, <2>6, <2>10, <2>11 DEF TurnInv
  <1> QED
    BY <1>4, <1>5

\* The initialization of a device whose turn is over moves its port among the late phases
\* only, and leaves the turn of another port alone.
LEMMA LateStepTurn ==
    ASSUME TypeInv, ExclusionInv, TurnInv, NEW t, Processing(t), Pop,
           ~IsAddressingEvent(Head(events)),
           UNCHANGED <<addressing_port, root_hub_port_num, slots_in_use, resetting, enabled,
                       addressed>>,
           CommandsKept,
           \A s \in SlotIndex : devices[s].alloc => devices'[s].alloc,
           \/ UNCHANGED port_config_phase
           \/ \E p \in Ports, f \in Late :
                 /\ port_config_phase[p] \in Late
                 /\ port_config_phase' = [port_config_phase EXCEPT ![p] = f]
    PROVE  TurnInv'
  <1>1. pc = "main" /\ pc' = "main" /\ UNCHANGED continuation
    BY DEF Processing, Pop
  <1>2. EventsKept
    BY FrontTaken, OtherEventTaken
  <1>3. CASE UNCHANGED port_config_phase
    BY <1>1, <1>2, <1>3, TurnKept
  <1>4. ASSUME NEW p \in Ports, NEW f \in Late, port_config_phase[p] \in Late,
               port_config_phase' = [port_config_phase EXCEPT ![p] = f]
        PROVE  TurnInv'
    <2>1. port_config_phase \in PhaseMaps /\ addressing_port \in 0..MaxPorts
      BY DEF TypeInv, TypeOK, DriverTypes
    <2>2. addressing_port # p
      BY <1>1, <1>4 DEF ExclusionInv, Turns, InTurn, Late, HandedOver
    <2>3. \A r \in 0..MaxPorts :
              port_config_phase'[r] = IF r = p THEN f ELSE port_config_phase[r]
      BY <1>4, <2>1, Indices DEF PhaseMaps
    <2>4. \A r \in 0..MaxPorts :
              port_config_phase'[r] \in Early => port_config_phase[r] \in Early
      BY <2>3 DEF Early, Late
    <2>5. \A r \in Ports : port_config_phase'[r] \in Late => port_config_phase[r] \in Late
      BY <1>4, <2>3, Indices
    <2>6. port_config_phase'[addressing_port] = port_config_phase[addressing_port]
      BY <2>1, <2>2, <2>3
    <2> QED
      BY <1>1, <1>2, <2>4, <2>5, <2>6, TurnKept
  <1> QED
    BY <1>3, <1>4

\* Every step of the driver keeps the turn.
LEMMA DriverTurn ==
    ASSUME TypeInv, ExclusionInv, TurnInv, DriverStep
    PROVE  TurnInv'
  <1>a. ControllerTypes /\ QueueTypes /\ DriverTypes
    BY DEF TypeInv, TypeOK
  <1>b. port_config_phase \in PhaseMaps /\ boot_port \in 1..(MaxPorts + 1)
        /\ devices \in [SlotIndex -> DeviceRecords]
    BY <1>a DEF DriverTypes
  <1>1. CASE BootConfigurePort
    <2>1. /\ pc = "boot" /\ boot_port \in Ports
          /\ UNCHANGED <<root_hub_port_num, slots_in_use, devices, commands, events>>
      BY <1>1, <1>b, PortsAssumption DEF BootConfigurePort, BootLoop, Ports, controller
    <2>2. CASE boot_port \in connected /\ port_config_phase[boot_port] = "NotConnected"
      <3>1. ResetPort(boot_port, addressing_port, [to |-> "boot"])
        BY <1>1, <2>2 DEF BootConfigurePort
      <3>2. Unhandled' = Unhandled
        BY <2>1, <3>1 DEF ResetPort, Unhandled
      <3>3. EventsKept
        BY <3>2 DEF EventsKept
      <3> QED
        BY <2>1, <2>2, <3>1, <3>3, ResetPortTurn
    <2>3. CASE ~(boot_port \in connected /\ port_config_phase[boot_port] = "NotConnected")
      <3>1. UNCHANGED <<resetting, enabled, addressed, port_config_phase, addressing_port, pc,
                        continuation>>
        BY <1>1, <2>3 DEF BootConfigurePort, registers
      <3>2. CommandsKept /\ EventsKept
        BY <2>1, <3>1, OtherCommand DEF EventsKept, Unhandled
      <3> QED
        BY <2>1, <3>1, <3>2, TurnKept
    <2> QED
      BY <2>2, <2>3
  <1>2. CASE EnterMainLoop
    <2>1. /\ pc = "boot" /\ pc' = "main"
          /\ UNCHANGED <<resetting, enabled, addressed, port_config_phase, addressing_port,
                         continuation, root_hub_port_num, slots_in_use, devices, commands, events>>
      BY <1>2 DEF EnterMainLoop, registers, attached, controller
    <2>2. CommandsKept /\ EventsKept
      BY <2>1, OtherCommand DEF EventsKept, Unhandled
    <2> QED
      BY <2>1, <2>2, TurnKept
  <1>3. CASE PortStatusChangeNotConnected
    <2>1. /\ Processing("PortStatusChange") /\ StartsPort(Head(events).port)
          /\ ResetPort(Head(events).port, addressing_port, [to |-> "pop"])
          /\ UNCHANGED <<root_hub_port_num, slots_in_use, devices, commands, events>>
      BY <1>3 DEF PortStatusChangeNotConnected, controller
    <2>2. Head(events).port \in Ports /\ pc # "ResetPort"
      BY <1>a, <2>1, ProcessingFront, EventFields DEF Processing
    <2>3. pc' = "ResetPort" /\ continuation'.to = "pop"
      BY <2>1 DEF ResetPort
    <2>4. EventsKept
      BY <2>1, <2>3, FrontTaken, OtherEventTaken DEF Processing, IsAddressingEvent
    <2> QED
      BY <2>1, <2>2, <2>4, ResetPortTurn DEF StartsPort
  <1>4. CASE PortStatusChangeInvalidPhase
    <2>1. /\ Processing("PortStatusChange") /\ Pop
          /\ UNCHANGED <<resetting, enabled, addressed, port_config_phase, addressing_port,
                         root_hub_port_num, slots_in_use, devices, commands>>
      BY <1>4 DEF PortStatusChangeInvalidPhase, registers, attached, controller
    <2> QED
      BY <2>1, OtherCommand, LateStepTurn DEF Processing, IsAddressingEvent
  <1>5. CASE EndpointsConfigured
    <2> DEFINE s == Head(events).slot
               p == PortOf(s)
    <2>1. /\ Processing("CommandCompletion") /\ Pop /\ Head(events).issuer = "ConfigureEndpoint"
          /\ UNCHANGED <<resetting, enabled, addressed, addressing_port, root_hub_port_num,
                         slots_in_use, commands>>
      BY <1>5 DEF EndpointsConfigured, registers, attached, controller
    <2>2. s \in SlotIndex /\ p \in 0..MaxPorts
      BY <1>a, <2>1, ProcessingFront, EventFields DEF PortOf, ControllerTypes
    <2>3. ~IsAddressingEvent(Head(events)) /\ CommandsKept
      BY <2>1, OtherCommand DEF IsAddressingEvent
    <2>4. CASE UNCHANGED <<devices, port_config_phase>>
      BY <2>1, <2>3, <2>4, LateStepTurn
    <2>5. CASE /\ port_config_phase[p] = "ConfiguringEndpoints"
               /\ devices' = [devices EXCEPT ![s].hid_phase = 1]
               /\ port_config_phase' = [port_config_phase EXCEPT ![p] = "Configured"]
      <3>1. p \in Ports
        BY <1>b, <2>2, <2>5, PhaseOfPort
      <3>2. \A t \in SlotIndex : devices[t].alloc => devices'[t].alloc
        BY <1>b, <2>2, <2>5 DEF DeviceRecords
      <3>3. \E r \in Ports, f \in Late :
                /\ port_config_phase[r] \in Late
                /\ port_config_phase' = [port_config_phase EXCEPT ![r] = f]
        BY <2>5, <3>1 DEF Late
      <3> QED
        BY <2>1, <2>3, <3>2, <3>3, LateStepTurn
    <2> QED
      BY <1>5, <2>4, <2>5 DEF EndpointsConfigured
  <1>6. CASE TransferFailed \/ InterruptCompleted \/ HidControlCompleted
    <2>1. /\ Processing("Transfer") /\ Pop
          /\ UNCHANGED <<resetting, enabled, addressed, addressing_port, root_hub_port_num,
                         slots_in_use, commands, port_config_phase>>
      BY <1>6 DEF TransferFailed, InterruptCompleted, HidControlCompleted, TransferFrame,
                  registers, attached, controller
    <2>2. ~IsAddressingEvent(Head(events)) /\ CommandsKept
      BY <2>1, OtherCommand DEF IsAddressingEvent, Processing
    <2>3. \/ UNCHANGED devices
          \/ devices' = [devices EXCEPT ![Head(events).slot].hid_phase = 2]
      BY <1>6 DEF TransferFailed, InterruptCompleted, HidControlCompleted
    <2>4. Head(events).slot \in SlotIndex
      BY <1>a, <2>1, ProcessingFront, EventFields
    <2>5. \A t \in SlotIndex : devices[t].alloc => devices'[t].alloc
      BY SMTT(30), <1>b, <2>3, <2>4 DEF DeviceRecords
    <2> QED
      BY <2>1, <2>2, <2>5, LateStepTurn
  <1>7. CASE InitializationStep
    <2> DEFINE s == Head(events).slot
               p == PortOf(s)
    <2>1. /\ Processing("Transfer") /\ Pop
          /\ UNCHANGED <<resetting, enabled, addressed, addressing_port, root_hub_port_num,
                         slots_in_use>>
      BY <1>7 DEF InitializationStep, TransferFrame, registers, attached, controller
    <2>2. s \in SlotIndex /\ p \in 0..MaxPorts
      BY <1>a, <2>1, ProcessingFront, EventFields DEF PortOf, ControllerTypes
    <2>3. ~IsAddressingEvent(Head(events))
      BY <2>1 DEF IsAddressingEvent, Processing
    <2>4. \A t \in SlotIndex : devices[t].alloc => devices'[t].alloc
      <3>1. CASE InitializePhase1(s)
        BY <1>b, <2>2, <3>1 DEF InitializePhase1, DeviceRecords
      <3>2. CASE InitializePhase2(s)
        BY <1>b, <2>2, <3>2 DEF InitializePhase2, DeviceRecords
      <3>3. CASE InitializePhase3(s)
        BY <1>b, <2>2, <3>3 DEF InitializePhase3, DeviceRecords
      <3> QED
        BY <1>7, <3>1, <3>2, <3>3 DEF InitializationStep
    <2>5. CASE UNCHANGED <<commands, port_config_phase>>
      BY <2>1, <2>3, <2>4, <2>5, OtherCommand, LateStepTurn
    <2>6. CASE /\ port_config_phase[p] = "InitializingDevice"
               /\ port_config_phase' = [port_config_phase EXCEPT ![p] = "ConfiguringEndpoints"]
               /\ commands' = Append(commands, [type |-> "ConfigureEndpoint", slot |-> s,
                                                port |-> NoPort])
      <3>1. p \in Ports
        BY <1>b, <2>2, <2>6, PhaseOfPort
      <3>2. CommandsKept
        BY <2>2, <2>6, CommandTypes, OtherCommand DEF IsAddressingCommand
      <3>3. \E r \in Ports, f \in Late :
                /\ port_config_phase[r] \in Late
                /\ port_config_phase' = [port_config_phase EXCEPT ![r] = f]
        BY <2>6, <3>1 DEF Late
      <3> QED
        BY <2>1, <2>3, <2>4, <3>2, <3>3, LateStepTurn
    <2> QED
      BY <1>7, <2>5, <2>6
      DEF InitializationStep, InitializePhase1, InitializePhase2, InitializePhase3,
          ConfigureEndpoints
  <1>8. CASE MainLoopIdle
    <2>1. UNCHANGED <<resetting, enabled, addressed, port_config_phase, addressing_port, pc,
                      continuation, root_hub_port_num, slots_in_use, devices, commands, events>>
      BY <1>8 DEF MainLoopIdle, vars, registers, attached, controller, driver
    <2>2. CommandsKept /\ EventsKept
      BY <2>1, OtherCommand DEF EventsKept, Unhandled
    <2> QED
      BY <2>1, <2>2, TurnKept
  <1> QED
    BY <1>1, <1>2, <1>3, <1>4, <1>5, <1>6, <1>7, <1>8, ResetPortReturnsTurn, ResettingTurn,
       SlotEnabledTurn, DeviceAddressedTurn DEF DriverStep, ProcessEvent

TurnsInv == TypeInv /\ ExclusionInv /\ TurnInv

\* In the initial state no port has the turn and nothing is under way.
LEMMA InitTurns == Init => TurnsInv
  <1>1. SUFFICES ASSUME Init PROVE TurnsInv
    OBVIOUS
  <1>2. TypeInv
    BY <1>1, InitTypeInv
  <1>3. ExclusionInv
    BY <1>1, Indices DEF Init, ExclusionInv, Turns, HandOver, HandedOver, InTurn
  <1>4. FlightInv
    BY <1>1 DEF Init, FlightInv, FlightIdle, None, Unhandled
  <1>5. SlotInv /\ DeviceInv /\ DefaultInv
    BY <1>1, Indices DEF Init, SlotInv, DeviceInv, DefaultInv
  <1> QED
    BY <1>2, <1>3, <1>4, <1>5 DEF TurnsInv, TurnInv

\* Every step keeps it so.
LEMMA NextTurns == TurnsInv /\ [Next]_vars => TurnsInv'
  <1>1. SUFFICES ASSUME TurnsInv, [Next]_vars PROVE TurnsInv'
    OBVIOUS
  <1>2. TypeInv /\ ExclusionInv /\ TurnInv
    BY <1>1 DEF TurnsInv
  <1>3. TypeInv' /\ ExclusionInv'
    BY <1>1, <1>2, NextTypeInv, NextExclusion
  <1>4. CASE UNCHANGED vars
    <2>1. UNCHANGED <<resetting, enabled, addressed, port_config_phase, addressing_port, pc,
                      continuation, root_hub_port_num, slots_in_use, devices, commands, events>>
      BY <1>4 DEF vars, registers, attached, controller, driver
    <2>2. CommandsKept /\ EventsKept
      BY <1>2, <2>1, OtherCommand DEF EventsKept, Unhandled
    <2>3. TurnInv'
      BY <1>2, <2>1, <2>2, TurnKept
    <2> QED
      BY <1>3, <2>3 DEF TurnsInv
  <1>5. CASE Next
    <2>1. TurnInv'
      BY <1>2, <1>5, DriverTurn, HcTurn, UserTurn DEF Next
    <2> QED
      BY <1>3, <2>1 DEF TurnsInv
  <1> QED
    BY <1>1, <1>4, <1>5

\* The turns, their messages and their devices are in order in every reachable state.
THEOREM TurnInvariance == Spec => []TurnsInv
  BY InitTurns, NextTurns, PTL DEF Spec

\* A message of a set is found exactly where Only says it is.
LEMMA OnlyOne ==
    ASSUME NEW q, NEW S, NEW x, Only(q, S, x)
    PROVE  /\ \A i, j \in {k \in DOMAIN q : q[k] \in S} : i = j
           /\ \A i \in {k \in DOMAIN q : q[k] \in S} : q[i] = x
  BY DEF Only

\* A completion of Enable Slot or Address Device always finds addressing_port in the
\* phase that issued the command, and never meets a second one (xhci.cpp:228-264).
THEOREM CompletionsMatch == Spec => []CompletionMatchesPhase
  <1>1. TurnsInv => CompletionMatchesPhase
    <2>1. SUFFICES ASSUME TypeInv, FlightInv PROVE CompletionMatchesPhase
      BY DEF TurnsInv, TurnInv
    <2> DEFINE cs == {i \in DOMAIN commands : commands[i] \in AddressingCommands}
               es == {i \in DOMAIN Unhandled : Unhandled[i] \in AddressingEvents}
               phase == port_config_phase[addressing_port]
    <2>2. commands \in Seq(Commands) /\ Unhandled \in Seq(Events)
      <3>1. commands \in Seq(Commands) /\ events \in Seq(Events)
        BY <2>1 DEF TypeInv, TypeOK, QueueTypes
      <3>2. pc = "ResetPort" /\ continuation.to # "boot" => Tail(events) \in Seq(Events)
        BY <2>1, <3>1, QueueFront DEF TypeInv, CallerOK
      <3> QED
        BY <3>1, <3>2 DEF Unhandled
    <2>3. /\ cs = {i \in DOMAIN commands : IsAddressingCommand(commands[i])}
          /\ es = {i \in DOMAIN Unhandled : IsAddressingEvent(Unhandled[i])}
      BY <2>2 DEF AddressingCommands, AddressingEvents
    <2>4. CASE FlightIdle
      <3>1. cs = {} /\ es = {}
        BY <2>4 DEF FlightIdle, None
      <3> QED
        BY <2>3, <3>1 DEF CompletionMatchesPhase
    <2>5. CASE FlightCommand
      <3>1. PICK c \in Commands : /\ Only(commands, AddressingCommands, c)
                                  /\ None(Unhandled, AddressingEvents)
                                  /\ CommandOK(c)
        BY <2>5 DEF FlightCommand
      <3>2. es = {}
        BY <3>1 DEF None
      <3>3. (\A i, j \in cs : i = j) /\ \A i \in cs : commands[i] = c
        BY <3>1, OnlyOne
      <3>4. phase = IF c.type = "EnableSlot" THEN "EnablingSlot" ELSE "AddressingDevice"
        BY <3>1 DEF CommandOK
      <3> QED
        BY <2>3, <3>2, <3>3, <3>4 DEF CompletionMatchesPhase
    <2>6. CASE FlightEvent
      <3>1. PICK e \in Events : /\ None(commands, AddressingCommands)
                                /\ Only(Unhandled, AddressingEvents, e)
                                /\ EventOK(e)
        BY <2>6 DEF FlightEvent
      <3>2. cs = {}
        BY <3>1 DEF None
      <3>3. (\A i, j \in es : i = j) /\ \A i \in es : Unhandled[i] = e
        BY <3>1, OnlyOne
      <3>4. phase = IF e.issuer = "EnableSlot" THEN "EnablingSlot" ELSE "AddressingDevice"
        BY <3>1 DEF EventOK
      <3> QED
        BY <2>3, <3>2, <3>3, <3>4 DEF CompletionMatchesPhase
    <2> QED
      BY <2>1, <2>4, <2>5, <2>6 DEF FlightInv
  <1> QED
    BY <1>1, TurnInvariance, PTL

\* A port that is past its turn has exactly one device in the device manager
\* (devmgr.cpp: FindByPort), for any number of ports and slots.
THEOREM DevicesUnique == Spec => []OneDevicePerPort
  <1>1. TurnsInv => OneDevicePerPort
    <2>1. SUFFICES ASSUME SlotInv, DeviceInv, NEW p \in Ports, port_config_phase[p] \in Late
                   PROVE  Cardinality({s \in SlotIndex : devices[s].alloc
                                                         /\ root_hub_port_num[s] = p}) = 1
      BY DEF TurnsInv, TurnInv, OneDevicePerPort, Late
    <2>2. PICK s \in SlotIndex : devices[s].alloc /\ root_hub_port_num[s] = p
      BY <2>1 DEF DeviceInv, Late
    <2>3. \A t \in SlotIndex : root_hub_port_num[t] = p => t = s
      BY <2>1, <2>2, Indices DEF SlotInv
    <2>4. {t \in SlotIndex : devices[t].alloc /\ root_hub_port_num[t] = p} = {s}
      BY <2>2, <2>3
    <2> QED
      BY <2>4, FS_Singleton
  <1> QED
    BY <1>1, TurnInvariance, PTL

\* From the start of a reset until the device has its address no other device is reset
\* or listens at the default address (xhci.cpp: ResetPort), whatever is plugged or pulled.
THEOREM DefaultAddressExclusive == Spec => []DefaultAddressUnique
  <1>1. TurnsInv => DefaultAddressUnique
    <2>1. SUFFICES ASSUME DefaultInv PROVE DefaultAddressUnique
      BY DEF TurnsInv, TurnInv
    <2>2. resetting \cup (enabled \ addressed) \subseteq {addressing_port}
      BY <2>1 DEF DefaultInv
    <2>3. IsFiniteSet({addressing_port}) /\ Cardinality({addressing_port}) = 1
      BY FS_Singleton
    <2>4. Cardinality(resetting \cup (enabled \ addressed)) <= Cardinality({addressing_port})
      BY <2>2, <2>3, FS_Subset
    <2> QED
      BY <2>3, <2>4 DEF DefaultAddressUnique
  <1> QED
    BY <1>1, TurnInvariance, PTL

\* What PhasesInOrder says of one step.
InOrder ==
    \A p \in Ports : \/ port_config_phase'[p] = port_config_phase[p]
                     \/ Successor(port_config_phase[p], port_config_phase'[p])

\* A step that moves one port to a successor of its phase is in order.
LEMMA OnePortInOrder ==
    ASSUME port_config_phase \in PhaseMaps, NEW q \in Ports, NEW f,
           port_config_phase' = [port_config_phase EXCEPT ![q] = f],
           f = port_config_phase[q] \/ Successor(port_config_phase[q], f)
    PROVE  InOrder
  <1>1. \A p \in Ports : port_config_phase'[p] = IF p = q THEN f ELSE port_config_phase[p]
    BY Indices DEF PhaseMaps
  <1> QED
    BY <1>1 DEF InOrder

\* ResetPort moves a port that is not connected, or one that waits, to the next phase.
LEMMA ResetPortInOrder ==
    ASSUME port_config_phase \in PhaseMaps, NEW q \in Ports, NEW busy, NEW cont,
           ResetPort(q, busy, cont),
           \/ port_config_phase[q] = "NotConnected"
           \/ port_config_phase[q] = "WaitingAddressed"
    PROVE  InOrder
  <1> DEFINE f == IF MayReset(q, busy) THEN "ResettingPort"
                  ELSE IF MustWait(q, busy) THEN "WaitingAddressed" ELSE port_config_phase[q]
  <1>1. port_config_phase' = [port_config_phase EXCEPT ![q] = f]
    BY DEF ResetPort
  <1>2. f = port_config_phase[q] \/ Successor(port_config_phase[q], f)
    BY DEF Successor
  <1> QED
    BY <1>1, <1>2, OnePortInOrder

\* Every step of the driver is in order.
LEMMA DriverInOrder ==
    ASSUME TypeInv, ExclusionInv, DriverStep
    PROVE  InOrder
  <1>a. ControllerTypes /\ QueueTypes /\ DriverTypes
    BY DEF TypeInv, TypeOK
  <1>b. port_config_phase \in PhaseMaps /\ boot_port \in 1..(MaxPorts + 1)
        /\ continuation \in Continuations /\ addressing_port \in 0..MaxPorts
    BY <1>a DEF DriverTypes
  <1>c. ASSUME UNCHANGED port_config_phase PROVE InOrder
    BY <1>c DEF InOrder
  <1>1. CASE BootConfigurePort
    <2>1. boot_port \in Ports
      BY <1>1, <1>b, PortsAssumption DEF BootConfigurePort, BootLoop, Ports
    <2> QED
      BY <1>1, <1>b, <1>c, <2>1, ResetPortInOrder DEF BootConfigurePort
  <1>2. CASE EnterMainLoop \/ MainLoopIdle
    BY <1>2, <1>c DEF EnterMainLoop, MainLoopIdle, vars, driver
  <1>3. CASE ResetPortReturns
    <2>1. CASE continuation.to = "initialize"
      <3> DEFINE p == continuation.port
      <3>1. p \in Ports /\ HandedOver(p)
        BY <1>3, <1>b, <2>1 DEF ResetPortReturns, Continuations, HandedOver
      <3>2. port_config_phase[p] = "AddressingDevice"
        BY <3>1 DEF ExclusionInv, HandOver
      <3>3. port_config_phase' = [port_config_phase EXCEPT ![p] = "InitializingDevice"]
        BY <1>3, <2>1 DEF ResetPortReturns, InitializeDevice
      <3> QED
        BY <1>b, <3>1, <3>2, <3>3, OnePortInOrder DEF Successor
    <2>2. CASE continuation.to # "initialize"
      BY <1>3, <1>c, <2>2 DEF ResetPortReturns
    <2> QED
      BY <2>1, <2>2
  <1>4. CASE PortStatusChangeNotConnected
    <2>1. Head(events).port \in Ports
      BY <1>4, <1>a, ProcessingFront, EventFields DEF PortStatusChangeNotConnected
    <2> QED
      BY <1>4, <1>b, <2>1, ResetPortInOrder DEF PortStatusChangeNotConnected, StartsPort
  <1>5. CASE PortStatusChangeResetting
    <2>1. Head(events).port \in Ports
      BY <1>5, <1>a, ProcessingFront, EventFields DEF PortStatusChangeResetting
    <2> QED
      BY <1>5, <1>b, <1>c, <2>1, OnePortInOrder
      DEF PortStatusChangeResetting, EnableSlot, Successor
  <1>6. CASE PortStatusChangeInvalidPhase
    BY <1>6, <1>c DEF PortStatusChangeInvalidPhase
  <1>7. CASE SlotEnabled
    <2>1. CASE port_config_phase[addressing_port] = "EnablingSlot"
      <3>1. addressing_port \in Ports
        BY <1>b, <2>1, PhaseOfPort
      <3>2. port_config_phase' = [port_config_phase EXCEPT ![addressing_port] = "AddressingDevice"]
        BY <1>7, <2>1 DEF SlotEnabled, AddressDevice
      <3> QED
        BY <1>b, <2>1, <3>1, <3>2, OnePortInOrder DEF Successor
    <2>2. CASE port_config_phase[addressing_port] # "EnablingSlot"
      BY <1>7, <1>c, <2>2 DEF SlotEnabled
    <2> QED
      BY <2>1, <2>2
  <1>8. CASE DeviceAddressed
    <2> DEFINE s == Head(events).slot
               p == PortOf(s)
    <2>1. p \in 0..MaxPorts
      BY <1>8, <1>a, ProcessingFront, EventFields DEF DeviceAddressed, PortOf, ControllerTypes
    <2>2. CASE \E w \in WaitingPorts :
                  ResetPort(w, NoPort, [to |-> "initialize", port |-> p, slot |-> s])
      BY <1>b, <2>2, ResetPortInOrder DEF WaitingPorts
    <2>3. CASE port_config_phase[p] = "AddressingDevice" /\ InitializeDevice(p, s)
      <3>1. p \in Ports
        BY <1>b, <2>1, <2>3, PhaseOfPort
      <3> QED
        BY <1>b, <2>3, <3>1, OnePortInOrder DEF InitializeDevice, Successor
    <2>4. CASE UNCHANGED port_config_phase
      BY <1>c, <2>4
    <2> QED
      BY <1>8, <2>2, <2>3, <2>4 DEF DeviceAddressed
  <1>9. CASE EndpointsConfigured
    <2> DEFINE p == PortOf(Head(events).slot)
    <2>1. p \in 0..MaxPorts
      BY <1>9, <1>a, ProcessingFront, EventFields DEF EndpointsConfigured, PortOf, ControllerTypes
    <2>2. CASE /\ port_config_phase[p] = "ConfiguringEndpoints"
               /\ port_config_phase' = [port_config_phase EXCEPT ![p] = "Configured"]
      <3>1. p \in Ports
        BY <1>b, <2>1, <2>2, PhaseOfPort
      <3> QED
        BY <1>b, <2>2, <3>1, OnePortInOrder DEF Successor
    <2> QED
      BY <1>9, <1>c, <2>2 DEF EndpointsConfigured
  <1>10. CASE TransferFailed \/ InterruptCompleted \/ HidControlCompleted
    BY <1>10, <1>c DEF TransferFailed, InterruptCompleted, HidControlCompleted
  <1>11. CASE InitializationStep
    <2> DEFINE p == PortOf(Head(events).slot)
    <2>1. p \in 0..MaxPorts
      BY <1>11, <1>a, ProcessingFront, EventFields DEF InitializationStep, PortOf, ControllerTypes
    <2>2. CASE /\ port_config_phase[p] = "InitializingDevice"
               /\ port_config_phase' = [port_config_phase EXCEPT ![p] = "ConfiguringEndpoints"]
      <3>1. p \in Ports
        BY <1>b, <2>1, <2>2, PhaseOfPort
      <3> QED
        BY <1>b, <2>2, <3>1, OnePortInOrder DEF Successor
    <2> QED
      BY <1>11, <1>c, <2>2
      DEF InitializationStep, InitializePhase1, InitializePhase2, InitializePhase3,
          ConfigureEndpoints
  <1> QED
    BY <1>1, <1>2, <1>3, <1>4, <1>5, <1>6, <1>7, <1>8, <1>9, <1>10, <1>11
    DEF DriverStep, ProcessEvent

\* No late event takes a port back to an earlier phase or past one (xhci.cpp: ResetPort
\* sets kWaitingAddressed without looking at the phase of the port it is given).
THEOREM PhasesAdvance == Spec => PhasesInOrder
  <1>1. TypeInv /\ ExclusionInv /\ [Next]_vars => [InOrder]_vars
    <2>1. ASSUME TypeInv, ExclusionInv, Next PROVE InOrder
      <3>1. ASSUME HcStep \/ UserStep PROVE UNCHANGED port_config_phase
        BY <3>1
        DEF HcStep, HcResetDone, HcEnableSlot, HcAddressDevice, HcConfigureEndpoint,
            HcControlTransfer, UserStep, Plug, Unplug, HcInterruptTransfer, driver
      <3>2. ASSUME UNCHANGED port_config_phase PROVE InOrder
        BY <3>2 DEF InOrder
      <3> QED
        BY <2>1, <3>1, <3>2, DriverInOrder DEF Next
    <2> QED
      BY <2>1
  <1>2. TurnsInv => TypeInv /\ ExclusionInv
    BY DEF TurnsInv
  <1> QED
    BY <1>1, <1>2, TurnInvariance, PTL DEF Spec, PhasesInOrder, InOrder

=============================================================================
