----------------------------- MODULE Transfers ------------------------------
(***************************************************************************)
(* The transfers of one USB device (kernel/usb/xhci/device.cpp): control    *)
(* requests as Setup, Data and Status TRBs on the ring of endpoint 0, the    *)
(* map that leads from the TRB of an event back to its Setup TRB, and        *)
(* interrupt transfers, against a controller that works the rings off.       *)
(*                                                                         *)
(* Push and the event ring are those of ProducerRing and EventLoop: here a   *)
(* TRB is on the ring at once, and the event queue is ideal.                 *)
(***************************************************************************)
EXTENDS ArrayMap, Integers, FiniteSets

CONSTANTS
    RingSize,     \* TRBs of a transfer ring, its Link TRB included
    MapSize       \* entries of setup_stage_map_

ASSUME RingSizeAssumption == RingSize \in Nat /\ RingSize > 1
ASSUME MapSizeAssumption == MapSize \in Nat

Dcis == 1..31

VARIABLES
    ep0,               \* the control ring: its TRBs, how many were pushed, setup_stage_map_
    executed,          \* TRBs of the control ring that the controller has executed
    setup,             \* the request that the controller is at
    transfer_rings,    \* the endpoints that have a ring
    armed,             \* Normal TRBs that wait on the ring of an endpoint
    events,            \* transfer events, oldest first
    halted             \* the endpoints where a transfer has failed; nobody resets them

transfer_vars == <<ep0, executed, setup, transfer_rings, armed, events, halted>>

\* The place of the n-th TRB; the last one of the ring is the Link TRB.
Position(n) == n % (RingSize - 1)

NoRequest == [request |-> "none", value |-> 0, index |-> 0]

\* ioc is interrupt_on_completion.
SetupStageTRB(request) == [type |-> "Setup", request |-> request, ioc |-> FALSE]
DataStageTRB == [type |-> "Data", request |-> NoRequest, ioc |-> TRUE]
StatusStageTRB(ioc) == [type |-> "Status", request |-> NoRequest, ioc |-> ioc]

\* AllocTransferRing of endpoint 0 has been called for AddressDevice.
TransfersInit ==
    /\ ep0 = [trbs |-> [i \in 0..(RingSize - 2) |-> StatusStageTRB(FALSE)], pushed |-> 0,
              setup_stage_map |-> EmptyMap(MapSize)]
    /\ executed = 0 /\ setup = NoRequest
    /\ transfer_rings = {1} /\ armed = [d \in Dcis |-> 0]
    /\ events = <<>> /\ halted = {}

Push(ring, trb) ==
    [trbs |-> [ring.trbs EXCEPT ![Position(ring.pushed)] = trb], pushed |-> ring.pushed + 1,
     setup_stage_map |-> ring.setup_stage_map]

\* Mutant: the request is looked for under its Status TRB in every case.
RegisteredAtStatus(ring, offset, has_data) ==
    [ring EXCEPT !.setup_stage_map =
        Put(@, Position(ring.pushed - 1), Position(ring.pushed - offset))]

\* setup_stage_map_.Put: the TRB that will raise the event, and the Setup TRB
Registered(ring, offset, has_data) ==
    [ring EXCEPT !.setup_stage_map =
        Put(@, Position(ring.pushed - offset + (IF has_data THEN 1 ELSE offset - 1)),
            Position(ring.pushed - offset))]

\* ControlIn with a buffer
ControlIn(ring, request) ==
    Registered(Push(Push(Push(ring, SetupStageTRB(request)), DataStageTRB),
                    StatusStageTRB(FALSE)), 3, TRUE)

\* ControlOut without one
ControlOut(ring, request) ==
    Registered(Push(Push(ring, SetupStageTRB(request)), StatusStageTRB(TRUE)), 2, FALSE)

\* InterruptIn: kTransferRingNotSet, or a Normal TRB
InterruptIn(dci) ==
    armed' = IF dci \in transfer_rings THEN [armed EXCEPT ![dci] = @ + 1] ELSE armed

\* An event: the endpoint, the TRB that raised it, the bytes transferred. What the
\* transfer was about, request, is not part of it.
Event(dci, trb, success, request, length) ==
    [dci |-> dci, trb |-> trb, success |-> success, request |-> request, length |-> length]

\* The controller executes the next TRB of the control ring. A TRB that fails raises an
\* event in any case.
HcControl(success, length) ==
    LET at == Position(executed)
        trb == ep0.trbs[at]
        request == IF trb.type = "Setup" THEN trb.request ELSE setup
    IN /\ executed < ep0.pushed /\ 1 \notin halted
       /\ executed' = executed + 1
       /\ setup' = request
       /\ halted' = IF success THEN halted ELSE halted \cup {1}
       /\ events' = IF trb.ioc \/ ~success
                    THEN Append(events, Event(1, at, success, request, length)) ELSE events
       /\ UNCHANGED <<ep0, transfer_rings, armed>>

\* The controller executes a Normal TRB.
HcInterrupt(dci, success, length) ==
    /\ armed[dci] > 0 /\ dci \notin halted
    /\ armed' = [armed EXCEPT ![dci] = @ - 1]
    /\ halted' = IF success THEN halted ELSE halted \cup {dci}
    /\ events' = Append(events, Event(dci, 0, success, NoRequest, length))
    /\ UNCHANGED <<ep0, executed, setup, transfer_rings>>

\* OnTransferEventReceived is given an event of endpoint 0, or of another one, that is
\* no failure.
Completed == events # <<>> /\ Head(events).success
Pop == events' = Tail(events)

\* The Setup TRB that belongs to the event, none or one
SetupStage == {ep0.trbs[i] : i \in Get(ep0.setup_stage_map, Head(events).trb)}

Forgotten(ring) == [ring EXCEPT !.setup_stage_map = Delete(@, Head(events).trb)]

-----------------------------------------------------------------------------

\* Whatever is still on its way, the event of a control request leads to the request it
\* belongs to: setup_stage_map_ has an entry for it, which is not that of an older
\* request, and the ring has not come round to the Setup TRB.
SetupStageKept ==
    \A k \in DOMAIN events :
        events[k].success /\ events[k].dci = 1 =>
            \E i \in Get(ep0.setup_stage_map, events[k].trb) :
                ep0.trbs[i] = SetupStageTRB(events[k].request)
=============================================================================
