------------------------------ MODULE EventLoop ------------------------------
(***************************************************************************)
(* How an event of the host controller reaches the driver: the event ring  *)
(* (class EventRing, kernel/usb/xhci/ring.cpp), the interrupter with its   *)
(* Event Handler Busy flag, the interrupt handler and main_queue           *)
(* (kernel/main.cpp), and the main loop that drains the ring.              *)
(*                                                                         *)
(* The n-th event is the number n.  Handling one event is a single step    *)
(* here; PortConfig has what it does.                                      *)
(***************************************************************************)
EXTENDS Integers, Sequences

CONSTANTS
    BufSize,          \* buf_size_ of the event ring
    MaxEvents         \* bound on the events the controller posts

ASSUME RingAssumption == BufSize \in Nat /\ BufSize >= 2
ASSUME BoundsAssumption == MaxEvents \in Nat

Slot == 0..(BufSize - 1)

VARIABLES
    trb, cycle,          \* event ring memory: the event and the cycle bit of a slot
    enqueue, pcs,        \* the controller's enqueue pointer and producer cycle state
    erdp, ehb,           \* ERDP: dequeue pointer and Event Handler Busy
    late,                \* history: EHB was set between the read and the write of ERDP and
                         \* has not been cleared since; no step depends on it
    posted,              \* events posted so far
    msi,                 \* the interrupt is pending in the local APIC
    interrupts_enabled,  \* RFLAGS.IF
    main_queue,          \* the number of messages in main_queue
    pushed, popped,      \* messages the handler pushed and the main loop took
    pc, queue_seen,      \* the main loop, and the queue as its front() and pop() saw it
    ehb_read,            \* EHB in the value of ERDP that is about to be written back
    cycle_bit,           \* EventRing::cycle_bit_
    handled              \* the event handled last

ring == <<trb, cycle, enqueue, pcs, posted>>
queue == <<main_queue, pushed, popped>>
vars == <<ring, erdp, ehb, late, msi, interrupts_enabled, queue, pc, queue_seen, ehb_read,
          cycle_bit, handled>>

\* EventRing::Initialize and the start of the main loop.
Init ==
    /\ trb = [i \in Slot |-> 0] /\ cycle = [i \in Slot |-> 0]
    /\ enqueue = 0 /\ pcs = 1 /\ posted = 0
    /\ erdp = 0 /\ ehb = FALSE /\ late = FALSE /\ msi = FALSE
    /\ interrupts_enabled = TRUE
    /\ main_queue = 0 /\ pushed = 0 /\ popped = 0
    /\ pc = "loop" /\ queue_seen = 0 /\ ehb_read = FALSE
    /\ cycle_bit = 1 /\ handled = 0

-----------------------------------------------------------------------------
(* The controller and its interrupter (external to src/).                  *)

Following(i) == IF i = BufSize - 1 THEN 0 ELSE i + 1

\* The controller leaves one slot free; with the ring full it waits.
HcPost ==
    /\ posted < MaxEvents /\ Following(enqueue) # erdp
    /\ trb' = [trb EXCEPT ![enqueue] = posted + 1]
    /\ cycle' = [cycle EXCEPT ![enqueue] = pcs]
    /\ enqueue' = Following(enqueue)
    /\ pcs' = IF Following(enqueue) = 0 THEN 1 - pcs ELSE pcs
    /\ posted' = posted + 1
    /\ UNCHANGED <<erdp, ehb, late, msi, interrupts_enabled, queue, pc, queue_seen, ehb_read,
                   cycle_bit, handled>>

\* With events in the ring and EHB clear, the interrupter sets EHB and sends one MSI, at any
\* step of the driver: moderation only spaces two MSIs.
HcInterrupt ==
    /\ enqueue # erdp /\ ~ehb
    /\ ehb' = TRUE
    /\ late' = (pc = "pop_write")
    /\ msi' = TRUE
    /\ UNCHANGED <<ring, erdp, interrupts_enabled, queue, pc, queue_seen, ehb_read,
                   cycle_bit, handled>>

-----------------------------------------------------------------------------
(* The processor.                                                          *)

\* int_handler_xhci runs whole: the interrupt gate has cleared IF.
IntHandlerXhci ==
    /\ msi /\ interrupts_enabled
    /\ msi' = FALSE
    /\ main_queue' = main_queue + 1
    /\ pushed' = pushed + 1
    /\ UNCHANGED <<ring, erdp, ehb, late, interrupts_enabled, popped, pc, queue_seen, ehb_read,
                   cycle_bit, handled>>

\* Mutant: the queue is used with interrupts enabled.
CliForgotten == interrupts_enabled' = interrupts_enabled

Cli == interrupts_enabled' = FALSE

\* Mutant: interrupts stay disabled.
StiForgotten == interrupts_enabled' = interrupts_enabled

Sti == interrupts_enabled' = TRUE

LoopCli ==
    /\ pc = "loop"
    /\ Cli
    /\ pc' = "empty"
    /\ UNCHANGED <<ring, erdp, ehb, late, msi, queue, queue_seen, ehb_read, cycle_bit,
                   handled>>

\* empty() and front(): the loop starts over if there is no message.
LoopFront ==
    /\ pc = "empty"
    /\ IF main_queue = 0
       THEN Sti /\ pc' = "loop" /\ UNCHANGED queue_seen
       ELSE pc' = "pop" /\ queue_seen' = main_queue /\ UNCHANGED interrupts_enabled
    /\ UNCHANGED <<ring, erdp, ehb, late, msi, queue, ehb_read, cycle_bit, handled>>

\* pop() stores what it computed from the queue it saw, then sti.
LoopPop ==
    /\ pc = "pop"
    /\ main_queue' = queue_seen - 1
    /\ popped' = popped + 1
    /\ Sti
    /\ pc' = "drain"
    /\ UNCHANGED <<ring, erdp, ehb, late, msi, pushed, queue_seen, ehb_read, cycle_bit,
                   handled>>

\* EventRing::HasFront.
\* Mutant: the cycle bit is not compared with the expected one.
HasFrontIgnoringCycle == cycle[erdp] = 1

HasFront == cycle[erdp] = cycle_bit

\* ProcessEvent handles the event at the front, EventRing::Pop follows.
ProcessFront ==
    /\ pc = "drain" /\ HasFront
    /\ handled' = trb[erdp]
    /\ pc' = "pop_read"
    /\ UNCHANGED <<ring, erdp, ehb, late, msi, interrupts_enabled, queue, queue_seen, ehb_read,
                   cycle_bit>>

DrainEnd ==
    /\ pc = "drain" /\ ~HasFront
    /\ pc' = "loop"
    /\ UNCHANGED <<ring, erdp, ehb, late, msi, interrupts_enabled, queue, queue_seen, ehb_read,
                   cycle_bit, handled>>

\* The end of the only segment
AtSegmentEnd(i) == i = BufSize

\* WriteDequeuePointer writes back the EHB that it read, and a 1 clears the flag.
\* Mutant: the value written has EHB clear.
EhbWrittenZero == FALSE

EhbWritten == ehb_read

\* Pop turns the expected cycle bit at the end of the segment; WriteDequeuePointer reads ERDP ...
PopRead ==
    /\ pc = "pop_read"
    /\ cycle_bit' = IF AtSegmentEnd(erdp + 1) THEN 1 - cycle_bit ELSE cycle_bit
    /\ ehb_read' = ehb
    /\ pc' = "pop_write"
    /\ UNCHANGED <<ring, erdp, ehb, late, msi, interrupts_enabled, queue, queue_seen, handled>>

\* ... and writes it with the new pointer.
PopWrite ==
    /\ pc = "pop_write"
    /\ erdp' = IF AtSegmentEnd(erdp + 1) THEN 0 ELSE erdp + 1
    /\ ehb' = IF EhbWritten THEN FALSE ELSE ehb
    /\ late' = IF EhbWritten THEN FALSE ELSE late
    /\ pc' = "drain"
    /\ UNCHANGED <<ring, msi, interrupts_enabled, queue, queue_seen, ehb_read, cycle_bit,
                   handled>>

-----------------------------------------------------------------------------

MainLoop ==
    LoopCli \/ LoopFront \/ LoopPop \/ ProcessFront \/ DrainEnd \/ PopRead \/ PopWrite

Next == HcPost \/ HcInterrupt \/ IntHandlerXhci \/ MainLoop

Spec == Init /\ [][Next]_vars

\* The main loop never blocks, the interrupter fires when it may, and the processor
\* takes a pending interrupt when it has interrupts enabled again and again.
Fairness == WF_vars(MainLoop) /\ WF_vars(HcInterrupt) /\ SF_vars(IntHandlerXhci)

FairSpec == Spec /\ Fairness

-----------------------------------------------------------------------------
(* Properties.                                                             *)

\* No message is lost or doubled: the handler never runs between the main loop's look
\* at main_queue and its pop.
MessagesKept == main_queue = pushed - popped

\* With no message left and no drain under way, events in the ring still raise an
\* interrupt, unless EHB was set between the read and the write of ERDP in
\* EventRing::WriteDequeuePointer: the one place where the driver loses a wakeup.
NoLostWakeup ==
    pc \in {"loop", "empty"} /\ main_queue = 0 /\ enqueue # erdp => msi \/ ~ehb \/ late

\* What is in the ring from the driver's point of view; the event under ProcessEvent is out.
Unhandled == [i \in 1..(posted - handled) |-> handled + i]

F == INSTANCE Fifo WITH queue <- Unhandled, sent <- posted, taken <- handled

\* Events are handled once each and in the order in which they were posted, however
\* posting, interrupts, draining and the wrap of the ring interleave, lost wakeups
\* included.
EventsInOrder == F!Spec

\* Every event posted is handled, except where the flag that was set too late to be seen by
\* WriteDequeuePointer stays set for ever.
EventsHandled == ([]<>~late) => F!Fairness

=============================================================================
