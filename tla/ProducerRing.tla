---------------------------- MODULE ProducerRing ----------------------------
(***************************************************************************)
(* A command or transfer ring (class Ring, kernel/usb/xhci/ring.cpp): the  *)
(* driver writes TRBs word by word into memory that the host controller    *)
(* reads at the same time.  The cycle bit in the last word hands a TRB     *)
(* over; a Link TRB in the last slot sends both ends back to the start.    *)
(*                                                                         *)
(* The compiler is taken to emit the four stores of CopyToLast in program  *)
(* order, and the controller to fetch the 16 bytes of a TRB at once.       *)
(***************************************************************************)
EXTENDS Integers, Sequences

CONSTANTS
    BufSize,   \* buf_size_: slots of the ring, the one for the Link TRB included
    Window,    \* TRBs that the callers of Push leave unconsumed at most
    MaxItems   \* bound on the TRBs pushed

\* Push does not ask whether the ring is full: its callers must keep to the slots there
\* are.  One slot before the Link TRB stays free: with all of them in use a second
\* Link TRB could be written before the controller has followed the first one.
ASSUME RingAssumption == BufSize \in Nat /\ BufSize >= 3 /\ MaxItems \in Nat
ASSUME WindowAssumption == Window \in 1..(BufSize - 2)

Slot == 0..(BufSize - 1)
LinkSlot == BufSize - 1
Blank == 0       \* memory as Initialize clears it
LinkTRB == -1
TRBs == {Blank, LinkTRB} \cup 1..MaxItems   \* the n-th TRB pushed is the number n

VARIABLES
    low,          \* data[0..2] of the slots
    high,         \* data[3] of the slots without its cycle bit
    cycle,        \* the cycle bits of the slots
    write_index, cycle_bit,
    pc,           \* where the driver is in Push and its caller
    dequeue, ccs, \* the controller's dequeue pointer and consumer cycle state
    active,       \* the controller is working on the ring
    sent, received, taken

memory == <<low, high, cycle>>
consumer == <<dequeue, ccs, received, taken>>
vars == <<memory, write_index, cycle_bit, pc, consumer, active, sent>>

\* Initialize, and the dequeue pointer and cycle state that the controller is given.
Init ==
    /\ low = [i \in Slot |-> Blank] /\ high = [i \in Slot |-> Blank]
    /\ cycle = [i \in Slot |-> 0]
    /\ write_index = 0 /\ cycle_bit = 1
    /\ pc = "idle"
    /\ dequeue = 0 /\ ccs = 1 /\ active = FALSE
    /\ sent = 0 /\ received = 0 /\ taken = 0

-----------------------------------------------------------------------------
(* The driver: Ring::Push and the doorbell that its callers ring.          *)

\* Half of CopyToLast: data[0..2] first, then data[3] with the producer cycle state.
CopyLow(trb) == low' = [low EXCEPT ![write_index] = trb] /\ UNCHANGED <<high, cycle>>

CopyHigh(trb) ==
    /\ high' = [high EXCEPT ![write_index] = trb]
    /\ cycle' = [cycle EXCEPT ![write_index] = cycle_bit]
    /\ UNCHANGED low

\* Mutant: data[3] is written before data[0..2].
CopyToLastSwapped(half, trb) == IF half = 1 THEN CopyHigh(trb) ELSE CopyLow(trb)

CopyToLast(half, trb) == IF half = 1 THEN CopyLow(trb) ELSE CopyHigh(trb)

PushBegin ==
    /\ pc \in {"idle", "pushed"}
    /\ sent < MaxItems /\ sent - received < Window
    /\ CopyToLast(1, sent + 1)
    /\ pc' = "push"
    /\ UNCHANGED <<write_index, cycle_bit, consumer, active, sent>>

\* The index has reached the slot of the Link TRB.
\* Mutant: off by one.
AtLinkSlotEarly(i) == i = BufSize - 2

AtLinkSlot(i) == i = BufSize - 1

PushEnd ==
    /\ pc = "push"
    /\ CopyToLast(2, sent + 1)
    /\ sent' = sent + 1
    /\ write_index' = write_index + 1
    /\ pc' = IF AtLinkSlot(write_index + 1) THEN "link" ELSE "pushed"
    /\ UNCHANGED <<cycle_bit, consumer, active>>

PushLinkBegin ==
    /\ pc = "link"
    /\ CopyToLast(1, LinkTRB)
    /\ pc' = "link_end"
    /\ UNCHANGED <<write_index, cycle_bit, consumer, active, sent>>

PushLinkEnd ==
    /\ pc = "link_end"
    /\ CopyToLast(2, LinkTRB)
    /\ write_index' = 0
    /\ cycle_bit' = 1 - cycle_bit
    /\ pc' = "pushed"
    /\ UNCHANGED <<consumer, active, sent>>

\* The caller of Push rings the doorbell once its TRBs are in the ring.
RingDoorbell ==
    /\ pc = "pushed"
    /\ active' = TRUE
    /\ pc' = "idle"
    /\ UNCHANGED <<memory, write_index, cycle_bit, consumer, sent>>

-----------------------------------------------------------------------------
(* The controller (external to src/).                                      *)

Owned == cycle[dequeue] = ccs

HcTake ==
    /\ active /\ Owned /\ high[dequeue] # LinkTRB
    /\ taken' = low[dequeue]
    /\ received' = received + 1
    /\ dequeue' = dequeue + 1
    /\ UNCHANGED <<memory, write_index, cycle_bit, pc, ccs, active, sent>>

HcFollowLink ==
    /\ active /\ Owned /\ high[dequeue] = LinkTRB
    /\ dequeue' = 0
    /\ ccs' = 1 - ccs
    /\ UNCHANGED <<memory, write_index, cycle_bit, pc, received, taken, active, sent>>

\* Nothing to do: the controller waits for the next doorbell.
HcStop ==
    /\ active /\ ~Owned
    /\ active' = FALSE
    /\ UNCHANGED <<memory, write_index, cycle_bit, pc, consumer, sent>>

-----------------------------------------------------------------------------

Push == PushBegin \/ PushEnd \/ PushLinkBegin \/ PushLinkEnd

HcStep == HcTake \/ HcFollowLink \/ HcStop

Next == Push \/ RingDoorbell \/ HcStep

Spec == Init /\ [][Next]_vars

\* The driver finishes a Push it has begun and then pushes on or rings the doorbell;
\* the controller works while it is active.  Nothing obliges the driver to push.
Fairness ==
    /\ WF_vars(PushEnd \/ PushLinkBegin \/ PushLinkEnd \/ RingDoorbell)
    /\ WF_vars(HcStep)

FairSpec == Spec /\ Fairness

-----------------------------------------------------------------------------
(* Properties.                                                             *)

\* The slot that the n-th TRB occupies.
SlotOf(n) == (n - 1) % LinkSlot

\* No TRB is overwritten before the controller has consumed it, although Push never
\* checks for room: what its callers leave unconsumed fits into the slots before the
\* Link TRB, up to the last but one.
UnconsumedIntact ==
    \A n \in (received + 1)..sent : low[SlotOf(n)] = n /\ high[SlotOf(n)] = n

Outstanding == [i \in 1..(sent - received) |-> received + i]

F == INSTANCE Fifo WITH queue <- Outstanding, sent <- sent, taken <- taken

\* The ring is a FIFO queue: whatever the interleaving of word stores and fetches, the
\* controller executes every TRB once, in order and complete, and misses none when a
\* Push races with its finding the ring empty.
ImplementsFifo == F!FairSpec

=============================================================================
