------------------------- MODULE ProducerRingProofs -------------------------
(***************************************************************************)
(* A ring of any size, for any number of laps: no TRB is overwritten       *)
(* before the controller has consumed it, and the ring implements the      *)
(* safety part of Fifo.                                                    *)
(***************************************************************************)
EXTENDS ProducerRing, TLAPS

Unconsumed == sent - received

TypeInv ==
    /\ low \in [Slot -> Int] /\ high \in [Slot -> Int] /\ cycle \in [Slot -> {0, 1}]
    /\ write_index \in Slot /\ cycle_bit \in {0, 1}
    /\ pc \in {"idle", "push", "link", "link_end", "pushed"}
    /\ dequeue \in Slot /\ ccs \in {0, 1} /\ active \in BOOLEAN
    /\ sent \in Nat /\ received \in Nat

\* The driver is at the Link TRB exactly when Push has to write it, and a TRB under way
\* has its first words in memory and room within the window.
PushInv ==
    /\ (write_index = LinkSlot) <=> (pc \in {"link", "link_end"})
    /\ pc = "push" => low[write_index] = sent + 1 /\ Unconsumed < Window
    /\ Unconsumed \in 0..Window

\* The two ends are in the same lap, or the driver is one ahead and has not reached the
\* controller again.
LapInv ==
    \/ cycle_bit = ccs /\ dequeue + Unconsumed = write_index
    \/ /\ cycle_bit = 1 - ccs /\ dequeue + Unconsumed = LinkSlot + write_index
       /\ high[LinkSlot] = LinkTRB

\* A slot has the cycle bit of the driver's lap if it was written in that lap.
CycleInv ==
    \A i \in Slot : cycle[i] = IF i < write_index THEN cycle_bit ELSE 1 - cycle_bit

\* The slot of the TRB that is j behind the one the controller takes next
SlotBehind(j) ==
    IF dequeue + j < LinkSlot THEN dequeue + j ELSE dequeue + j - LinkSlot

\* What is unconsumed is in the slots from the dequeue pointer on, across the Link TRB.
ContentInv ==
    \A j \in 0..(Unconsumed - 1) :
        low[SlotBehind(j)] = received + 1 + j /\ high[SlotBehind(j)] = received + 1 + j

\* Only the last slot ever holds a Link TRB.
LinkInv == \A i \in 0..(LinkSlot - 1) : high[i] # LinkTRB

\* The controller's place in its lap
PlaceInv == \E q \in Nat : received = q * LinkSlot + dequeue

RingInv == TypeInv /\ PushInv /\ LapInv /\ CycleInv /\ ContentInv /\ LinkInv

USE DEF CopyToLast, CopyLow, CopyHigh, AtLinkSlot, memory, consumer, LinkTRB, Blank

-----------------------------------------------------------------------------

\* At the start nothing is in the ring, and no cycle bit is that of the first lap.
LEMMA InitRingInv == Init => RingInv
  <1> SUFFICES ASSUME Init PROVE RingInv
    OBVIOUS
  <1> USE RingAssumption, WindowAssumption
  <1>1. TypeInv
    <2>1. 0 \in Slot
      BY DEF Slot
    <2>2. active \in BOOLEAN
      BY DEF Init
    <2> QED
      BY <2>1, <2>2 DEF Init, TypeInv
  <1>2. Unconsumed = 0
    BY DEF Init, Unconsumed
  <1>3. PushInv /\ LapInv
    BY <1>2 DEF Init, PushInv, LapInv, LinkSlot
  <1>4. CycleInv
    BY DEF Init, CycleInv, Slot
  <1>5. ContentInv
    BY <1>2 DEF ContentInv
  <1>6. LinkInv
    BY DEF Init, LinkInv, Slot, LinkSlot
  <1> QED
    BY <1>1, <1>3, <1>4, <1>5, <1>6 DEF RingInv

\* The next free slot is not one that the controller still has to read.
LEMMA FreeSlot ==
    ASSUME RingInv
    PROVE  \A j \in 0..(Unconsumed - 1) :
               /\ SlotBehind(j) \in 0..(LinkSlot - 1)
               /\ write_index # SlotBehind(j)
  <1> USE RingAssumption, WindowAssumption
  <1> SUFFICES ASSUME NEW j \in 0..(Unconsumed - 1)
               PROVE  /\ SlotBehind(j) \in 0..(LinkSlot - 1)
                      /\ write_index # SlotBehind(j)
    OBVIOUS
  <1>1. /\ Unconsumed \in Int /\ Unconsumed <= Window /\ j \in Int /\ 0 <= j /\ j < Unconsumed
        /\ dequeue \in 0..LinkSlot /\ write_index \in 0..LinkSlot /\ LinkSlot \in Int
        /\ Window < LinkSlot
    BY DEF RingInv, TypeInv, PushInv, Unconsumed, LinkSlot, Slot
  <1>2. \/ dequeue + Unconsumed = write_index
        \/ dequeue + Unconsumed = LinkSlot + write_index
    BY DEF RingInv, LapInv
  <1> HIDE DEF LinkSlot, Unconsumed
  <1> QED
    BY <1>1, <1>2 DEF SlotBehind

\* The numbers of the state, within their bounds
Numbers ==
    /\ LinkSlot \in Nat /\ LinkSlot >= 2 /\ Slot = 0..LinkSlot
    /\ Window \in Nat /\ Window < LinkSlot
    /\ Unconsumed \in Nat /\ Unconsumed <= Window
    /\ write_index \in Nat /\ write_index <= LinkSlot
    /\ dequeue \in Nat /\ dequeue <= LinkSlot
    /\ sent \in Nat /\ received \in Nat /\ sent = received + Unconsumed

\* They follow from the invariant.
LEMMA Bounds == RingInv => Numbers /\ LinkSlot' = LinkSlot /\ Slot' = Slot
  BY RingAssumption, WindowAssumption
     DEF Numbers, RingInv, TypeInv, PushInv, Unconsumed, LinkSlot, Slot

\* The first words of a TRB go into a slot that the controller has done with.
LEMMA PushBeginRingInv == RingInv /\ PushBegin => RingInv'
  <1> SUFFICES ASSUME RingInv, PushBegin PROVE RingInv'
    OBVIOUS
  <1>0. Numbers /\ LinkSlot' = LinkSlot /\ Slot' = Slot
    BY Bounds
  <1>1. /\ low' = [low EXCEPT ![write_index] = sent + 1]
        /\ pc' = "push" /\ pc \in {"idle", "pushed"} /\ Unconsumed < Window
        /\ UNCHANGED <<high, cycle, write_index, cycle_bit, dequeue, ccs, received, active, sent>>
    BY DEF PushBegin, Unconsumed
  <1>2. Unconsumed' = Unconsumed /\ \A j : SlotBehind(j)' = SlotBehind(j)
    BY <1>1 DEF Unconsumed, SlotBehind
  <1>3. TypeInv'
    BY <1>1, <1>0 DEF RingInv, TypeInv, Numbers
  <1>4. PushInv'
    BY <1>1, <1>2 DEF RingInv, TypeInv, PushInv
  <1>5. LapInv' /\ CycleInv' /\ LinkInv'
    BY <1>1, <1>2 DEF RingInv, LapInv, CycleInv, LinkInv
  <1>6. ContentInv'
    BY <1>1, <1>2, FreeSlot DEF RingInv, TypeInv, ContentInv
  <1> QED
    BY <1>3, <1>4, <1>5, <1>6 DEF RingInv

\* The last word hands the TRB over, in the slot that follows the unconsumed ones.
LEMMA PushEndRingInv == RingInv /\ PushEnd => RingInv'
  <1> SUFFICES ASSUME RingInv, PushEnd PROVE RingInv'
    OBVIOUS
  <1>0. Numbers /\ LinkSlot' = LinkSlot /\ Slot' = Slot
    BY Bounds
  <1>1. /\ high' = [high EXCEPT ![write_index] = sent + 1]
        /\ cycle' = [cycle EXCEPT ![write_index] = cycle_bit]
        /\ pc = "push" /\ pc' = IF write_index + 1 = LinkSlot THEN "link" ELSE "pushed"
        /\ write_index' = write_index + 1 /\ sent' = sent + 1
        /\ UNCHANGED <<low, cycle_bit, dequeue, ccs, received, active>>
    BY DEF PushEnd, LinkSlot
  <1>2. /\ write_index < LinkSlot /\ low[write_index] = sent + 1 /\ Unconsumed < Window
        /\ write_index \in Slot
    BY <1>1, <1>0 DEF RingInv, PushInv, TypeInv, Numbers
  <1>3. Unconsumed' = Unconsumed + 1 /\ \A j : SlotBehind(j)' = SlotBehind(j)
    BY <1>1, <1>0 DEF Unconsumed, SlotBehind, Numbers
  <1>4. TypeInv'
    <2>1. write_index + 1 \in Slot
      BY <1>2, <1>0 DEF Numbers
    <2>2. sent + 1 \in Nat
      BY <1>0 DEF Numbers
    <2>3. pc' \in {"idle", "push", "link", "link_end", "pushed"}
      BY <1>1
    <2>4. high' \in [Slot -> Int] /\ cycle' \in [Slot -> {0, 1}]
      BY <1>1, <1>2, <2>2 DEF RingInv, TypeInv
    <2> QED
      BY <1>1, <2>1, <2>2, <2>3, <2>4, <1>0 DEF RingInv, TypeInv, Numbers
  <1>5. PushInv'
    BY <1>1, <1>2, <1>3, <1>0 DEF RingInv, TypeInv, PushInv, Numbers
  <1>6. LapInv'
    BY <1>1, <1>2, <1>3, <1>0 DEF RingInv, TypeInv, LapInv, Numbers
  <1>7. CycleInv'
    BY <1>1, <1>2, <1>0 DEF RingInv, TypeInv, CycleInv, Numbers
  <1>8. LinkInv'
    BY <1>1, <1>2, <1>0 DEF RingInv, TypeInv, LinkInv, Numbers
  <1>9. SlotBehind(Unconsumed) = write_index
    BY <1>2, <1>0 DEF RingInv, LapInv, SlotBehind, Numbers
  <1>10. ContentInv'
    <2> SUFFICES ASSUME NEW j \in 0..Unconsumed
                 PROVE  /\ low'[SlotBehind(j)] = received + 1 + j
                        /\ high'[SlotBehind(j)] = received + 1 + j
      BY <1>1, <1>3, <1>0 DEF ContentInv, Numbers
    <2>1. CASE j = Unconsumed
      BY <2>1, <1>1, <1>2, <1>9, <1>0 DEF RingInv, TypeInv, Numbers
    <2>2. CASE j # Unconsumed
      <3>1. j \in 0..(Unconsumed - 1)
        BY <2>2, <1>0 DEF Numbers
      <3> QED
        BY <3>1, <1>1, FreeSlot DEF RingInv, TypeInv, ContentInv
    <2> QED
      BY <2>1, <2>2
  <1> QED
    BY <1>4, <1>5, <1>6, <1>7, <1>8, <1>10 DEF RingInv

\* The Link TRB is written behind the last slot, where no unconsumed TRB is.
LEMMA PushLinkBeginRingInv == RingInv /\ PushLinkBegin => RingInv'
  <1> SUFFICES ASSUME RingInv, PushLinkBegin PROVE RingInv'
    OBVIOUS
  <1>0. Numbers /\ LinkSlot' = LinkSlot /\ Slot' = Slot
    BY Bounds
  <1>1. /\ low' = [low EXCEPT ![write_index] = -1]
        /\ pc = "link" /\ pc' = "link_end"
        /\ UNCHANGED <<high, cycle, write_index, cycle_bit, dequeue, ccs, received, active, sent>>
    BY DEF PushLinkBegin
  <1>2. Unconsumed' = Unconsumed /\ \A j : SlotBehind(j)' = SlotBehind(j)
    BY <1>1 DEF Unconsumed, SlotBehind
  <1>3. TypeInv'
    BY <1>1, <1>0 DEF RingInv, TypeInv, Numbers
  <1>4. PushInv'
    BY <1>1, <1>2 DEF RingInv, TypeInv, PushInv
  <1>5. LapInv' /\ CycleInv' /\ LinkInv'
    BY <1>1, <1>2 DEF RingInv, LapInv, CycleInv, LinkInv
  <1>6. ContentInv'
    BY <1>1, <1>2, FreeSlot DEF RingInv, TypeInv, ContentInv
  <1> QED
    BY <1>3, <1>4, <1>5, <1>6 DEF RingInv

\* The driver goes one lap ahead: it was in the controller's lap, or more than the window
\* would be unconsumed.
LEMMA PushLinkEndRingInv == RingInv /\ PushLinkEnd => RingInv'
  <1> SUFFICES ASSUME RingInv, PushLinkEnd PROVE RingInv'
    OBVIOUS
  <1>0. Numbers /\ LinkSlot' = LinkSlot /\ Slot' = Slot
    BY Bounds
  <1>1. /\ high' = [high EXCEPT ![write_index] = -1]
        /\ cycle' = [cycle EXCEPT ![write_index] = cycle_bit]
        /\ pc = "link_end" /\ pc' = "pushed"
        /\ write_index' = 0 /\ cycle_bit' = 1 - cycle_bit
        /\ UNCHANGED <<low, sent, dequeue, ccs, received, active>>
    BY DEF PushLinkEnd
  <1>2. write_index = LinkSlot
    BY <1>1 DEF RingInv, PushInv
  <1>3. Unconsumed' = Unconsumed /\ \A j : SlotBehind(j)' = SlotBehind(j)
    BY <1>1 DEF Unconsumed, SlotBehind
  <1>4. TypeInv'
    BY <1>1, <1>2, <1>0 DEF RingInv, TypeInv, Numbers
  <1>5. PushInv'
    BY <1>1, <1>2, <1>3, <1>0 DEF RingInv, TypeInv, PushInv, Numbers
  <1>6. LapInv'
    BY <1>1, <1>2, <1>3, <1>0 DEF RingInv, TypeInv, LapInv, Numbers
  <1>7. CycleInv'
    BY <1>1, <1>2, <1>0 DEF RingInv, TypeInv, CycleInv, Numbers
  <1>8. LinkInv'
    BY <1>1, <1>2, <1>0 DEF RingInv, TypeInv, LinkInv, Numbers
  <1>9. ContentInv'
    BY <1>1, <1>3, FreeSlot DEF RingInv, TypeInv, ContentInv
  <1> QED
    BY <1>4, <1>5, <1>6, <1>7, <1>8, <1>9 DEF RingInv

\* What the controller finds owned is the oldest unconsumed TRB, whole, or the Link TRB
\* that the driver has passed.
LEMMA OwnedFront ==
    ASSUME RingInv, Owned
    PROVE  /\ high[dequeue] # LinkTRB =>
                 dequeue < LinkSlot /\ Unconsumed > 0 /\ low[dequeue] = received + 1
           /\ high[dequeue] = LinkTRB =>
                 dequeue = LinkSlot /\ cycle_bit = 1 - ccs /\ Unconsumed = write_index
  <1>0. Numbers
    BY Bounds
  <1>1. /\ cycle[dequeue] = ccs
        /\ cycle[dequeue] = IF dequeue < write_index THEN cycle_bit ELSE 1 - cycle_bit
        /\ cycle_bit \in {0, 1} /\ ccs \in {0, 1}
    BY DEF Owned, RingInv, TypeInv, CycleInv
  <1>2. dequeue < LinkSlot => high[dequeue] # LinkTRB
    BY <1>0 DEF RingInv, LinkInv, Numbers
  <1>3. dequeue < LinkSlot => Unconsumed > 0
    BY <1>1, <1>0 DEF RingInv, LapInv, Numbers
  <1>4. dequeue < LinkSlot => low[dequeue] = received + 1
    <2> SUFFICES ASSUME dequeue < LinkSlot PROVE low[dequeue] = received + 1
      OBVIOUS
    <2>1. 0 \in 0..(Unconsumed - 1) /\ SlotBehind(0) = dequeue
      BY <1>3, <1>0 DEF SlotBehind, Numbers
    <2> QED
      BY <2>1, <1>0 DEF RingInv, ContentInv, Numbers
  <1>5. dequeue = LinkSlot =>
           high[dequeue] = LinkTRB /\ cycle_bit = 1 - ccs /\ Unconsumed = write_index
    BY <1>1, <1>0 DEF RingInv, LapInv, Numbers
  <1> QED
    BY <1>2, <1>3, <1>4, <1>5, <1>0 DEF Numbers

\* The controller takes the oldest TRB.
LEMMA HcTakeRingInv == RingInv /\ HcTake => RingInv'
  <1> SUFFICES ASSUME RingInv, HcTake PROVE RingInv'
    OBVIOUS
  <1>0. Numbers /\ LinkSlot' = LinkSlot /\ Slot' = Slot
    BY Bounds
  <1>1. /\ received' = received + 1 /\ dequeue' = dequeue + 1
        /\ UNCHANGED <<low, high, cycle, write_index, cycle_bit, pc, ccs, active, sent>>
    BY DEF HcTake
  <1>2. dequeue < LinkSlot /\ Unconsumed > 0
    BY OwnedFront DEF HcTake
  <1>3. Unconsumed' = Unconsumed - 1
    BY <1>1, <1>0 DEF Unconsumed, Numbers
  <1>4. TypeInv'
    BY <1>1, <1>2, <1>0 DEF RingInv, TypeInv, Numbers
  <1>5. PushInv'
    BY <1>1, <1>2, <1>3, <1>0 DEF RingInv, PushInv, Numbers
  <1>6. LapInv' /\ CycleInv' /\ LinkInv'
    BY <1>1, <1>2, <1>3, <1>0 DEF RingInv, LapInv, CycleInv, LinkInv, Numbers
  <1>7. ContentInv'
    <2> SUFFICES ASSUME NEW j \in 0..(Unconsumed - 2)
                 PROVE  /\ low[SlotBehind(j)'] = received + 2 + j
                        /\ high[SlotBehind(j)'] = received + 2 + j
      BY <1>1, <1>3, <1>0 DEF ContentInv, Numbers
    <2>1. j + 1 \in 0..(Unconsumed - 1) /\ SlotBehind(j)' = SlotBehind(j + 1)
      BY <1>1, <1>2, <1>0 DEF SlotBehind, LinkSlot, Numbers
    <2> QED
      BY <2>1, <1>0 DEF RingInv, ContentInv, Numbers
  <1> QED
    BY <1>4, <1>5, <1>6, <1>7 DEF RingInv

\* The controller follows the Link TRB into the driver's lap.
LEMMA HcFollowLinkRingInv == RingInv /\ HcFollowLink => RingInv'
  <1> SUFFICES ASSUME RingInv, HcFollowLink PROVE RingInv'
    OBVIOUS
  <1>0. Numbers /\ LinkSlot' = LinkSlot /\ Slot' = Slot
    BY Bounds
  <1>1. /\ dequeue' = 0 /\ ccs' = 1 - ccs
        /\ UNCHANGED <<low, high, cycle, write_index, cycle_bit, pc, received, active, sent>>
    BY DEF HcFollowLink
  <1>2. dequeue = LinkSlot /\ cycle_bit = 1 - ccs /\ Unconsumed = write_index
    BY OwnedFront DEF HcFollowLink
  <1>3. Unconsumed' = Unconsumed
    BY <1>1 DEF Unconsumed
  <1>4. TypeInv'
    BY <1>1, <1>2, <1>0 DEF RingInv, TypeInv, Numbers
  <1>5. PushInv'
    BY <1>1, <1>2, <1>3, <1>0 DEF RingInv, PushInv, Numbers
  <1>6. LapInv' /\ CycleInv' /\ LinkInv'
    BY <1>1, <1>2, <1>3, <1>0 DEF RingInv, TypeInv, LapInv, CycleInv, LinkInv, Numbers
  <1>7. ContentInv'
    <2> SUFFICES ASSUME NEW j \in 0..(Unconsumed - 1)
                 PROVE  SlotBehind(j)' = SlotBehind(j)
      BY <1>1, <1>3, <1>0 DEF RingInv, ContentInv, Numbers
    <2> QED
      BY <1>1, <1>2, <1>0 DEF SlotBehind, LinkSlot, Numbers
  <1> QED
    BY <1>4, <1>5, <1>6, <1>7 DEF RingInv

\* Steps that leave the ring and both places in it alone
LEMMA QuietRingInv == RingInv /\ (RingDoorbell \/ HcStop \/ UNCHANGED vars) => RingInv'
  <1> SUFFICES ASSUME RingInv, RingDoorbell \/ HcStop \/ UNCHANGED vars PROVE RingInv'
    OBVIOUS
  <1>0. Numbers /\ LinkSlot' = LinkSlot /\ Slot' = Slot
    BY Bounds
  <1>1. /\ UNCHANGED <<low, high, cycle, write_index, cycle_bit, dequeue, ccs, received, sent>>
        /\ active' \in BOOLEAN
        /\ pc' = pc \/ (pc = "pushed" /\ pc' = "idle")
    BY DEF RingDoorbell, HcStop, vars, RingInv, TypeInv
  <1>2. Unconsumed' = Unconsumed /\ \A j : SlotBehind(j)' = SlotBehind(j)
    BY <1>1 DEF Unconsumed, SlotBehind
  <1>3. TypeInv'
    BY <1>1 DEF RingInv, TypeInv
  <1>4. PushInv' /\ LapInv' /\ CycleInv' /\ LinkInv' /\ ContentInv'
    BY <1>1, <1>2 DEF RingInv, PushInv, LapInv, CycleInv, LinkInv, ContentInv
  <1> QED
    BY <1>3, <1>4 DEF RingInv

\* Every step of the driver and of the controller keeps the invariant.
LEMMA NextRingInv == RingInv /\ [Next]_vars => RingInv'
  BY PushBeginRingInv, PushEndRingInv, PushLinkBeginRingInv, PushLinkEndRingInv,
     HcTakeRingInv, HcFollowLinkRingInv, QuietRingInv DEF Next, Push, HcStep

-----------------------------------------------------------------------------
(* The slot of the n-th TRB                                                 *)

\* A remainder is the one number below the divisor that is left.
LEMMA Remainder ==
    ASSUME NEW m \in Nat, m > 0, NEW q \in Nat, NEW r \in Nat, r < m
    PROVE  (q * m + r) % m = r
  OBVIOUS

\* The controller has taken whole laps and what it has passed of the present one.
LEMMA InitPlaceInv == Init => PlaceInv
  BY RingAssumption DEF Init, PlaceInv, LinkSlot

\* Only taking a TRB and following the Link TRB move the controller, and the latter is in
\* the last slot.
LEMMA NextPlaceInv == RingInv /\ PlaceInv /\ [Next]_vars => PlaceInv'
  <1> SUFFICES ASSUME RingInv, PlaceInv, [Next]_vars PROVE PlaceInv'
    OBVIOUS
  <1>0. Numbers /\ LinkSlot' = LinkSlot
    BY Bounds
  <1>1. PICK q \in Nat : received = q * LinkSlot + dequeue
    BY DEF PlaceInv
  <1>2. CASE HcTake
    <2>1. received' = received + 1 /\ dequeue' = dequeue + 1
      BY <1>2 DEF HcTake
    <2>2. received' = q * LinkSlot' + dequeue'
      BY <1>0, <1>1, <2>1 DEF Numbers
    <2> QED
      BY <2>2 DEF PlaceInv
  <1>3. CASE HcFollowLink
    <2>1. received' = received /\ dequeue' = 0 /\ dequeue = LinkSlot
      BY <1>3, OwnedFront DEF HcFollowLink
    <2>2. received' = (q + 1) * LinkSlot' + dequeue'
      BY <1>0, <1>1, <2>1 DEF Numbers
    <2> QED
      BY <2>2 DEF PlaceInv
  <1>4. CASE ~HcTake /\ ~HcFollowLink
    <2>1. received' = received /\ dequeue' = dequeue
      BY <1>4 DEF Next, Push, PushBegin, PushEnd, PushLinkBegin, PushLinkEnd, RingDoorbell,
                  HcStep, HcStop, vars
    <2> QED
      BY <1>0, <1>1, <2>1 DEF PlaceInv
  <1> QED
    BY <1>2, <1>3, <1>4

\* The slot that ContentInv speaks of is the one that the number of the TRB says.
LEMMA SlotOfUnconsumed ==
    ASSUME RingInv, PlaceInv, NEW j \in 0..(Unconsumed - 1)
    PROVE  SlotOf(received + 1 + j) = SlotBehind(j)
  <1>0. Numbers
    BY Bounds
  <1>1. PICK q \in Nat : received = q * LinkSlot + dequeue
    BY DEF PlaceInv
  <1>2. j \in Nat /\ (received + 1 + j) - 1 = received + j
    BY <1>0 DEF Numbers
  <1>3. CASE dequeue + j < LinkSlot
    <2>1. received + j = q * LinkSlot + (dequeue + j)
      BY <1>0, <1>1, <1>2 DEF Numbers
    <2>2. LinkSlot \in Nat /\ LinkSlot > 0 /\ dequeue + j \in Nat
      BY <1>0, <1>2 DEF Numbers
    <2>3. (q * LinkSlot + (dequeue + j)) % LinkSlot = dequeue + j
      BY <1>3, <2>2, Remainder
    <2> QED
      BY <1>2, <1>3, <2>1, <2>3 DEF SlotOf, SlotBehind
  <1>4. CASE ~(dequeue + j < LinkSlot)
    <2>1. /\ received + j = (q + 1) * LinkSlot + (dequeue + j - LinkSlot)
          /\ dequeue + j - LinkSlot \in Nat /\ dequeue + j - LinkSlot < LinkSlot
      BY <1>0, <1>1, <1>2, <1>4 DEF Numbers
    <2>2. LinkSlot \in Nat /\ LinkSlot > 0 /\ q + 1 \in Nat
      BY <1>0 DEF Numbers
    <2>3. ((q + 1) * LinkSlot + (dequeue + j - LinkSlot)) % LinkSlot = dequeue + j - LinkSlot
      BY <2>1, <2>2, Remainder
    <2> QED
      BY <1>2, <1>4, <2>1, <2>3 DEF SlotOf, SlotBehind
  <1> QED
    BY <1>3, <1>4

-----------------------------------------------------------------------------
(* The theorems                                                             *)

\* The invariant of the ring holds in every behaviour of Push and the controller.
THEOREM RingInvariance == Spec => [](RingInv /\ PlaceInv)
  <1>1. Init => RingInv /\ PlaceInv
    BY InitRingInv, InitPlaceInv
  <1>2. (RingInv /\ PlaceInv) /\ [Next]_vars => (RingInv /\ PlaceInv)'
    BY NextRingInv, NextPlaceInv
  <1> QED
    BY <1>1, <1>2, PTL DEF Spec

\* Push never overwrites what the controller has not consumed, in a ring of any size in
\* which the callers leave one slot free.
THEOREM NothingOverwritten == Spec => []UnconsumedIntact
  <1>1. RingInv /\ PlaceInv => UnconsumedIntact
    <2> SUFFICES ASSUME RingInv, PlaceInv, NEW n \in (received + 1)..sent
                 PROVE  low[SlotOf(n)] = n /\ high[SlotOf(n)] = n
      BY DEF UnconsumedIntact
    <2>0. Numbers
      BY Bounds
    <2> DEFINE j == n - received - 1
    <2>1. j \in 0..(Unconsumed - 1) /\ n = received + 1 + j
      BY <2>0 DEF Numbers
    <2>2. SlotOf(n) = SlotBehind(j)
      BY <2>1, SlotOfUnconsumed
    <2> QED
      BY <2>1, <2>2 DEF RingInv, ContentInv
  <1> QED
    BY <1>1, RingInvariance, PTL

\* The front of a sequence of consecutive numbers
LEMMA ConsecutiveTail ==
    ASSUME NEW r \in Nat, NEW k \in Nat, k > 0
    PROVE  /\ [i \in 1..k |-> r + i] # <<>>
           /\ Head([i \in 1..k |-> r + i]) = r + 1
           /\ Tail([i \in 1..k |-> r + i]) = [i \in 1..(k - 1) |-> (r + 1) + i]
  OBVIOUS

\* The word stores of Push, the Link TRB and the controller's fetches implement a FIFO
\* queue: the last word of a TRB puts it in, and the controller takes it out whole.
THEOREM RefinesFifo == Spec => F!Spec
  <1>1. Init => F!Init
    BY DEF Init, F!Init, Outstanding
  <1>2. RingInv /\ [Next]_vars => [F!Next]_(F!fifoVars)
    <2> SUFFICES ASSUME RingInv, [Next]_vars PROVE [F!Next]_(F!fifoVars)
      OBVIOUS
    <2>0. Numbers
      BY Bounds
    <2>1. CASE PushEnd
      <3>1. /\ sent' = sent + 1 /\ received' = received /\ taken' = taken
        BY <2>1 DEF PushEnd
      <3>2. Outstanding' = Append(Outstanding, sent + 1)
        BY <3>1, <2>0 DEF Outstanding, Numbers
      <3> QED
        BY <3>1, <3>2 DEF F!Next, F!Put
    <2>2. CASE HcTake
      <3>1. /\ sent' = sent /\ received' = received + 1 /\ taken' = low[dequeue]
        BY <2>2 DEF HcTake
      <3>2. low[dequeue] = received + 1 /\ Unconsumed > 0
        BY <2>2, OwnedFront DEF HcTake
      <3>3. Unconsumed \in Nat /\ received \in Nat /\ sent - received = Unconsumed
        BY <2>0 DEF Numbers
      <3>4. sent' - received' = Unconsumed - 1
        BY <3>1, <2>0 DEF Numbers
      <3>5. /\ Outstanding = [i \in 1..Unconsumed |-> received + i]
            /\ Outstanding' = [i \in 1..(Unconsumed - 1) |-> (received + 1) + i]
        BY <3>1, <3>3, <3>4 DEF Outstanding
      <3>6. /\ Outstanding # <<>> /\ Head(Outstanding) = received + 1
            /\ Outstanding' = Tail(Outstanding)
        BY <3>2, <3>3, <3>5, ConsecutiveTail
      <3> QED
        BY <3>1, <3>2, <3>6 DEF F!Next, F!Take
    <2>3. CASE ~PushEnd /\ ~HcTake
      <3>1. UNCHANGED <<sent, received, taken>>
        BY <2>3 DEF Next, Push, PushBegin, PushLinkBegin, PushLinkEnd, RingDoorbell,
                    HcStep, HcFollowLink, HcStop, vars
      <3> QED
        BY <3>1 DEF F!fifoVars, Outstanding
    <2> QED
      BY <2>1, <2>2, <2>3
  <1> QED
    BY <1>1, <1>2, RingInvariance, PTL DEF Spec, F!Spec
=============================================================================
