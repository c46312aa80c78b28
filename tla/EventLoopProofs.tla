-------------------------- MODULE EventLoopProofs ---------------------------
(***************************************************************************)
(* An event ring of any size, for any number of events: main_queue loses   *)
(* no message, the interrupter is left busy with nobody to serve it only   *)
(* if its flag was set between the read and the write of ERDP, and the     *)
(* events are handled once each and in order.                              *)
(***************************************************************************)
EXTENDS EventLoop, TLAPS

\* The front event has been handled and is not off the ring yet.
Popping == pc \in {"pop_read", "pop_write"}

TypeInv ==
    /\ trb \in [Slot -> Nat] /\ cycle \in [Slot -> {0, 1}]
    /\ enqueue \in Slot /\ pcs \in {0, 1} /\ erdp \in Slot /\ cycle_bit \in {0, 1}
    /\ ehb \in BOOLEAN /\ late \in BOOLEAN /\ msi \in BOOLEAN
    /\ interrupts_enabled \in BOOLEAN /\ ehb_read \in BOOLEAN
    /\ posted \in Nat /\ handled \in Nat
    /\ main_queue \in Nat /\ pushed \in Nat /\ popped \in Nat
    /\ pc \in {"loop", "empty", "pop", "drain", "pop_read", "pop_write"}

\* Interrupts are disabled from empty() to pop(), so that pop() finds the queue that
\* front() saw.
QueueInv ==
    /\ pc \in {"empty", "pop"} => ~interrupts_enabled
    /\ pc = "pop" => queue_seen = main_queue /\ main_queue > 0
    /\ MessagesKept

\* Events off the ring, and events in it
Removed == IF Popping THEN handled - 1 ELSE handled
InRing == posted - Removed

\* The cycle bit of the driver's lap; Pop turns its own before it moves the pointer.
LapBit == IF pc = "pop_write" /\ erdp = BufSize - 1 THEN 1 - cycle_bit ELSE cycle_bit

\* The driver is in the controller's lap, or in the lap before.
LapInv ==
    /\ InRing \in 0..(BufSize - 1)
    /\ Popping => InRing > 0
    /\ \/ pcs = LapBit /\ erdp + InRing = enqueue
       \/ pcs = 1 - LapBit /\ erdp + InRing = BufSize + enqueue

\* A slot has the cycle bit of the controller's lap if it was written in that lap.
CycleInv == \A i \in Slot : cycle[i] = IF i < enqueue THEN pcs ELSE 1 - pcs

\* The slot that is j behind the dequeue pointer
SlotBehind(j) == IF erdp + j < BufSize THEN erdp + j ELSE erdp + j - BufSize

\* The events in the ring are in the slots from the dequeue pointer on.
ContentInv == \A j \in 0..(InRing - 1) : trb[SlotBehind(j)] = Removed + 1 + j

RingInv == TypeInv /\ LapInv /\ CycleInv /\ ContentInv

\* An interrupter that did not become busy late has events in its ring, and somebody is on
\* the way to drain it: the interrupt, the message, or the main loop itself.
WakeInv ==
    ehb /\ ~late =>
        /\ enqueue # erdp
        /\ msi \/ main_queue > 0 \/ pc \in {"drain", "pop_read", "pop_write"}
        /\ pc = "pop_write" => ehb_read

USE DEF ring, queue, AtSegmentEnd, Following

-----------------------------------------------------------------------------
(* The types, and main_queue                                               *)

\* A step takes a variable to a value of its type.
LEMMA NextTypeInv == TypeInv /\ QueueInv /\ [Next]_vars => TypeInv'
  <1> SUFFICES ASSUME TypeInv, QueueInv, [Next]_vars PROVE TypeInv'
    OBVIOUS
  <1>1. CASE HcPost
    <2>1. Following(enqueue) \in Slot
      BY RingAssumption DEF TypeInv, Slot
    <2> QED
      BY <1>1, <2>1 DEF HcPost, TypeInv
  <1>2. CASE HcInterrupt
    BY <1>2 DEF HcInterrupt, TypeInv
  <1>3. CASE IntHandlerXhci
    <2>1. main_queue' \in Nat /\ pushed' \in Nat
      BY <1>3 DEF IntHandlerXhci, TypeInv
    <2>2. msi' \in BOOLEAN
      BY <1>3 DEF IntHandlerXhci
    <2> QED
      BY <1>3, <2>1, <2>2 DEF IntHandlerXhci, TypeInv
  <1>4. CASE LoopCli \/ LoopFront \/ DrainEnd
    BY ZenonT(40), <1>4 DEF LoopCli, LoopFront, DrainEnd, Cli, Sti, TypeInv
  <1>5. CASE LoopPop
    BY <1>5 DEF LoopPop, Sti, TypeInv, QueueInv
  <1>6. CASE ProcessFront
    BY <1>6 DEF ProcessFront, TypeInv
  <1>7. CASE PopRead
    BY <1>7 DEF PopRead, TypeInv
  <1>8. CASE PopWrite
    <2>1. (IF erdp + 1 = BufSize THEN 0 ELSE erdp + 1) \in Slot
      BY RingAssumption DEF TypeInv, Slot
    <2> QED
      BY <1>8, <2>1 DEF PopWrite, EhbWritten, TypeInv
  <1>9. CASE UNCHANGED vars
    BY <1>9 DEF vars, TypeInv
  <1> QED
    BY <1>1, <1>2, <1>3, <1>4, <1>5, <1>6, <1>7, <1>8, <1>9 DEF Next, MainLoop

\* The handler runs only while the main loop is away from the queue.
LEMMA NextQueueInv == TypeInv /\ QueueInv /\ [Next]_vars => QueueInv'
  <1> SUFFICES ASSUME TypeInv, QueueInv, [Next]_vars PROVE QueueInv'
    OBVIOUS
  <1>1. CASE IntHandlerXhci
    <2>1. pc' = pc /\ pc \notin {"empty", "pop"}
      BY <1>1 DEF IntHandlerXhci, QueueInv
    <2>2. MessagesKept'
      BY <1>1 DEF IntHandlerXhci, TypeInv, QueueInv, MessagesKept
    <2> QED
      BY <2>1, <2>2 DEF QueueInv
  <1>2. CASE LoopCli
    BY <1>2 DEF LoopCli, Cli, QueueInv, MessagesKept
  <1>3. CASE LoopFront
    <2>1. MessagesKept'
      BY <1>3 DEF LoopFront, QueueInv, MessagesKept
    <2>2. CASE main_queue = 0
      BY <1>3, <2>1, <2>2 DEF LoopFront, QueueInv
    <2>3. CASE main_queue # 0
      BY <1>3, <2>1, <2>3 DEF LoopFront, TypeInv, QueueInv
    <2> QED
      BY <2>2, <2>3
  <1>4. CASE LoopPop
    BY <1>4 DEF LoopPop, Sti, TypeInv, QueueInv, MessagesKept
  <1>5. CASE ProcessFront \/ DrainEnd \/ PopRead \/ PopWrite
    BY <1>5 DEF ProcessFront, DrainEnd, PopRead, PopWrite, QueueInv, MessagesKept
  <1>6. CASE HcPost \/ HcInterrupt \/ UNCHANGED vars
    BY <1>6 DEF HcPost, HcInterrupt, vars, QueueInv, MessagesKept
  <1> QED
    BY <1>1, <1>2, <1>3, <1>4, <1>5, <1>6 DEF Next, MainLoop

-----------------------------------------------------------------------------
(* The ring                                                                *)

\* The numbers of the state, within their bounds
Numbers ==
    /\ BufSize \in Nat /\ BufSize >= 2 /\ Slot = 0..(BufSize - 1)
    /\ enqueue \in Nat /\ enqueue < BufSize /\ erdp \in Nat /\ erdp < BufSize
    /\ InRing \in Nat /\ InRing < BufSize
    /\ posted \in Nat /\ handled \in Nat /\ Removed \in Int /\ posted = Removed + InRing

\* They follow from the invariant.
LEMMA Bounds == RingInv => Numbers
  BY RingAssumption DEF Numbers, RingInv, TypeInv, LapInv, InRing, Removed, Slot

\* HasFront compares the cycle bit at the dequeue pointer with that of the driver's lap;
\* they agree exactly if there is an event, and the front is the oldest one.
LEMMA Front ==
    ASSUME RingInv, pc = "drain"
    PROVE  (HasFront <=> InRing > 0) /\ (HasFront => trb[erdp] = handled + 1)
  <1>0. Numbers
    BY Bounds
  <1>1. LapBit = cycle_bit /\ Removed = handled
    BY DEF LapBit, Removed, Popping
  <1>2. cycle[erdp] = IF erdp < enqueue THEN pcs ELSE 1 - pcs
    BY DEF RingInv, TypeInv, CycleInv
  <1>3. cycle_bit \in {0, 1} /\ pcs \in {0, 1}
    BY DEF RingInv, TypeInv
  <1>4. \/ pcs = cycle_bit /\ erdp + InRing = enqueue
        \/ pcs = 1 - cycle_bit /\ erdp + InRing = BufSize + enqueue
    BY <1>1 DEF RingInv, LapInv
  <1>5. HasFront <=> InRing > 0
    BY <1>0, <1>2, <1>3, <1>4 DEF HasFront, Numbers
  <1>6. ASSUME HasFront PROVE trb[erdp] = handled + 1
    <2>1. 0 \in 0..(InRing - 1) /\ SlotBehind(0) = erdp
      BY <1>0, <1>5, <1>6 DEF SlotBehind, Numbers
    <2>2. trb[erdp] = Removed + 1 + 0
      BY <2>1 DEF RingInv, ContentInv
    <2> QED
      BY <1>0, <1>1, <2>2 DEF Numbers
  <1> QED
    BY <1>5, <1>6

\* The controller writes behind the events in the ring and leaves one slot free.
LEMMA HcPostRingInv == RingInv /\ TypeInv' /\ HcPost => RingInv'
  <1> SUFFICES ASSUME RingInv, TypeInv', HcPost PROVE RingInv'
    OBVIOUS
  <1>0. Numbers
    BY Bounds
  <1>1. /\ UNCHANGED <<erdp, pc, cycle_bit, handled>> /\ posted' = posted + 1
        /\ trb' = [trb EXCEPT ![enqueue] = posted + 1]
        /\ cycle' = [cycle EXCEPT ![enqueue] = pcs]
        /\ enqueue' = (IF enqueue = BufSize - 1 THEN 0 ELSE enqueue + 1)
        /\ (IF enqueue = BufSize - 1 THEN 0 ELSE enqueue + 1) # erdp
        /\ pcs' = IF enqueue = BufSize - 1 THEN 1 - pcs ELSE pcs
    BY <1>0 DEF HcPost, Numbers
  <1>2. Removed' = Removed /\ Popping' = Popping /\ LapBit' = LapBit
    BY <1>1 DEF Removed, Popping, LapBit
  <1>3. InRing' = InRing + 1
    BY <1>0, <1>1, <1>2 DEF InRing, Numbers
  <1>4. pcs \in {0, 1} /\ LapBit \in {0, 1}
    BY DEF RingInv, TypeInv, LapBit
  <1>5. \/ pcs = LapBit /\ erdp + InRing = enqueue
        \/ pcs = 1 - LapBit /\ erdp + InRing = BufSize + enqueue
    BY DEF RingInv, LapInv
  <1>6. LapInv'
    <2>1. InRing + 1 \in 0..(BufSize - 1)
      BY <1>0, <1>1, <1>5 DEF Numbers
    <2>2. \/ pcs' = LapBit /\ erdp + InRing + 1 = enqueue'
          \/ pcs' = 1 - LapBit /\ erdp + InRing + 1 = BufSize + enqueue'
      BY <1>0, <1>1, <1>4, <1>5 DEF Numbers
    <2> QED
      BY <1>0, <1>1, <1>2, <1>3, <2>1, <2>2 DEF LapInv, Numbers
  <1>7. CycleInv'
    <2> SUFFICES ASSUME NEW i \in Slot
                 PROVE  cycle'[i] = IF i < enqueue' THEN pcs' ELSE 1 - pcs'
      BY DEF CycleInv
    <2>1. cycle'[i] = IF i = enqueue THEN pcs ELSE cycle[i]
      BY <1>1 DEF RingInv, TypeInv
    <2>2. cycle[i] = IF i < enqueue THEN pcs ELSE 1 - pcs
      BY DEF RingInv, CycleInv
    <2> QED
      BY <1>0, <1>1, <1>4, <2>1, <2>2 DEF Numbers
  <1>8. ContentInv'
    <2> SUFFICES ASSUME NEW j \in 0..InRing
                 PROVE  trb'[SlotBehind(j)] = Removed + 1 + j
      BY <1>0, <1>1, <1>2, <1>3 DEF ContentInv, SlotBehind, Numbers
    <2>1. SlotBehind(j) \in Slot /\ (SlotBehind(j) = enqueue <=> j = InRing)
      BY <1>0, <1>5 DEF SlotBehind, Numbers
    <2>2. trb'[SlotBehind(j)] = IF j = InRing THEN posted + 1 ELSE trb[SlotBehind(j)]
      BY <1>1, <2>1 DEF RingInv, TypeInv
    <2>3. j # InRing => trb[SlotBehind(j)] = Removed + 1 + j
      BY <1>0 DEF RingInv, ContentInv, Numbers
    <2> QED
      BY <1>0, <2>2, <2>3 DEF Numbers
  <1> QED
    BY <1>6, <1>7, <1>8 DEF RingInv

\* While the front event is handled it stays in the ring.
LEMMA ProcessFrontRingInv == RingInv /\ TypeInv' /\ ProcessFront => RingInv'
  <1> SUFFICES ASSUME RingInv, TypeInv', ProcessFront PROVE RingInv'
    OBVIOUS
  <1>0. Numbers
    BY Bounds
  <1>1. /\ UNCHANGED <<trb, cycle, enqueue, pcs, posted, erdp, cycle_bit>>
        /\ pc = "drain" /\ pc' = "pop_read" /\ handled' = trb[erdp] /\ HasFront
    BY DEF ProcessFront
  <1>2. handled' = handled + 1 /\ InRing > 0
    BY <1>1, Front
  <1>3. Removed' = Removed /\ LapBit' = LapBit
    BY <1>0, <1>1, <1>2 DEF Removed, Popping, LapBit, Numbers
  <1>4. InRing' = InRing
    BY <1>1, <1>3 DEF InRing
  <1>5. LapInv' /\ CycleInv' /\ ContentInv'
    BY <1>0, <1>1, <1>2, <1>3, <1>4
       DEF RingInv, LapInv, CycleInv, ContentInv, SlotBehind, Numbers
  <1> QED
    BY <1>5 DEF RingInv

\* Pop turns the expected cycle bit before it moves the pointer.
LEMMA PopReadRingInv == RingInv /\ TypeInv' /\ PopRead => RingInv'
  <1> SUFFICES ASSUME RingInv, TypeInv', PopRead PROVE RingInv'
    OBVIOUS
  <1>0. Numbers
    BY Bounds
  <1>1. /\ UNCHANGED <<trb, cycle, enqueue, pcs, posted, erdp, handled>>
        /\ pc = "pop_read" /\ pc' = "pop_write"
        /\ cycle_bit' = IF erdp = BufSize - 1 THEN 1 - cycle_bit ELSE cycle_bit
    BY <1>0 DEF PopRead, Numbers
  <1>2. Removed' = Removed /\ Popping /\ Popping'
    BY <1>1 DEF Removed, Popping
  <1>3. LapBit' = LapBit
    <2>1. cycle_bit \in {0, 1}
      BY DEF RingInv, TypeInv
    <2> QED
      BY <1>1, <2>1 DEF LapBit
  <1>4. InRing' = InRing
    BY <1>1, <1>2 DEF InRing
  <1>5. LapInv' /\ CycleInv' /\ ContentInv'
    BY <1>1, <1>2, <1>3, <1>4 DEF RingInv, LapInv, CycleInv, ContentInv, SlotBehind
  <1> QED
    BY <1>5 DEF RingInv

\* The write of ERDP gives the slot of the front event back.
LEMMA PopWriteRingInv == RingInv /\ TypeInv' /\ PopWrite => RingInv'
  <1> SUFFICES ASSUME RingInv, TypeInv', PopWrite PROVE RingInv'
    OBVIOUS
  <1>0. Numbers
    BY Bounds
  <1>1. /\ UNCHANGED <<trb, cycle, enqueue, pcs, posted, handled, cycle_bit>>
        /\ pc = "pop_write" /\ pc' = "drain"
        /\ erdp' = IF erdp = BufSize - 1 THEN 0 ELSE erdp + 1
    BY <1>0 DEF PopWrite, Numbers
  <1>2. Popping /\ ~Popping' /\ Removed' = Removed + 1
    BY <1>0, <1>1 DEF Removed, Popping, Numbers
  <1>3. InRing' = InRing - 1 /\ InRing > 0
    BY <1>0, <1>1, <1>2 DEF InRing, RingInv, LapInv, Numbers
  <1>4. cycle_bit \in {0, 1} /\ pcs \in {0, 1}
    BY DEF RingInv, TypeInv
  <1>5. /\ LapBit = IF erdp = BufSize - 1 THEN 1 - cycle_bit ELSE cycle_bit
        /\ LapBit' = cycle_bit
    BY <1>1 DEF LapBit
  <1>6. \/ pcs = LapBit /\ erdp + InRing = enqueue
        \/ pcs = 1 - LapBit /\ erdp + InRing = BufSize + enqueue
    BY DEF RingInv, LapInv
  <1>7. LapInv'
    <2>1. InRing - 1 \in 0..(BufSize - 1)
      BY <1>0, <1>3 DEF Numbers
    <2>2. \/ pcs = cycle_bit /\ erdp' + (InRing - 1) = enqueue
          \/ pcs = 1 - cycle_bit /\ erdp' + (InRing - 1) = BufSize + enqueue
      BY <1>0, <1>1, <1>3, <1>4, <1>5, <1>6 DEF Numbers
    <2> QED
      BY <1>1, <1>2, <1>3, <1>5, <2>1, <2>2 DEF LapInv
  <1>8. CycleInv'
    BY <1>1 DEF RingInv, CycleInv
  <1>9. ContentInv'
    <2> SUFFICES ASSUME NEW j \in 0..(InRing - 2)
                 PROVE  trb[SlotBehind(j)'] = Removed + 2 + j
      BY <1>0, <1>1, <1>2, <1>3 DEF ContentInv, Numbers
    <2>1. j + 1 \in 0..(InRing - 1) /\ SlotBehind(j)' = SlotBehind(j + 1)
      BY <1>0, <1>1 DEF SlotBehind, Numbers
    <2>2. trb[SlotBehind(j + 1)] = Removed + 1 + (j + 1)
      BY <2>1 DEF RingInv, ContentInv
    <2> QED
      BY <1>0, <2>1, <2>2 DEF Numbers
  <1> QED
    BY <1>7, <1>8, <1>9 DEF RingInv

\* Steps that leave the ring and both places in it alone
LEMMA QuietRingInv ==
    ASSUME RingInv, TypeInv',
           \/ HcInterrupt \/ IntHandlerXhci \/ LoopCli \/ LoopFront \/ LoopPop \/ DrainEnd
           \/ UNCHANGED vars
    PROVE  RingInv'
  <1>1. /\ UNCHANGED <<trb, cycle, enqueue, pcs, posted, erdp, cycle_bit, handled>>
        /\ \/ pc' = pc
           \/ ~Popping /\ ~Popping'
    BY DEF HcInterrupt, IntHandlerXhci, LoopCli, LoopFront, LoopPop, DrainEnd, vars, Popping
  <1>2. Popping' = Popping /\ Removed' = Removed /\ LapBit' = LapBit
    BY <1>1 DEF Popping, Removed, LapBit
  <1>3. InRing' = InRing
    BY <1>1, <1>2 DEF InRing
  <1>4. LapInv' /\ CycleInv' /\ ContentInv'
    BY <1>1, <1>2, <1>3 DEF RingInv, LapInv, CycleInv, ContentInv, SlotBehind
  <1> QED
    BY <1>4 DEF RingInv

\* Every step of the controller and of the processor keeps the ring in order.
LEMMA NextRingInv == RingInv /\ QueueInv /\ [Next]_vars => RingInv'
  <1> SUFFICES ASSUME RingInv, QueueInv, [Next]_vars PROVE RingInv'
    OBVIOUS
  <1>1. TypeInv'
    BY NextTypeInv DEF RingInv
  <1> QED
    BY <1>1, HcPostRingInv, ProcessFrontRingInv, PopReadRingInv, PopWriteRingInv,
       QuietRingInv DEF Next, MainLoop

-----------------------------------------------------------------------------
(* The interrupter                                                         *)

\* The main loop ends a drain only when it finds the ring empty, and a busy interrupter
\* has events in its ring; Pop clears every EHB that was set when it read ERDP.
LEMMA NextWakeInv == RingInv /\ QueueInv /\ WakeInv /\ [Next]_vars => WakeInv'
  <1> SUFFICES ASSUME RingInv, QueueInv, WakeInv, [Next]_vars, ehb', ~late' PROVE
               /\ enqueue' # erdp'
               /\ \/ msi' \/ (main_queue > 0)'
                  \/ pc' \in {"drain", "pop_read", "pop_write"}
               /\ pc' = "pop_write" => ehb_read'
    BY DEF WakeInv
  <1>0. TypeInv
    BY DEF RingInv
  <1>2. ehb /\ ~late =>
               /\ enqueue # erdp
               /\ msi \/ main_queue > 0 \/ pc \in {"drain", "pop_read", "pop_write"}
    BY DEF WakeInv
  <1>3. ehb /\ ~late /\ pc = "pop_write" => ehb_read
    BY DEF WakeInv
  <1>4. CASE HcPost
    BY <1>4, <1>2, <1>3 DEF HcPost
  <1>5. CASE HcInterrupt
    <2>1. pc # "pop_write"
      BY <1>5 DEF HcInterrupt
    <2> QED
      BY <1>5, <2>1 DEF HcInterrupt
  <1>6. CASE IntHandlerXhci
    <2>1. main_queue' > 0
      BY <1>0, <1>6 DEF IntHandlerXhci, TypeInv
    <2> QED
      BY <1>6, <1>2, <1>3, <2>1 DEF IntHandlerXhci
  <1>7. CASE LoopCli \/ LoopFront
    <2>1. /\ UNCHANGED <<ehb, late, enqueue, erdp, msi, main_queue>>
          /\ pc \in {"loop", "empty"} /\ pc' \in {"loop", "empty", "pop"}
      BY <1>7 DEF LoopCli, LoopFront
    <2> QED
      BY <1>2, <2>1
  <1>8. CASE LoopPop
    BY <1>8, <1>2 DEF LoopPop
  <1>9. CASE ProcessFront
    BY <1>9, <1>2 DEF ProcessFront
  <1>10. CASE DrainEnd
    <2>1. InRing = 0
      BY <1>10, Front, Bounds DEF DrainEnd, Numbers
    <2>2. enqueue = erdp
      BY <2>1, Bounds DEF RingInv, LapInv, Numbers
    <2> QED
      BY <1>10, <1>2, <2>2 DEF DrainEnd
  <1>11. CASE PopRead
    BY <1>11, <1>2 DEF PopRead
  <1>12. CASE PopWrite
    <2>1. ~ehb_read /\ ehb /\ ~late /\ pc = "pop_write"
      BY <1>0, <1>12 DEF PopWrite, EhbWritten, TypeInv
    <2> QED
      BY <1>3, <2>1
  <1>13. CASE UNCHANGED vars
    BY <1>13, <1>2, <1>3 DEF vars
  <1> QED
    BY <1>4, <1>5, <1>6, <1>7, <1>8, <1>9, <1>10, <1>11, <1>12, <1>13 DEF Next, MainLoop

-----------------------------------------------------------------------------
(* The theorems                                                            *)

\* The main loop starts with an empty ring, an empty queue and an idle interrupter.
LEMMA InitInv == Init => RingInv /\ QueueInv /\ WakeInv
  <1> SUFFICES ASSUME Init PROVE RingInv /\ QueueInv /\ WakeInv
    OBVIOUS
  <1>1. TypeInv
    <2>1. 0 \in Slot
      BY RingAssumption DEF Slot
    <2>2. /\ ehb \in BOOLEAN /\ late \in BOOLEAN /\ msi \in BOOLEAN
          /\ interrupts_enabled \in BOOLEAN /\ ehb_read \in BOOLEAN
      BY DEF Init
    <2> QED
      BY <2>1, <2>2 DEF Init, TypeInv
  <1>2. InRing = 0 /\ LapBit = 1 /\ ~Popping
    <2>1. ~Popping
      BY DEF Init, Popping
    <2>2. posted = 0 /\ handled = 0 /\ pc # "pop_write" /\ cycle_bit = 1
      BY DEF Init
    <2>3. Removed = 0 /\ LapBit = 1
      BY <2>1, <2>2 DEF Removed, LapBit
    <2> QED
      BY <2>1, <2>2, <2>3 DEF InRing
  <1>3. LapInv
    BY <1>2, RingAssumption DEF Init, LapInv
  <1>4. CycleInv /\ ContentInv
    BY <1>2 DEF Init, CycleInv, ContentInv, Slot
  <1>5. QueueInv
    BY DEF Init, QueueInv, MessagesKept
  <1>6. WakeInv
    BY DEF Init, WakeInv
  <1> QED
    BY <1>1, <1>3, <1>4, <1>5, <1>6 DEF RingInv

\* The ring, the queue and the interrupter stay in order in every behaviour.
THEOREM EventLoopInvariance == Spec => [](RingInv /\ QueueInv /\ WakeInv)
  <1>1. RingInv /\ QueueInv /\ WakeInv /\ [Next]_vars => (RingInv /\ QueueInv /\ WakeInv)'
    BY NextRingInv, NextQueueInv, NextWakeInv DEF RingInv
  <1> QED
    BY InitInv, <1>1, PTL DEF Spec

\* No message that int_handler_xhci pushes is lost or taken twice: cli and sti in the main
\* loop keep the handler away from main_queue between front() and pop().
THEOREM NoMessageLost == Spec => []MessagesKept
  <1>1. QueueInv => MessagesKept
    BY DEF QueueInv
  <1> QED
    BY <1>1, EventLoopInvariance, PTL

\* If EHB is set while events wait and neither an interrupt nor a message is on the way, then
\* it was set between WriteDequeuePointer's read and write of ERDP, and nowhere else.
THEOREM WakeupKept == Spec => []NoLostWakeup
  <1>1. RingInv /\ WakeInv => NoLostWakeup
    <2> SUFFICES ASSUME RingInv, WakeInv, pc \in {"loop", "empty"},
                        main_queue = 0, ehb, ~late
                 PROVE  msi
      BY DEF NoLostWakeup
    <2>1. msi \/ main_queue > 0
      BY DEF WakeInv
    <2> QED
      BY <2>1
  <1> QED
    BY <1>1, EventLoopInvariance, PTL

\* The front of a sequence of consecutive numbers
LEMMA ConsecutiveTail ==
    ASSUME NEW r \in Nat, NEW k \in Nat, k > 0
    PROVE  /\ [i \in 1..k |-> r + i] # <<>>
           /\ Head([i \in 1..k |-> r + i]) = r + 1
           /\ Tail([i \in 1..k |-> r + i]) = [i \in 1..(k - 1) |-> (r + 1) + i]
  OBVIOUS

\* The event ring implements a FIFO queue: ProcessEvent gets every event once and in the
\* order in which the controller posted them, across any number of wraps.
THEOREM EventsFifo == Spec => EventsInOrder
  <1>1. Init => F!Init
    BY DEF Init, F!Init, Unhandled
  <1>2. RingInv /\ [Next]_vars => [F!Next]_(F!fifoVars)
    <2> SUFFICES ASSUME RingInv, [Next]_vars PROVE [F!Next]_(F!fifoVars)
      OBVIOUS
    <2>0. Numbers
      BY Bounds
    <2>1. CASE HcPost
      <3>1. posted' = posted + 1 /\ handled' = handled
        BY <2>1 DEF HcPost
      <3>2. handled <= posted
        BY <2>0 DEF RingInv, LapInv, Removed, Numbers
      <3>3. Unhandled' = Append(Unhandled, posted + 1)
        BY <3>1, <3>2, <2>0 DEF Unhandled, Numbers
      <3> QED
        BY <3>1, <3>3 DEF F!Next, F!Put
    <2>2. CASE ProcessFront
      <3>1. posted' = posted /\ handled' = handled + 1 /\ InRing > 0
        BY <2>2, Front DEF ProcessFront
      <3>2. Removed = handled
        BY <2>2 DEF ProcessFront, Removed, Popping
      <3>3. InRing \in Nat /\ handled \in Nat /\ posted - handled = InRing
        BY <2>0, <3>2 DEF Numbers
      <3>4. posted' - handled' = InRing - 1
        BY <3>1, <3>2, <2>0 DEF Numbers
      <3>5. /\ Unhandled = [i \in 1..InRing |-> handled + i]
            /\ Unhandled' = [i \in 1..(InRing - 1) |-> (handled + 1) + i]
        BY <3>1, <3>3, <3>4 DEF Unhandled
      <3>6. /\ Unhandled # <<>> /\ Head(Unhandled) = handled + 1
            /\ Unhandled' = Tail(Unhandled)
        BY <3>1, <3>3, <3>5, ConsecutiveTail
      <3> QED
        BY <3>1, <3>6 DEF F!Next, F!Take
    <2>3. CASE ~HcPost /\ ~ProcessFront
      <3>1. UNCHANGED <<posted, handled>>
        BY <2>3 DEF Next, MainLoop, HcInterrupt, IntHandlerXhci, LoopCli, LoopFront, LoopPop,
                    DrainEnd, PopRead, PopWrite, vars
      <3> QED
        BY <3>1 DEF F!fifoVars, Unhandled
    <2> QED
      BY <2>1, <2>2, <2>3
  <1> QED
    BY <1>1, <1>2, EventLoopInvariance, PTL DEF Spec, F!Spec, EventsInOrder

=============================================================================
