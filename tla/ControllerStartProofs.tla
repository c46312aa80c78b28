----------------------- MODULE ControllerStartProofs ------------------------
(***************************************************************************)
(* The memory pool for every sequence of requests, and the start of every   *)
(* controller: what AllocMem promises, that a controller is reset only when *)
(* it is halted and no longer the firmware's, and that one that starts has  *)
(* been given all that it needs.                                           *)
(***************************************************************************)
EXTENDS ControllerStart, TLAPS

-----------------------------------------------------------------------------
(* The arithmetic of AllocMem                                              *)

\* Of two powers of two one divides the other.
LEMMA PowersDivide ==
    /\ \A a \in PowersOfTwo : a \in Nat /\ a > 0
    /\ \A a, b \in PowersOfTwo : a % b = 0 \/ b % a = 0
  BY DEF PowersOfTwo

\* Ceil is the least multiple that is not below.
LEMMA CeilBounds ==
    ASSUME NEW v \in Nat, NEW a \in Nat, a > 0
    PROVE  Ceil(v, a) \in Nat /\ v <= Ceil(v, a) /\ Ceil(v, a) < v + a
  BY DEF Ceil

\* Ceil is a multiple.
LEMMA CeilMultiple ==
    ASSUME NEW v \in Nat, NEW a \in Nat, a > 0
    PROVE  \E n \in Nat : Ceil(v, a) = n * a
  <1>1. (v + a - 1) \div a \in Nat
    OBVIOUS
  <1> QED
    BY <1>1 DEF Ceil

\* A multiple stays where it is.
LEMMA CeilOfMultiple ==
    ASSUME NEW n \in Nat, NEW a \in Nat, a > 0
    PROVE  Ceil(n * a, a) = n * a
  BY DEF Ceil

\* Division without remainder
LEMMA ExactQuotient ==
    ASSUME NEW b \in Nat, NEW a \in Nat, a > 0, b % a = 0
    PROVE  b \div a \in Nat /\ b = (b \div a) * a
  OBVIOUS

\* A multiple leaves no remainder.
LEMMA MultipleRemainder ==
    ASSUME NEW n \in Nat, NEW a \in Nat, a > 0
    PROVE  (n * a) % a = 0
  OBVIOUS

\* A multiple of a multiple
LEMMA MultipleOfMultiple ==
    ASSUME NEW n \in Nat, NEW c \in Nat, NEW a \in Nat
    PROVE  n * (c * a) = (n * c) * a /\ n * c \in Nat
  OBVIOUS

\* The quotient of what lies between two multiples
LEMMA QuotientBetween ==
    ASSUME NEW n \in Nat, NEW b \in Nat, b > 0, NEW x \in Nat, n * b <= x, x < n * b + b
    PROVE  x \div b = n
  OBVIOUS

\* The request as AllocMem sees it
LEMMA RequestFields ==
    ASSUME NEW r \in Requests
    PROVE  /\ r.size \in Nat /\ r.size > 0
           /\ r.alignment \in Nat /\ r.boundary \in Nat
           /\ r.alignment > 0 => r.alignment \in PowersOfTwo
           /\ r.boundary > 0 => r.boundary \in PowersOfTwo
  BY RequestAssumption, PowersDivide

\* The place for a region is not below the pointer.
LEMMA PlacedAbove ==
    ASSUME NEW p \in Nat, NEW r \in Requests
    PROVE  Placed(p, r) \in Nat /\ p <= Placed(p, r)
  <1>1. Aligned(p, r) \in Nat /\ p <= Aligned(p, r)
    <2>1. r.alignment > 0 => Ceil(p, r.alignment) \in Nat /\ p <= Ceil(p, r.alignment)
      BY RequestFields, CeilBounds
    <2> QED
      BY <2>1 DEF Aligned
  <1> DEFINE q == Aligned(p, r)
  <1> HIDE DEF q
  <1>2. r.boundary > 0 => Ceil(q, r.boundary) \in Nat /\ q <= Ceil(q, r.boundary)
    BY <1>1, RequestFields, CeilBounds DEF q
  <1>3. Placed(p, r) = q \/ (r.boundary > 0 /\ Placed(p, r) = Ceil(q, r.boundary))
    BY DEF Placed, q
  <1> QED
    BY <1>1, <1>2, <1>3 DEF q

\* It is a multiple of the alignment, even if it was moved to a multiple of the boundary.
LEMMA PlacedAligned ==
    ASSUME NEW p \in Nat, NEW r \in Requests, r.alignment > 0
    PROVE  Placed(p, r) % r.alignment = 0
  <1> DEFINE a == r.alignment
             b == r.boundary
             q == Aligned(p, r)
  <1>0. a \in Nat /\ a > 0 /\ a \in PowersOfTwo /\ b \in Nat /\ (b > 0 => b \in PowersOfTwo)
    BY RequestFields
  <1>1. q = Ceil(p, a)
    BY <1>0 DEF Aligned
  <1>2. Placed(p, r) = q \/ (b > 0 /\ Placed(p, r) = Ceil(q, b))
    BY DEF Placed
  <1> HIDE DEF a, b, q
  <1>3. PICK n \in Nat : q = n * a
    BY <1>0, <1>1, CeilMultiple
  <1>4. q \in Nat /\ q % a = 0
    BY <1>0, <1>3, MultipleRemainder
  <1>5. ASSUME b > 0 PROVE Ceil(q, b) % a = 0
    <2>1. a % b = 0 \/ b % a = 0
      BY <1>0, <1>5, PowersDivide
    <2>2. CASE a % b = 0
      <3>1. PICK c \in Nat : a = c * b
        BY <1>0, <1>5, <2>2, ExactQuotient
      <3>2. q = (n * c) * b /\ n * c \in Nat
        BY <1>0, <1>3, <3>1, MultipleOfMultiple
      <3>3. Ceil(q, b) = q
        BY <1>0, <1>5, <3>2, CeilOfMultiple
      <3> QED
        BY <1>4, <3>3
    <2>3. CASE b % a = 0
      <3>1. PICK c \in Nat : b = c * a
        BY <1>0, <2>3, ExactQuotient
      <3>2. PICK m \in Nat : Ceil(q, b) = m * b
        BY <1>0, <1>4, <1>5, CeilMultiple
      <3>3. Ceil(q, b) = (m * c) * a /\ m * c \in Nat
        BY <1>0, <3>1, <3>2, MultipleOfMultiple
      <3> QED
        BY <1>0, <3>3, MultipleRemainder
    <2> QED
      BY <2>1, <2>2, <2>3
  <1> QED
    BY <1>2, <1>4, <1>5 DEF a

\* A region that fits between two multiples of the boundary does not cross one.
LEMMA PlacedWithin ==
    ASSUME NEW p \in Nat, NEW r \in Requests, r.boundary > 0, r.size <= r.boundary
    PROVE  Placed(p, r) \div r.boundary = (Placed(p, r) + r.size - 1) \div r.boundary
  <1> DEFINE b == r.boundary
             s == r.size
             q == Aligned(p, r)
             x == Placed(p, r)
  <1>0. b \in Nat /\ b > 0 /\ s \in Nat /\ s > 0 /\ s <= b
    BY RequestFields
  <1>1. q \in Nat
    BY RequestFields, CeilBounds DEF Aligned
  <1>2. x = IF Ceil(q, b) < q + s THEN Ceil(q, b) ELSE q
    BY DEF Placed, Crosses
  <1> HIDE DEF b, s, q, x
  <1>3. PICK m \in Nat : Ceil(q, b) = m * b
    BY <1>0, <1>1, CeilMultiple
  <1>4. Ceil(q, b) \in Nat /\ q <= Ceil(q, b) /\ Ceil(q, b) < q + b
    BY <1>0, <1>1, CeilBounds
  <1>5. CASE x = Ceil(q, b)
    <2>1. /\ m * b <= x /\ x < m * b + b /\ x \in Nat
          /\ m * b <= x + s - 1 /\ x + s - 1 < m * b + b /\ x + s - 1 \in Nat
      BY <1>0, <1>3, <1>4, <1>5
    <2> QED
      BY <1>0, <2>1, QuotientBetween DEF b, s, x
  <1>6. CASE x = q /\ x # Ceil(q, b)
    <2>1. q + s <= m * b
      BY <1>0, <1>1, <1>2, <1>3, <1>4, <1>6
    <2>2. m \in Nat /\ m - 1 \in Nat /\ (m - 1) * b + b = m * b
      BY <1>0, <1>1, <2>1
    <2>3. /\ (m - 1) * b <= x /\ x < (m - 1) * b + b
          /\ (m - 1) * b <= x + s - 1 /\ x + s - 1 < (m - 1) * b + b /\ x + s - 1 \in Nat
      BY <1>0, <1>1, <1>3, <1>4, <1>6, <2>1, <2>2
    <2> QED
      BY <1>0, <1>1, <1>6, <2>2, <2>3, QuotientBetween DEF b, s, x
  <1> QED
    BY <1>2, <1>5, <1>6

-----------------------------------------------------------------------------
(* The pool                                                                *)

\* What was handed out lies below alloc_ptr, wherever a call that failed has moved it.
PoolInv ==
    /\ alloc_ptr \in Nat /\ PoolBase <= alloc_ptr
    /\ \A x \in regions : /\ x \in [addr : Nat, request : Requests]
                          /\ RegionEnd(x) <= alloc_ptr
    /\ ConstraintsKept /\ RegionsDisjoint

\* A call keeps what was handed out before. Unless it fails, the region that it returns is
\* in the pool above all of them.
LEMMA AllocMemPoolInv ==
    ASSUME PoolInv, NEW r \in Requests, AllocMem(r)
    PROVE  /\ PoolInv'
           /\ regions \subseteq regions'
           /\ Result(r) \in Nat
           /\ Result(r) # 0 => /\ [addr |-> Result(r), request |-> r] \in regions'
                               /\ \A x \in regions : RegionEnd(x) <= Result(r)
  <1> DEFINE p == Placed(alloc_ptr, r)
  <1>0. p \in Nat /\ alloc_ptr <= p /\ alloc_ptr \in Nat /\ PoolBase <= alloc_ptr
    BY PlacedAbove DEF PoolInv
  <1>1. r.size \in Nat /\ r.size > 0 /\ PoolBase \in Nat /\ PoolBase > 0 /\ PoolSize \in Nat
    BY RequestFields, PoolAssumption
  <1>2. ASSUME NEW x \in regions
        PROVE  /\ x.addr \in Nat /\ RegionEnd(x) \in Nat /\ x.addr < RegionEnd(x)
               /\ RegionEnd(x) <= alloc_ptr
    BY RequestFields DEF PoolInv, RegionEnd
  <1>3. CASE AllocMemFails(r)
    <2>1. alloc_ptr' = p /\ regions' = regions /\ Result(r) = 0
      BY <1>3 DEF AllocMemFails, Result
    <2>2. ConstraintsKept' /\ RegionsDisjoint'
      BY <2>1 DEF PoolInv, ConstraintsKept, RegionsDisjoint, RegionEnd
    <2>3. \A x \in regions : RegionEnd(x) <= p
      BY <1>0, <1>2
    <2> HIDE DEF p
    <2> QED
      BY <1>0, <1>1, <2>1, <2>2, <2>3 DEF PoolInv, RegionEnd
  <1>4. CASE AllocMemSucceeds(r)
    <2> DEFINE new == [addr |-> p, request |-> r]
    <2>1. /\ alloc_ptr' = p + r.size /\ regions' = regions \cup {new}
          /\ ~(PoolBase + PoolSize < p + r.size) /\ Result(r) = p
      BY <1>4 DEF AllocMemSucceeds, Advanced, Result, Exhausted
    <2>2. /\ r.alignment > 0 => p % r.alignment = 0
          /\ r.boundary > 0 /\ r.size <= r.boundary =>
                p \div r.boundary = (p + r.size - 1) \div r.boundary
      BY <1>0, PlacedAligned, PlacedWithin
    <2>3. new \in [addr : Nat, request : Requests] /\ RegionEnd(new) = p + r.size
      BY <1>0 DEF RegionEnd
    <2> HIDE DEF p
    <2>4. ConstraintsKept'
      <3> SUFFICES ASSUME NEW x \in regions'
                   PROVE  /\ x.request.alignment > 0 => x.addr % x.request.alignment = 0
                          /\ x.request.boundary > 0 /\ x.request.size <= x.request.boundary =>
                                x.addr \div x.request.boundary
                                    = (RegionEnd(x) - 1) \div x.request.boundary
        BY DEF ConstraintsKept, RegionEnd
      <3>1. CASE x \in regions
        BY <3>1 DEF PoolInv, ConstraintsKept
      <3>2. CASE x = new
        <4>1. x.addr = p /\ x.request = r /\ RegionEnd(x) = p + r.size
          BY <2>3, <3>2
        <4> QED
          BY <1>0, <1>1, <2>2, <4>1, RequestFields
      <3> QED
        BY <2>1, <3>1, <3>2
    <2>5. RegionsDisjoint'
      <3>1. \A x \in regions : RegionEnd(x) <= p
        BY <1>0, <1>2
      <3>2. PoolBase <= new.addr /\ RegionEnd(new) <= PoolBase + PoolSize
        BY <1>0, <1>1, <2>1, <2>3
      <3>3. \A x \in regions' : PoolBase <= x.addr /\ RegionEnd(x) <= PoolBase + PoolSize
        BY <2>1, <3>2 DEF PoolInv, RegionsDisjoint
      <3>4. \A x, y \in regions : x = y \/ RegionEnd(x) <= y.addr \/ RegionEnd(y) <= x.addr
        BY DEF PoolInv, RegionsDisjoint
      <3>5. \A x, y \in regions' : x = y \/ RegionEnd(x) <= y.addr \/ RegionEnd(y) <= x.addr
        BY <2>1, <3>1, <3>4
      <3> QED
        BY <3>3, <3>5 DEF RegionsDisjoint, RegionEnd
    <2>6. \A x \in regions : RegionEnd(x) <= p /\ RegionEnd(x) <= p + r.size
      BY <1>0, <1>1, <1>2
    <2>7. \A x \in regions' : x \in [addr : Nat, request : Requests] /\ RegionEnd(x) <= alloc_ptr'
      BY <1>0, <1>1, <2>1, <2>3, <2>6 DEF PoolInv
    <2>8. alloc_ptr' \in Nat /\ PoolBase <= alloc_ptr'
      BY <1>0, <1>1, <2>1
    <2>9. PoolInv'
      BY <2>4, <2>5, <2>7, <2>8, Zenon DEF PoolInv, RegionEnd
    <2> QED
      BY <1>0, <2>1, <2>6, <2>9
  <1> QED
    BY <1>3, <1>4 DEF AllocMem

\* A call never moves the pointer back, and one that returns null leaves no room for what
\* was asked for.
LEMMA AllocMemSpent ==
    ASSUME PoolInv, NEW r \in Requests, AllocMem(r)
    PROVE  /\ alloc_ptr' \in Nat /\ alloc_ptr <= alloc_ptr'
           /\ Result(r) = 0 => PoolBase + PoolSize < alloc_ptr' + r.size
  <1> DEFINE p == Placed(alloc_ptr, r)
  <1>0. p \in Nat /\ alloc_ptr <= p /\ alloc_ptr \in Nat /\ PoolBase <= alloc_ptr
    BY PlacedAbove DEF PoolInv
  <1>1. r.size \in Nat /\ PoolBase \in Nat /\ PoolBase > 0 /\ PoolSize \in Nat
    BY RequestFields, PoolAssumption
  <1>2. CASE AllocMemFails(r)
    <2>1. alloc_ptr' = p /\ PoolBase + PoolSize < p + r.size
      BY <1>2 DEF AllocMemFails, Exhausted
    <2> QED
      BY <1>0, <2>1
  <1>3. CASE AllocMemSucceeds(r)
    <2>1. alloc_ptr' = p + r.size /\ Result(r) = p
      BY <1>3 DEF AllocMemSucceeds, Advanced, Result
    <2> HIDE DEF p
    <2> QED
      BY <1>0, <1>1, <2>1
  <1> QED
    BY <1>2, <1>3 DEF AllocMem

-----------------------------------------------------------------------------
(* The start of the controller                                             *)

Final == {"run", "wait_running", "running"}
BeforeStop == {"devices", "contexts", "ownership", "search", "wait_owned", "stop"}
BeforeReset == {"wait_halted", "reset"}

\* Where Initialize has reached: the steps from one on, up to the end
FromErst == {"enable"}
FromTable == {"erst"} \cup FromErst
FromEventRing == {"table"} \cup FromTable
FromCrcr == {"event_ring"} \cup FromEventRing
FromCommandRing == {"crcr"} \cup FromCrcr
FromDcbaap == {"command_ring"} \cup FromCommandRing
FromScratchpad == {"dcbaap"} \cup FromDcbaap
FromArray == {"buffers"} \cup FromScratchpad
FromConfig == {"scratchpad"} \cup FromArray
FromReset == {"config"} \cup FromConfig
FromContexts == FromReset \cup BeforeReset \cup {"wait_reset", "wait_ready"}
                \cup {"ownership", "search", "wait_owned", "stop"}

\* Initialize has come as far as one of the places S, or has succeeded.
Reached(S) == pc \in S \/ error = "Success"

RegisterFile ==
    [config : Int, dcbaap : Int, crcr : Int, erstsz : Int, erdp : Int, erstba : Int,
     iman : BOOLEAN]

StartTypeInv ==
    /\ pc \in {"devices", "contexts"} \cup FromContexts \cup Final
    /\ error \in {"none", "NoEnoughMemory", "Success"}
    /\ error # "none" => pc \in Final
    /\ controller \in Controllers
    /\ bios_owned \in BOOLEAN /\ os_owned \in BOOLEAN
    /\ usbcmd \in [run_stop : BOOLEAN, reset : BOOLEAN, interrupts : BOOLEAN]
    /\ usbsts \in [halted : BOOLEAN, not_ready : BOOLEAN]
    /\ registers \in RegisterFile
    /\ pointers \in [devices : Nat, contexts : Nat, contexts_0 : Nat, scratchpad : Nat,
                     command_ring : Nat, event_ring : Nat, table : Nat]
    /\ scratchpad_buf_arr \in Seq(Nat)

\* The command and status bits that the driver relies on
BitsInv ==
    /\ pc \in BeforeStop => ~(usbcmd.run_stop /\ usbsts.halted)
    /\ pc \in BeforeReset \cup {"wait_reset"} => ~usbcmd.run_stop
    /\ pc = "reset" => usbsts.halted
    /\ usbcmd.reset => pc = "wait_reset"
    /\ usbsts.not_ready => pc \in {"wait_reset", "wait_ready"}
    /\ error = "Success" => usbcmd.interrupts

\* The search has looked at the registers V, which lead nowhere but to ext, and has not
\* found USBLEGSUP there.
Searched(V) ==
    /\ controller.xecp \in V \cup {0, ext}
    /\ \A a \in V : /\ controller.extended[a].id # 1
                    /\ \/ controller.extended[a].next = 0
                       \/ a + controller.extended[a].next \in V \cup {ext}

\* The firmware has let go by the time the controller is stopped.
OwnerInv ==
    /\ pc \in {"devices", "contexts", "ownership", "search"} => ~(bios_owned /\ os_owned)
    /\ pc = "search" => /\ ext \in DOMAIN controller.extended \cup {0}
                        /\ \E V \in SUBSET DOMAIN controller.extended : Searched(V)
    /\ pc \in {"stop"} \cup BeforeReset => (HasLegsup => ~bios_owned)

\* What the driver has programmed so far
RegistersInv ==
    /\ Reached(FromConfig) => registers.config = MaxSlots
    /\ Reached(FromDcbaap) => registers.dcbaap = pointers.contexts
    /\ Reached(FromCrcr) => registers.crcr = pointers.command_ring
    /\ Reached(FromErst) => /\ registers.erstsz = 1 /\ registers.iman
                            /\ registers.erdp = pointers.event_ring
                            /\ registers.erstba = pointers.table

\* The memory that it has got for the controller so far
PointersInv ==
    /\ Reached(FromContexts) => Owned(pointers.contexts, ContextsRequest)
    /\ Reached(FromCommandRing) => Owned(pointers.command_ring, RingRequest)
    /\ Reached(FromEventRing) => /\ Owned(pointers.event_ring, RingRequest)
                                 /\ pointers.event_ring # pointers.command_ring
    /\ Reached(FromTable) => Owned(pointers.table, TableRequest)

\* The scratchpad: nobody looks whether the array or a buffer is null.
ScratchpadInv ==
    /\ pc \in {"devices", "contexts", "config", "scratchpad"} \cup (FromContexts \ FromReset) =>
          scratchpad_buf_arr = <<>>
    /\ pc \in {"scratchpad", "buffers"} => controller.scratchpads > 0
    /\ Reached(FromArray) /\ controller.scratchpads > 0 =>
          \/ pointers.scratchpad = 0
          \/ Owned(pointers.scratchpad, ScratchpadRequest(controller.scratchpads))
    /\ Reached(FromScratchpad) =>
          /\ Len(scratchpad_buf_arr) = controller.scratchpads
          /\ controller.scratchpads > 0 => pointers.contexts_0 = pointers.scratchpad
    /\ \A k \in DOMAIN scratchpad_buf_arr :
          scratchpad_buf_arr[k] # 0 =>
              /\ Owned(scratchpad_buf_arr[k], PageRequest)
              /\ \A m \in DOMAIN scratchpad_buf_arr :
                    scratchpad_buf_arr[k] = scratchpad_buf_arr[m] => k = m

\* What is null was asked for in vain.
NullInv ==
    /\ Reached(FromArray) /\ controller.scratchpads > 0 /\ pointers.scratchpad = 0 =>
          Spent(controller.scratchpads)
    /\ \A k \in DOMAIN scratchpad_buf_arr : scratchpad_buf_arr[k] = 0 => Spent(Page)

StartInv ==
    /\ PoolInv /\ StartTypeInv /\ BitsInv /\ OwnerInv
    /\ RegistersInv /\ PointersInv /\ ScratchpadInv /\ NullInv

USE DEF Final, BeforeStop, BeforeReset, FromErst, FromTable, FromEventRing, FromCrcr,
        FromCommandRing, FromDcbaap, FromScratchpad, FromArray, FromConfig, FromReset,
        FromContexts, vars, hw_vars, sw_vars, Goto

\* A step is a call of AllocMem for one of the requests, or leaves the pool alone.
LEMMA PoolStep ==
    ASSUME StartInv, [StartNext]_start_vars
    PROVE  UNCHANGED vars \/ \E r \in Requests : AllocMem(r)
  <1> USE StartAssumption
  <1>1. CASE AllocMore
    BY <1>1 DEF AllocMore, Next
  <1>2. CASE DevicesInitialize \/ RingsInitialize
    BY <1>2 DEF DevicesInitialize, RingsInitialize, Allocate
  <1>3. CASE AllocScratchpadArray
    <2>1. controller \in Controllers /\ controller.scratchpads > 0
      BY <1>3 DEF AllocScratchpadArray, StartInv, StartTypeInv, ScratchpadInv
    <2> QED
      BY <1>3, <2>1 DEF AllocScratchpadArray
  <1>4. CASE AllocScratchpadBuffer
    BY <1>4 DEF AllocScratchpadBuffer
  <1>5. CASE Hardware
    BY <1>5 DEF Hardware, HcHalt, HcReset, HcReady, HcStart, BiosRelease
  <1>6. CASE \/ BeginExtended \/ FindLegsup \/ Stop \/ Reset \/ Wait \/ Config
             \/ StoreScratchpadArray \/ WriteDcbaap \/ RegisterCommandRing \/ RegisterEventRing
             \/ EnableInterrupts \/ RunController \/ UNCHANGED start_vars
    BY <1>6 DEF BeginExtended, FindLegsup, Stop, Reset, Wait, Config, StoreScratchpadArray,
                WriteDcbaap, RegisterCommandRing, RegisterEventRing, EnableInterrupts,
                RunController, start_vars
  <1> QED
    BY <1>1, <1>2, <1>3, <1>4, <1>5, <1>6 DEF StartNext, Driver

\* No step takes a region back.
LEMMA NextPoolInv ==
    ASSUME StartInv, [StartNext]_start_vars
    PROVE  PoolInv' /\ regions \subseteq regions'
  <1>1. CASE UNCHANGED vars
    BY <1>1 DEF StartInv, PoolInv, ConstraintsKept, RegionsDisjoint, RegionEnd
  <1>2. ASSUME NEW r \in Requests, AllocMem(r) PROVE PoolInv' /\ regions \subseteq regions'
    BY <1>2, AllocMemPoolInv DEF StartInv
  <1> QED
    BY <1>1, <1>2, PoolStep

\* Of the hardware, a step of the driver changes at most the command register, the
\* registers that it programs and its semaphore.
LEMMA NextBitsInv ==
    ASSUME StartInv, [StartNext]_start_vars
    PROVE  BitsInv'
  <1> USE DEF StartInv, StartTypeInv, BitsInv
  <1>1. CASE Hardware
    <2>1. CASE HcHalt
      BY <1>1, <2>1 DEF HcHalt
    <2>2. CASE HcReset
      BY <1>1, <2>2 DEF HcReset
    <2>3. CASE HcReady
      BY <1>1, <2>3 DEF HcReady
    <2>4. CASE HcStart
      BY <1>1, <2>4 DEF HcStart
    <2>5. CASE BiosRelease
      BY <1>1, <2>5 DEF BiosRelease
    <2> QED
      BY <1>1, <2>1, <2>2, <2>3, <2>4, <2>5 DEF Hardware
  <1>2. CASE Stop
    BY <1>2 DEF Stop, RunStopWritten
  <1>3. CASE Reset
    BY <1>3 DEF Reset
  <1>4. CASE Wait
    BY <1>4 DEF Wait, Halted, Ready
  <1>5. CASE EnableInterrupts
    BY <1>5 DEF EnableInterrupts
  <1>6. CASE RunController
    BY <1>6 DEF RunController
  <1>7. CASE DevicesInitialize \/ RingsInitialize
    BY <1>7 DEF DevicesInitialize, RingsInitialize, Allocate
  <1>8. CASE BeginExtended \/ FindLegsup
    BY <1>8 DEF BeginExtended, FindLegsup
  <1>9. CASE \/ AllocScratchpadArray \/ AllocScratchpadBuffer \/ StoreScratchpadArray
             \/ Config \/ WriteDcbaap \/ RegisterCommandRing \/ RegisterEventRing
             \/ AllocMore \/ UNCHANGED start_vars
    BY <1>9 DEF AllocScratchpadArray, AllocScratchpadBuffer, StoreScratchpadArray, Config,
                WriteDcbaap, RegisterCommandRing, RegisterEventRing, AllocMore, start_vars
  <1> QED
    BY <1>1, <1>2, <1>3, <1>4, <1>5, <1>6, <1>7, <1>8, <1>9 DEF StartNext, Driver

\* What AllocMem returns is a pointer.
LEMMA ResultPointer ==
    ASSUME StartInv
    PROVE  /\ \A r \in Requests : Result(r) \in Nat
           /\ Line \in Nat /\ Line > 0
  <1>1. alloc_ptr \in Nat
    BY DEF StartInv, PoolInv
  <1>2. \A r \in Requests : Result(r) \in Nat
    BY <1>1, PlacedAbove DEF Result
  <1>3. ContextsRequest.alignment = Line /\ ContextsRequest \in Requests
    BY StartAssumption DEF ContextsRequest, Request
  <1> QED
    BY <1>2, <1>3, RequestFields, SizesAssumption

\* A value that is written to one of the registers
LEMMA RegisterWritten ==
    ASSUME NEW f \in RegisterFile, NEW n \in Int
    PROVE  /\ [f EXCEPT !.config = n] \in RegisterFile
           /\ [f EXCEPT !.dcbaap = n] \in RegisterFile
           /\ [f EXCEPT !.crcr = n] \in RegisterFile
           /\ [f EXCEPT !.erstsz = n] \in RegisterFile
           /\ [f EXCEPT !.erdp = n] \in RegisterFile
           /\ [f EXCEPT !.erstba = n] \in RegisterFile
           /\ [f EXCEPT !.iman = TRUE] \in RegisterFile
  <1>1. [f EXCEPT !.config = n] \in RegisterFile
    BY DEF RegisterFile
  <1>2. [f EXCEPT !.dcbaap = n] \in RegisterFile
    BY DEF RegisterFile
  <1>3. [f EXCEPT !.crcr = n] \in RegisterFile
    BY DEF RegisterFile
  <1>4. [f EXCEPT !.erstsz = n] \in RegisterFile
    BY DEF RegisterFile
  <1>5. [f EXCEPT !.erdp = n] \in RegisterFile
    BY DEF RegisterFile
  <1>6. [f EXCEPT !.erstba = n] \in RegisterFile
    BY DEF RegisterFile
  <1>7. [f EXCEPT !.iman = TRUE] \in RegisterFile
    BY DEF RegisterFile
  <1> QED
    BY <1>1, <1>2, <1>3, <1>4, <1>5, <1>6, <1>7

\* The registers of the interrupter
LEMMA EventRingWritten ==
    ASSUME NEW f \in RegisterFile, NEW e \in Int, NEW t \in Int
    PROVE  [f EXCEPT !.erstsz = 1, !.erdp = e, !.erstba = t, !.iman = TRUE] \in RegisterFile
  <1>0. 1 \in Int
    OBVIOUS
  <1>1. [f EXCEPT !.erstsz = 1] \in RegisterFile
    BY <1>0, RegisterWritten, Zenon
  <1>2. [[f EXCEPT !.erstsz = 1] EXCEPT !.erdp = e] \in RegisterFile
    BY <1>1, RegisterWritten
  <1>3. [[[f EXCEPT !.erstsz = 1] EXCEPT !.erdp = e] EXCEPT !.erstba = t] \in RegisterFile
    BY <1>2, RegisterWritten
  <1>4. [[[[f EXCEPT !.erstsz = 1] EXCEPT !.erdp = e] EXCEPT !.erstba = t] EXCEPT !.iman = TRUE]
            \in RegisterFile
    BY <1>3, RegisterWritten
  <1> QED
    BY <1>4

\* A step takes a variable to a value of its type.
LEMMA NextStartTypeInv ==
    ASSUME StartInv, [StartNext]_start_vars
    PROVE  StartTypeInv'
  <1> USE DEF StartInv, StartTypeInv
  <1>0. /\ Line \in Nat /\ Line > 0
        /\ \A p \in Nat : /\ Masked(p, Line) \in Int /\ Masked(p, TrbSize) \in Int
                          /\ MaskedDcbaap(p) \in Int
    <2>1. Line \in Nat /\ Line > 0 /\ DcbaapLimit \in Nat /\ DcbaapLimit > 0
      BY ResultPointer, LinkAssumption, PoolAssumption
    <2> QED
      BY <2>1, TrbAssumption DEF Masked, MaskedDcbaap
  <1>1. CASE Hardware
    <2>1. CASE HcHalt \/ HcReady \/ HcStart \/ BiosRelease
      <3>1. CASE HcHalt
        BY ZenonT(40), <3>1 DEF HcHalt
      <3>2. CASE HcReady
        BY ZenonT(40), <3>2 DEF HcReady
      <3>3. CASE HcStart
        BY <3>3 DEF HcStart
      <3>4. CASE BiosRelease
        BY ZenonT(40), <3>4 DEF BiosRelease
      <3> QED
        BY <2>1, <3>1, <3>2, <3>3, <3>4
    <2>2. CASE HcReset
      <3>1. registers' \in RegisterFile
        BY <2>2 DEF HcReset, Defaults, RegisterFile
      <3>2. /\ usbcmd' \in [run_stop : BOOLEAN, reset : BOOLEAN, interrupts : BOOLEAN]
            /\ usbsts' \in [halted : BOOLEAN, not_ready : BOOLEAN]
        BY <2>2 DEF HcReset
      <3> QED
        BY <2>2, <3>1, <3>2 DEF HcReset
    <2> QED
      BY <1>1, <2>1, <2>2 DEF Hardware
  <1>2. CASE Stop \/ Reset \/ EnableInterrupts \/ RunController
    BY <1>2 DEF Stop, RunStopWritten, Reset, EnableInterrupts, RunController
  <1>3. CASE Wait \/ BeginExtended \/ AllocMore \/ UNCHANGED start_vars
    BY <1>3 DEF Wait, BeginExtended, AllocMore, start_vars
  <1>4. CASE FindLegsup
    BY <1>4 DEF FindLegsup
  <1>5. CASE DevicesInitialize \/ RingsInitialize
    <2>1. {DevicesRequest, ContextsRequest, RingRequest, TableRequest} \subseteq Requests
      BY StartAssumption
    <2>2. \A r \in {DevicesRequest, ContextsRequest, RingRequest, TableRequest} : Result(r) \in Nat
      BY <2>1, ResultPointer
    <2> QED
      BY ZenonT(40), <1>5, <2>2 DEF DevicesInitialize, RingsInitialize, Allocate
  <1>6. CASE AllocScratchpadArray
    <2>1. controller.scratchpads > 0
      BY <1>6 DEF AllocScratchpadArray, ScratchpadInv
    <2>2. Result(ScratchpadRequest(controller.scratchpads)) \in Nat
      BY <2>1, StartAssumption, ResultPointer
    <2> QED
      BY <1>6, <2>2 DEF AllocScratchpadArray
  <1>7. CASE AllocScratchpadBuffer
    <2>1. Result(PageRequest) \in Nat
      BY StartAssumption, ResultPointer
    <2>2. scratchpad_buf_arr' \in Seq(Nat)
      BY <1>7, <2>1 DEF AllocScratchpadBuffer
    <2> QED
      BY <1>7, <2>2 DEF AllocScratchpadBuffer
  <1>8. CASE StoreScratchpadArray
    BY <1>8 DEF StoreScratchpadArray
  <1>9. CASE Config \/ WriteDcbaap \/ RegisterCommandRing \/ RegisterEventRing
    <2>1. registers' \in RegisterFile
      <3>1. CASE Config
        <4>1. MaxSlots \in Int
          BY SizesAssumption
        <4>2. [registers EXCEPT !.config = MaxSlots] \in RegisterFile
          BY <4>1, RegisterWritten
        <4> QED
          BY <3>1, <4>2 DEF Config, Write
      <3>2. CASE WriteDcbaap
        BY <1>0, <3>2, RegisterWritten DEF WriteDcbaap, Write
      <3>3. CASE RegisterCommandRing
        BY <1>0, <3>3, RegisterWritten DEF RegisterCommandRing, Write
      <3>4. CASE RegisterEventRing
        <4>1. \A e, t \in Int :
                 [registers EXCEPT !.erstsz = 1, !.erdp = e, !.erstba = t, !.iman = TRUE]
                     \in RegisterFile
          BY EventRingWritten
        <4>2. Masked(pointers.event_ring, TrbSize) \in Int /\ Masked(pointers.table, Line) \in Int
          BY <1>0
        <4> QED
          BY <3>4, <4>1, <4>2 DEF RegisterEventRing, Write
      <3> QED
        BY <1>9, <3>1, <3>2, <3>3, <3>4
    <2> QED
      BY <1>9, <2>1 DEF Config, WriteDcbaap, RegisterCommandRing, RegisterEventRing
  <1> QED
    BY <1>1, <1>2, <1>3, <1>4, <1>5, <1>6, <1>7, <1>8, <1>9 DEF StartNext, Driver

\* Only the search and the firmware's answer touch the semaphores, and the search ends
\* with all registers of the list seen or USBLEGSUP found.
LEMMA NextOwnerInv ==
    ASSUME StartInv, [StartNext]_start_vars
    PROVE  OwnerInv'
  <1>0. controller' = controller /\ (bios_owned' => bios_owned)
    BY DEF StartNext, Driver, Hardware, HcHalt, HcReset, HcReady, HcStart, BiosRelease,
           DevicesInitialize, RingsInitialize, Allocate, BeginExtended, FindLegsup, Stop,
           Reset, Wait, Config, AllocScratchpadArray, AllocScratchpadBuffer,
           StoreScratchpadArray, WriteDcbaap, RegisterCommandRing, RegisterEventRing,
           EnableInterrupts, RunController, AllocMore, start_vars
  <1>1. HasLegsup' = HasLegsup
    BY <1>0 DEF HasLegsup
  <1>2. IsController(controller)
    BY ControllersAssumption DEF StartInv, StartTypeInv
  <1>3. CASE BeginExtended
    <2>1. ext' = controller.xecp
      BY <1>3, <1>2 DEF BeginExtended, AddOrNull, IsController
    <2>2. Searched({})'
      BY <1>0, <2>1 DEF Searched
    <2>3. ext' \in DOMAIN controller'.extended \cup {0}
      BY <1>0, <1>2, <2>1 DEF IsController
    <2>4. ~(bios_owned' /\ os_owned') /\ pc' = "search"
      BY <1>3 DEF BeginExtended, StartInv, OwnerInv
    <2> QED
      BY <2>2, <2>3, <2>4 DEF OwnerInv
  <1>4. CASE FindLegsup
    <2>0. pc = "search" /\ bios_owned' = bios_owned /\ ~(bios_owned /\ os_owned)
      BY <1>4 DEF FindLegsup, StartInv, OwnerInv
    <2>1. PICK V \in SUBSET DOMAIN controller.extended : Searched(V)
      BY <2>0 DEF StartInv, OwnerInv
    <2>2. ext \in DOMAIN controller.extended \cup {0}
      BY <2>0 DEF StartInv, OwnerInv
    <2>3. CASE ext = 0
      <3>1. pc' = "stop"
        BY <1>4, <2>3 DEF FindLegsup
      <3>2. controller.xecp \in V \cup {0}
        BY <2>1, <2>3 DEF Searched
      <3>3. \A a \in V : controller.extended[a].id # 1
        BY <2>1 DEF Searched
      <3>4. \A a \in V : \/ controller.extended[a].next = 0
                         \/ a + controller.extended[a].next \in V
        <4> SUFFICES ASSUME NEW a \in V, controller.extended[a].next # 0
                     PROVE  a + controller.extended[a].next \in V
          OBVIOUS
        <4>1. a \in Nat /\ controller.extended[a].next \in Nat
          BY <1>2, <2>1 DEF IsController
        <4>2. a + controller.extended[a].next # 0
          BY <4>1
        <4> QED
          BY <2>1, <2>3, <4>2 DEF Searched
      <3>5. ~HasLegsup
        BY <2>1, <3>2, <3>3, <3>4 DEF HasLegsup
      <3> QED
        BY <1>1, <3>1, <3>5 DEF OwnerInv
    <2>4. CASE ext # 0 /\ controller.extended[ext].id # 1
      <3>1. /\ pc' = "search" /\ os_owned' = os_owned
            /\ ext' = AddOrNull(ext, controller.extended[ext].next)
        BY <1>4, <2>0, <2>4 DEF FindLegsup
      <3>2. /\ controller.extended[ext].next = 0 => ext' = 0
            /\ controller.extended[ext].next # 0 => ext' = ext + controller.extended[ext].next
        BY <3>1 DEF AddOrNull
      <3>3. ext' \in DOMAIN controller'.extended \cup {0}
        BY <1>0, <1>2, <2>2, <2>4, <3>2 DEF IsController
      <3>w. PICK W : W = V \cup {ext}
        OBVIOUS
      <3>4. W \in SUBSET DOMAIN controller'.extended
        BY <1>0, <2>1, <2>2, <2>4, <3>w
      <3>5. Searched(W)'
        <4>1. controller.xecp \in W \cup {0, ext'}
          BY <2>1, <3>w DEF Searched
        <4>2. \A a \in V : /\ controller.extended[a].id # 1
                           /\ \/ controller.extended[a].next = 0
                              \/ a + controller.extended[a].next \in W \cup {ext'}
          BY <2>1, <3>w DEF Searched
        <4>3. /\ controller.extended[ext].id # 1
              /\ \/ controller.extended[ext].next = 0
                 \/ ext + controller.extended[ext].next \in W \cup {ext'}
          BY <2>4, <3>2
        <4> QED
          BY <1>0, <4>1, <4>2, <4>3, <3>w DEF Searched
      <3> QED
        BY <2>0, <3>1, <3>3, <3>4, <3>5 DEF OwnerInv
    <2>5. CASE ext # 0 /\ controller.extended[ext].id = 1
      <3>1. pc' = IF os_owned THEN "stop" ELSE "wait_owned"
        BY <1>4, <2>5 DEF FindLegsup
      <3> QED
        BY <2>0, <3>1 DEF OwnerInv
    <2> QED
      BY <2>3, <2>4, <2>5
  <1>5. CASE Wait
    <2>1. CASE pc = "wait_owned"
      BY <1>5, <2>1 DEF Wait, OsOwns, OwnerInv
    <2>2. CASE pc # "wait_owned"
      BY <1>0, <1>1, <1>5, <2>2 DEF Wait, StartInv, OwnerInv
    <2> QED
      BY <2>1, <2>2
  <1>6. CASE BiosRelease
    BY <1>0, <1>1, <1>6 DEF BiosRelease, StartInv, OwnerInv, Searched
  <1>7. CASE /\ UNCHANGED <<bios_owned, os_owned, ext>>
             /\ \/ pc' = pc \/ (pc = "devices" /\ pc' = "contexts")
                \/ (pc = "contexts" /\ pc' = "ownership") \/ (pc = "stop" /\ pc' = "wait_halted")
                \/ pc' \notin {"devices", "contexts", "ownership", "search", "stop",
                               "wait_halted", "reset"}
    BY <1>0, <1>1, <1>7 DEF StartInv, OwnerInv, Searched
  <1>8. CASE HcHalt \/ HcReset \/ HcReady \/ HcStart \/ AllocMore \/ UNCHANGED start_vars
    BY <1>7, <1>8 DEF HcHalt, HcReset, HcReady, HcStart, AllocMore, start_vars
  <1>9. CASE DevicesInitialize \/ RingsInitialize
    BY <1>7, <1>9 DEF DevicesInitialize, RingsInitialize, Allocate
  <1>10. CASE \/ Stop \/ Reset \/ Config \/ AllocScratchpadArray \/ AllocScratchpadBuffer
              \/ StoreScratchpadArray \/ WriteDcbaap \/ RegisterCommandRing
              \/ RegisterEventRing \/ EnableInterrupts \/ RunController
    BY <1>7, <1>10 DEF Stop, Reset, Config, AllocScratchpadArray, AllocScratchpadBuffer,
                       StoreScratchpadArray, WriteDcbaap, RegisterCommandRing,
                       RegisterEventRing, EnableInterrupts, RunController
  <1> QED
    BY <1>3, <1>4, <1>5, <1>6, <1>8, <1>9, <1>10 DEF StartNext, Driver, Hardware

\* A multiple of Line is one of TrbSize.
LEMMA LineOfTrbs ==
    ASSUME NEW p \in Nat, Line \in Nat, Line > 0, p % Line = 0
    PROVE  p % TrbSize = 0
  <1>0. TrbSize \in Nat /\ TrbSize > 0 /\ Line % TrbSize = 0
    BY TrbAssumption
  <1>1. PICK n \in Nat : p = n * Line
    BY ExactQuotient
  <1>2. PICK c \in Nat : Line = c * TrbSize
    BY <1>0, ExactQuotient
  <1>3. p = (n * c) * TrbSize /\ n * c \in Nat
    BY <1>0, <1>1, <1>2, MultipleOfMultiple
  <1> QED
    BY <1>0, <1>3, MultipleRemainder

\* A register drops no bit of a pointer into the pool that is aligned to Line.
LEMMA MaskedOwned ==
    ASSUME StartInv, NEW p, NEW r, r.alignment = Line, Owned(p, r)
    PROVE  Masked(p, Line) = p /\ Masked(p, TrbSize) = p /\ MaskedDcbaap(p) = p
  <1>1. Line \in Nat /\ Line > 0
    BY ResultPointer
  <1> DEFINE x == [addr |-> p, request |-> r]
  <1>2. x \in regions
    BY DEF Owned
  <1>3. x.addr \in Nat
    BY <1>2 DEF StartInv, PoolInv
  <1>4. x.request.alignment > 0 => x.addr % x.request.alignment = 0
    BY <1>2 DEF StartInv, PoolInv, ConstraintsKept
  <1>5. x.addr = p /\ x.request = r
    OBVIOUS
  <1> HIDE DEF x
  <1>6. p \in Nat /\ p % Line = 0
    BY <1>1, <1>3, <1>4, <1>5
  <1>7. Masked(p, Line) = p /\ Masked(p, TrbSize) = p
    BY <1>1, <1>6, LineOfTrbs DEF Masked
  <1>8. p < DcbaapLimit /\ DcbaapLimit \in Nat
    <2>1. x.addr < RegionEnd(x) /\ RegionEnd(x) \in Nat
      BY <1>2, RequestFields DEF StartInv, PoolInv, RegionEnd
    <2>2. RegionEnd(x) <= PoolBase + PoolSize
      BY <1>2 DEF StartInv, PoolInv, RegionsDisjoint
    <2> QED
      BY <1>5, <1>6, <2>1, <2>2, LinkAssumption, PoolAssumption
  <1>9. p % DcbaapLimit = p
    BY <1>6, <1>8
  <1> QED
    BY <1>7, <1>9 DEF MaskedDcbaap

\* After the reset the controller takes what is written, and nothing resets it again.
LEMMA NextRegistersInv ==
    ASSUME StartInv, [StartNext]_start_vars
    PROVE  RegistersInv'
  <1>0. StartTypeInv /\ BitsInv /\ RegistersInv /\ PointersInv
    BY DEF StartInv
  <1>w. ASSUME pc \in FromReset, NEW v, Write(v) PROVE registers' = v
    BY <1>0, <1>w DEF BitsInv, Write
  <1>1. CASE Hardware
    <2>1. CASE HcReset
      <3>1. pc = "wait_reset" /\ error = "none" /\ pc' = pc /\ error' = error
        BY <1>0, <2>1 DEF HcReset, BitsInv, StartTypeInv
      <3> QED
        BY <3>1 DEF RegistersInv, Reached
    <2>2. CASE HcHalt \/ HcReady \/ HcStart \/ BiosRelease
      <3>1. UNCHANGED <<registers, pointers, pc, error>>
        BY <2>2 DEF HcHalt, HcReady, HcStart, BiosRelease
      <3> QED
        BY <1>0, <3>1 DEF RegistersInv, Reached
    <2> QED
      BY <1>1, <2>1, <2>2 DEF Hardware
  <1>2. CASE DevicesInitialize
    <2>1. pc' \in {"contexts", "ownership", "run"} /\ error' # "Success"
      BY <1>0, <1>2 DEF DevicesInitialize, Allocate, StartTypeInv
    <2> QED
      BY <2>1 DEF RegistersInv, Reached
  <1>3. CASE RingsInitialize
    <2>1. error = "none" /\ error' # "Success" /\ registers' = registers
      BY <1>0, <1>3 DEF RingsInitialize, Allocate, StartTypeInv
    <2>2. \/ /\ pc = "command_ring" /\ pc' \in {"crcr", "run"}
             /\ pointers' = [pointers EXCEPT !.command_ring = Result(RingRequest)]
          \/ /\ pc = "event_ring" /\ pc' \in {"table", "run"}
             /\ pointers' = [pointers EXCEPT !.event_ring = Result(RingRequest)]
          \/ /\ pc = "table" /\ pc' \in {"erst", "run"}
             /\ pointers' = [pointers EXCEPT !.table = Result(TableRequest)]
      BY <1>3 DEF RingsInitialize, Allocate
    <2> QED
      BY <1>0, <2>1, <2>2 DEF RegistersInv, Reached, StartTypeInv
  <1>4. CASE Config
    <2>1. pc = "config" /\ error' = "none" /\ pc' \in {"scratchpad", "dcbaap"}
      BY <1>0, <1>4 DEF Config, StartTypeInv
    <2>2. registers' = [registers EXCEPT !.config = MaxSlots]
      BY <1>4, <1>w, <2>1 DEF Config
    <2> QED
      BY <1>0, <2>1, <2>2 DEF RegistersInv, Reached, StartTypeInv, RegisterFile
  <1>5. CASE WriteDcbaap
    <2>1. pc = "dcbaap" /\ error' = "none" /\ pc' = "command_ring" /\ pointers' = pointers
      BY <1>0, <1>5 DEF WriteDcbaap, StartTypeInv
    <2>2. MaskedDcbaap(pointers.contexts) = pointers.contexts
      BY <1>0, <2>1, MaskedOwned DEF PointersInv, Reached, ContextsRequest, Request
    <2>3. registers' = [registers EXCEPT !.dcbaap = pointers.contexts]
      BY <1>5, <1>w, <2>1, <2>2 DEF WriteDcbaap
    <2> QED
      BY <1>0, <2>1, <2>3 DEF RegistersInv, Reached, StartTypeInv, RegisterFile
  <1>6. CASE RegisterCommandRing
    <2>1. pc = "crcr" /\ error' = "none" /\ pc' = "event_ring" /\ pointers' = pointers
      BY <1>0, <1>6 DEF RegisterCommandRing, StartTypeInv
    <2>2. Masked(pointers.command_ring, Line) = pointers.command_ring
      BY <1>0, <2>1, MaskedOwned DEF PointersInv, Reached, RingRequest, Request
    <2>3. registers' = [registers EXCEPT !.crcr = pointers.command_ring]
      BY <1>6, <1>w, <2>1, <2>2 DEF RegisterCommandRing
    <2> QED
      BY <1>0, <2>1, <2>3 DEF RegistersInv, Reached, StartTypeInv, RegisterFile
  <1>7. CASE RegisterEventRing
    <2>1. pc = "erst" /\ error' = "none" /\ pc' = "enable" /\ pointers' = pointers
      BY <1>0, <1>7 DEF RegisterEventRing, StartTypeInv
    <2>2. /\ Masked(pointers.table, Line) = pointers.table
          /\ Masked(pointers.event_ring, TrbSize) = pointers.event_ring
      BY <1>0, <2>1, MaskedOwned
         DEF PointersInv, Reached, TableRequest, RingRequest, Request
    <2>3. registers' = [registers EXCEPT !.erstsz = 1, !.erdp = pointers.event_ring,
                                         !.erstba = pointers.table, !.iman = TRUE]
      BY <1>7, <1>w, <2>1, <2>2 DEF RegisterEventRing
    <2>4. /\ registers'.erstsz = 1 /\ registers'.iman /\ registers'.erdp = pointers.event_ring
          /\ registers'.erstba = pointers.table
          /\ registers'.config = registers.config /\ registers'.dcbaap = registers.dcbaap
          /\ registers'.crcr = registers.crcr
      BY <1>0, <2>3 DEF StartTypeInv, RegisterFile
    <2> QED
      BY <1>0, <2>1, <2>4 DEF RegistersInv, Reached
  <1>8. CASE EnableInterrupts
    <2>1. pc = "enable" /\ UNCHANGED <<registers, pointers>>
      BY <1>8 DEF EnableInterrupts
    <2> QED
      BY <1>0, <2>1 DEF RegistersInv, Reached
  <1>9. CASE AllocScratchpadArray \/ StoreScratchpadArray
    <2>1. /\ UNCHANGED <<registers, error>> /\ error = "none"
          /\ (pc = "scratchpad" /\ pc' = "buffers") \/ (pc = "buffers" /\ pc' = "dcbaap")
          /\ \E n \in {"scratchpad", "contexts_0"} : \E v : pointers' = [pointers EXCEPT ![n] = v]
      BY <1>0, <1>9 DEF AllocScratchpadArray, StoreScratchpadArray, StartTypeInv
    <2> QED
      BY <1>0, <2>1 DEF RegistersInv, Reached, StartTypeInv
  <1>10. CASE \/ Stop \/ Reset \/ Wait \/ BeginExtended \/ FindLegsup \/ RunController
              \/ AllocScratchpadBuffer \/ AllocMore \/ UNCHANGED start_vars
    <2>1. /\ UNCHANGED <<registers, pointers, error>>
          /\ pc' = pc \/ (pc' \notin FromConfig)
      BY <1>10 DEF Stop, Reset, Wait, BeginExtended, FindLegsup, RunController,
                   AllocScratchpadBuffer, AllocMore, start_vars
    <2> QED
      BY <1>0, <2>1 DEF RegistersInv, Reached
  <1> QED
    BY <1>1, <1>2, <1>3, <1>4, <1>5, <1>6, <1>7, <1>8, <1>9, <1>10 DEF StartNext, Driver

\* A region that AllocMem has returned is none of those handed out before.
LEMMA ResultNew ==
    ASSUME StartInv, NEW r \in Requests, AllocMem(r), Result(r) # 0
    PROVE  /\ [addr |-> Result(r), request |-> r] \in regions'
           /\ \A p, q : Owned(p, q) => p # Result(r)
  <1>1. /\ [addr |-> Result(r), request |-> r] \in regions'
        /\ \A x \in regions : RegionEnd(x) <= Result(r)
    BY AllocMemPoolInv DEF StartInv
  <1>2. ASSUME NEW p, NEW q, Owned(p, q) PROVE p # Result(r)
    <2> DEFINE x == [addr |-> p, request |-> q]
    <2>1. x \in regions /\ x.addr = p
      BY <1>2 DEF Owned
    <2> HIDE DEF x
    <2>2. x.addr \in Nat /\ x.request \in Requests
      BY <2>1 DEF StartInv, PoolInv
    <2>3. x.addr < RegionEnd(x) /\ RegionEnd(x) \in Nat
      BY <2>2, RequestFields DEF RegionEnd
    <2>4. RegionEnd(x) <= Result(r) /\ Result(r) \in Nat
      BY <1>1, <2>1, ResultPointer
    <2> QED
      BY <2>1, <2>2, <2>3, <2>4
  <1> QED
    BY <1>1, <1>2

\* Initialize goes on only with pointers that are not null, each to a region of its own.
LEMMA NextPointersInv ==
    ASSUME StartInv, [StartNext]_start_vars
    PROVE  PointersInv'
  <1>0. StartTypeInv /\ PointersInv /\ \A p, q : Owned(p, q) => [addr |-> p, request |-> q] \in regions'
    BY NextPoolInv DEF StartInv, Owned
  <1>1. CASE Allocate("devices", "devices", DevicesRequest, "contexts")
    <2>1. pc' \in {"contexts", "run"} /\ error' # "Success"
      BY <1>0, <1>1 DEF Allocate, StartTypeInv
    <2> QED
      BY <2>1 DEF PointersInv, Reached
  <1>2. CASE Allocate("contexts", "contexts", ContextsRequest, "ownership")
    <2>1. /\ pc' \in {"ownership", "run"} /\ error' # "Success"
          /\ pc' = "ownership" => Result(ContextsRequest) # 0
          /\ pointers'.contexts = Result(ContextsRequest)
      BY <1>0, <1>2 DEF Allocate, StartTypeInv
    <2>2. ContextsRequest \in Requests /\ AllocMem(ContextsRequest)
      BY <1>2, StartAssumption DEF Allocate
    <2>3. pc' = "ownership" => [addr |-> pointers'.contexts, request |-> ContextsRequest] \in regions'
      BY <2>1, <2>2, ResultNew
    <2>4. pc' = "ownership" => Owned(pointers.contexts, ContextsRequest)'
      BY <2>3 DEF Owned, ContextsRequest, Request
    <2> QED
      BY <2>1, <2>4 DEF PointersInv, Reached
  <1>3. CASE RingsInitialize
    <2>0. error = "none" /\ error' # "Success"
      BY <1>0, <1>3 DEF RingsInitialize, Allocate, StartTypeInv
    <2>1. CASE Allocate("command_ring", "command_ring", RingRequest, "crcr")
      <3>1. /\ pc = "command_ring" /\ pc' \in {"crcr", "run"}
            /\ pc' = "crcr" => Result(RingRequest) # 0
            /\ pointers'.command_ring = Result(RingRequest)
            /\ pointers'.contexts = pointers.contexts
        BY <1>0, <2>1 DEF Allocate, StartTypeInv
      <3>2. RingRequest \in Requests /\ AllocMem(RingRequest)
        BY <2>1, StartAssumption DEF Allocate
      <3>3. pc' = "crcr" => [addr |-> pointers'.command_ring, request |-> RingRequest] \in regions'
        BY <3>1, <3>2, ResultNew
      <3>4. Owned(pointers.contexts, ContextsRequest)
        BY <1>0, <3>1 DEF PointersInv, Reached
      <3>5. [addr |-> pointers'.contexts, request |-> ContextsRequest] \in regions'
        BY <1>0, <3>1, <3>4
      <3> QED
        BY <2>0, <3>1, <3>3, <3>5 DEF PointersInv, Reached, Owned, RingRequest, ContextsRequest, Request
    <2>2. CASE Allocate("event_ring", "event_ring", RingRequest, "table")
      <3>1. /\ pc = "event_ring" /\ pc' \in {"table", "run"}
            /\ pc' = "table" => Result(RingRequest) # 0
            /\ pointers'.event_ring = Result(RingRequest)
            /\ pointers'.contexts = pointers.contexts
            /\ pointers'.command_ring = pointers.command_ring
        BY <1>0, <2>2 DEF Allocate, StartTypeInv
      <3>2. RingRequest \in Requests /\ AllocMem(RingRequest)
        BY <2>2, StartAssumption DEF Allocate
      <3>3. Owned(pointers.contexts, ContextsRequest) /\ Owned(pointers.command_ring, RingRequest)
        BY <1>0, <3>1 DEF PointersInv, Reached
      <3>4. pc' = "table" => /\ [addr |-> pointers'.event_ring, request |-> RingRequest] \in regions'
                             /\ pointers'.event_ring # pointers'.command_ring
        BY <3>1, <3>2, <3>3, ResultNew
      <3>5. /\ [addr |-> pointers'.contexts, request |-> ContextsRequest] \in regions'
            /\ [addr |-> pointers'.command_ring, request |-> RingRequest] \in regions'
        BY <1>0, <3>1, <3>3
      <3> QED
        BY <2>0, <3>1, <3>4, <3>5 DEF PointersInv, Reached, Owned, RingRequest, ContextsRequest, Request
    <2>3. CASE Allocate("table", "table", TableRequest, "erst")
      <3>1. /\ pc = "table" /\ pc' \in {"erst", "run"}
            /\ pc' = "erst" => Result(TableRequest) # 0
            /\ pointers'.table = Result(TableRequest)
            /\ pointers'.contexts = pointers.contexts
            /\ pointers'.command_ring = pointers.command_ring
            /\ pointers'.event_ring = pointers.event_ring
        BY <1>0, <2>3 DEF Allocate, StartTypeInv
      <3>2. TableRequest \in Requests /\ AllocMem(TableRequest)
        BY <2>3, StartAssumption DEF Allocate
      <3>3. pc' = "erst" => [addr |-> pointers'.table, request |-> TableRequest] \in regions'
        BY <3>1, <3>2, ResultNew
      <3>4. /\ Owned(pointers.contexts, ContextsRequest) /\ Owned(pointers.command_ring, RingRequest)
            /\ Owned(pointers.event_ring, RingRequest)
            /\ pointers.event_ring # pointers.command_ring
        BY <1>0, <3>1 DEF PointersInv, Reached
      <3>5. /\ [addr |-> pointers'.contexts, request |-> ContextsRequest] \in regions'
            /\ [addr |-> pointers'.command_ring, request |-> RingRequest] \in regions'
            /\ [addr |-> pointers'.event_ring, request |-> RingRequest] \in regions'
        BY <1>0, <3>1, <3>4
      <3> QED
        BY <2>0, <3>1, <3>3, <3>4, <3>5
           DEF PointersInv, Reached, Owned, RingRequest, ContextsRequest, TableRequest, Request
    <2> QED
      BY <1>3, <2>1, <2>2, <2>3 DEF RingsInitialize
  <1>4. ASSUME /\ pointers'.contexts = pointers.contexts
               /\ pointers'.command_ring = pointers.command_ring
               /\ pointers'.event_ring = pointers.event_ring /\ pointers'.table = pointers.table,
               /\ Reached(FromContexts)' => Reached(FromContexts)
               /\ Reached(FromCommandRing)' => Reached(FromCommandRing)
               /\ Reached(FromEventRing)' => Reached(FromEventRing)
               /\ Reached(FromTable)' => Reached(FromTable)
        PROVE  PointersInv'
    <2> HIDE DEF FromErst, FromTable, FromEventRing, FromCrcr, FromCommandRing, FromContexts
    <2>1. /\ ContextsRequest' = ContextsRequest /\ RingRequest' = RingRequest
          /\ TableRequest' = TableRequest
      BY DEF ContextsRequest, RingRequest, TableRequest, Request
    <2>2. /\ Owned(pointers.contexts, ContextsRequest) => Owned(pointers.contexts, ContextsRequest)'
          /\ Owned(pointers.command_ring, RingRequest) => Owned(pointers.command_ring, RingRequest)'
          /\ Owned(pointers.event_ring, RingRequest) => Owned(pointers.event_ring, RingRequest)'
          /\ Owned(pointers.table, TableRequest) => Owned(pointers.table, TableRequest)'
      BY <1>0, <1>4, <2>1 DEF Owned
    <2> QED
      BY <1>0, <1>4, <2>2 DEF PointersInv
  <1>5. CASE AllocScratchpadArray \/ StoreScratchpadArray
    <2>1. /\ error' = error
          /\ (pc = "scratchpad" /\ pc' = "buffers") \/ (pc = "buffers" /\ pc' = "dcbaap")
          /\ \E n \in {"scratchpad", "contexts_0"} : \E v : pointers' = [pointers EXCEPT ![n] = v]
      BY <1>5 DEF AllocScratchpadArray, StoreScratchpadArray
    <2>2. /\ pointers'.contexts = pointers.contexts
          /\ pointers'.command_ring = pointers.command_ring
          /\ pointers'.event_ring = pointers.event_ring /\ pointers'.table = pointers.table
      BY <1>0, <2>1 DEF StartTypeInv
    <2> QED
      BY <1>4, <2>1, <2>2 DEF Reached
  <1>6. CASE \/ Hardware \/ Stop \/ Reset \/ Wait \/ BeginExtended \/ FindLegsup \/ Config
             \/ AllocScratchpadBuffer \/ WriteDcbaap \/ RegisterCommandRing
             \/ RegisterEventRing \/ EnableInterrupts \/ RunController \/ AllocMore
             \/ UNCHANGED start_vars
    <2>1. /\ pointers' = pointers
          /\ error' = error \/ pc = "enable"
          /\ \/ pc' = pc
             \/ pc \in FromContexts \ FromCommandRing /\ pc' \notin FromCommandRing
             \/ pc = "crcr" /\ pc' = "event_ring"
             \/ pc = "erst" /\ pc' = "enable"
             \/ pc \in {"enable"} \cup Final /\ pc' \in Final
      BY <1>6 DEF Hardware, HcHalt, HcReset, HcReady, HcStart, BiosRelease, Stop, Reset, Wait,
                  BeginExtended, FindLegsup, Config, AllocScratchpadBuffer, WriteDcbaap,
                  RegisterCommandRing, RegisterEventRing, EnableInterrupts, RunController,
                  AllocMore, start_vars
    <2> QED
      BY <1>4, <2>1 DEF Reached
  <1> QED
    BY <1>1, <1>2, <1>3, <1>5, <1>6 DEF StartNext, Driver, DevicesInitialize

\* The entries of the array that are not null are pages of their own.
BuffersOwned ==
    \A k \in DOMAIN scratchpad_buf_arr :
        scratchpad_buf_arr[k] # 0 =>
            /\ Owned(scratchpad_buf_arr[k], PageRequest)
            /\ \A m \in DOMAIN scratchpad_buf_arr :
                  scratchpad_buf_arr[k] = scratchpad_buf_arr[m] => k = m

\* A buffer that is appended is a page that was not handed out before.
LEMMA NextBuffersOwned ==
    ASSUME StartInv, [StartNext]_start_vars
    PROVE  BuffersOwned'
  <1>0. /\ StartTypeInv /\ BuffersOwned
        /\ \A p, q : Owned(p, q) => [addr |-> p, request |-> q] \in regions'
    BY NextPoolInv DEF StartInv, Owned, ScratchpadInv, BuffersOwned
  <1>p. PageRequest' = PageRequest
    BY DEF PageRequest, Request
  <1>1. CASE AllocScratchpadBuffer
    <2>1. /\ AllocMem(PageRequest) /\ PageRequest \in Requests
          /\ scratchpad_buf_arr' = Append(scratchpad_buf_arr, Result(PageRequest))
      BY <1>1, StartAssumption DEF AllocScratchpadBuffer
    <2> DEFINE n == Len(scratchpad_buf_arr)
               new == Result(PageRequest)
    <2>2. /\ n \in Nat /\ DOMAIN scratchpad_buf_arr = 1..n
          /\ DOMAIN scratchpad_buf_arr' = 1..(n + 1)
          /\ \A k \in 1..n : scratchpad_buf_arr'[k] = scratchpad_buf_arr[k]
          /\ scratchpad_buf_arr'[n + 1] = new
      BY <1>0, <2>1, ResultPointer DEF StartTypeInv
    <2> HIDE DEF n
    <2>3. new # 0 => /\ [addr |-> new, request |-> PageRequest] \in regions'
                     /\ \A p, q : Owned(p, q) => p # new
      BY <2>1, ResultNew
    <2> HIDE DEF new
    <2>4. \A k \in 1..n : /\ scratchpad_buf_arr[k] # 0 =>
                                 [addr |-> scratchpad_buf_arr[k], request |-> PageRequest] \in regions'
                          /\ scratchpad_buf_arr[k] # 0 /\ new # 0 => scratchpad_buf_arr[k] # new
      BY <1>0, <2>2, <2>3 DEF BuffersOwned
    <2> SUFFICES ASSUME NEW k \in 1..(n + 1), scratchpad_buf_arr'[k] # 0
                 PROVE  /\ [addr |-> scratchpad_buf_arr'[k], request |-> PageRequest] \in regions'
                        /\ \A m \in 1..(n + 1) :
                              scratchpad_buf_arr'[k] = scratchpad_buf_arr'[m] => k = m
      BY <1>p, <2>2 DEF BuffersOwned, Owned
    <2>5. k \in 1..n \/ k = n + 1
      BY <2>2
    <2>6. [addr |-> scratchpad_buf_arr'[k], request |-> PageRequest] \in regions'
      BY <2>2, <2>3, <2>4, <2>5
    <2>7. ASSUME NEW m \in 1..(n + 1), scratchpad_buf_arr'[k] = scratchpad_buf_arr'[m]
          PROVE  k = m
      <3>1. m \in 1..n \/ m = n + 1
        BY <2>2
      <3>2. CASE k \in 1..n /\ m \in 1..n
        BY <1>0, <2>2, <2>7, <3>2 DEF BuffersOwned
      <3> QED
        BY <2>2, <2>4, <2>5, <2>7, <3>1, <3>2
    <2> QED
      BY <2>6, <2>7
  <1>2. CASE UNCHANGED scratchpad_buf_arr
    <2>1. \A k \in DOMAIN scratchpad_buf_arr :
             Owned(scratchpad_buf_arr[k], PageRequest) => Owned(scratchpad_buf_arr[k], PageRequest)'
      BY <1>0, <1>2, <1>p DEF Owned
    <2> QED
      BY <1>0, <1>2, <2>1 DEF BuffersOwned
  <1> QED
    BY <1>1, <1>2
       DEF StartNext, Driver, Hardware, HcHalt, HcReset, HcReady, HcStart, BiosRelease,
           DevicesInitialize, RingsInitialize, Allocate, BeginExtended, FindLegsup, Stop,
           Reset, Wait, Config, AllocScratchpadArray, StoreScratchpadArray, WriteDcbaap,
           RegisterCommandRing, RegisterEventRing, EnableInterrupts, RunController, AllocMore,
           start_vars

\* The array is complete when Initialize goes on, whether or not it is null.
LEMMA NextScratchpadInv ==
    ASSUME StartInv, [StartNext]_start_vars
    PROVE  ScratchpadInv'
  <1> DEFINE n == controller.scratchpads
             Early == {"devices", "contexts", "config", "scratchpad"}
                      \cup (FromContexts \ FromReset)
             Own == [addr |-> pointers.scratchpad, request |-> ScratchpadRequest(n)] \in regions
  <1>0. StartTypeInv /\ ScratchpadInv /\ BuffersOwned'
    BY NextBuffersOwned DEF StartInv
  <1>1. controller' = controller
    BY DEF StartNext, Driver, Hardware, HcHalt, HcReset, HcReady, HcStart, BiosRelease,
           DevicesInitialize, RingsInitialize, Allocate, BeginExtended, FindLegsup, Stop,
           Reset, Wait, Config, AllocScratchpadArray, AllocScratchpadBuffer,
           StoreScratchpadArray, WriteDcbaap, RegisterCommandRing, RegisterEventRing,
           EnableInterrupts, RunController, AllocMore, start_vars
  <1>2. n \in Nat /\ ScratchpadRequest(n)' = ScratchpadRequest(n) /\ (Own /\ UNCHANGED pointers => Own')
    BY <1>0, <1>1, ControllersAssumption, NextPoolInv
       DEF IsController, StartTypeInv, ScratchpadRequest, Request
  <1>3. SUFFICES /\ pc' \in Early => scratchpad_buf_arr' = <<>>
                 /\ pc' \in {"scratchpad", "buffers"} => n > 0
                 /\ Reached(FromArray)' /\ n > 0 => pointers'.scratchpad = 0 \/ Own'
                 /\ Reached(FromScratchpad)' =>
                       /\ Len(scratchpad_buf_arr') = n
                       /\ n > 0 => pointers'.contexts_0 = pointers'.scratchpad
    BY <1>0, <1>1, <1>2 DEF ScratchpadInv, BuffersOwned, Owned
  <1>4. /\ pc \in Early => scratchpad_buf_arr = <<>>
        /\ pc \in {"scratchpad", "buffers"} => n > 0
        /\ Reached(FromArray) /\ n > 0 => pointers.scratchpad = 0 \/ Own
        /\ Reached(FromScratchpad) =>
              /\ Len(scratchpad_buf_arr) = n
              /\ n > 0 => pointers.contexts_0 = pointers.scratchpad
    BY <1>0 DEF ScratchpadInv, Owned
  <1> HIDE DEF n
  <1>5. CASE Config
    <2>1. /\ pc = "config" /\ pc' = (IF n > 0 THEN "scratchpad" ELSE "dcbaap")
          /\ scratchpad_buf_arr' = <<>> /\ error' = "none"
      BY <1>0, <1>4, <1>5 DEF Config, StartTypeInv, n
    <2> QED
      BY <1>2, <2>1 DEF Reached
  <1>6. CASE AllocScratchpadArray
    <2>1. /\ pc = "scratchpad" /\ pc' = "buffers" /\ error' = "none"
          /\ pointers'.scratchpad = Result(ScratchpadRequest(n))
          /\ AllocMem(ScratchpadRequest(n))
      BY <1>0, <1>6 DEF AllocScratchpadArray, StartTypeInv, n
    <2>2. n > 0 /\ ScratchpadRequest(n) \in Requests
      BY <1>0, <1>4, <2>1, StartAssumption DEF StartTypeInv, n
    <2>3. pointers'.scratchpad = 0 \/ Own'
      BY <1>2, <2>1, <2>2, ResultNew
    <2> QED
      BY <2>1, <2>2, <2>3 DEF Reached
  <1>7. CASE AllocScratchpadBuffer
    <2>1. pc = "buffers" /\ pc' = "buffers" /\ error' = error /\ error = "none" /\ pointers' = pointers
      BY <1>0, <1>7 DEF AllocScratchpadBuffer, StartTypeInv
    <2> QED
      BY <1>2, <1>4, <2>1 DEF Reached
  <1>8. CASE StoreScratchpadArray
    <2>1. /\ pc = "buffers" /\ pc' = "dcbaap" /\ error' = "none"
          /\ Len(scratchpad_buf_arr) = n /\ scratchpad_buf_arr' = scratchpad_buf_arr
          /\ pointers'.contexts_0 = pointers.scratchpad
          /\ pointers'.scratchpad = pointers.scratchpad
          /\ regions' = regions
      BY <1>0, <1>8 DEF StoreScratchpadArray, StartTypeInv, n
    <2>2. Own' = Own
      BY <1>2, <2>1
    <2> QED
      BY <1>4, <2>1, <2>2 DEF Reached
  <1>9. CASE DevicesInitialize
    <2>1. /\ pc \in Early /\ scratchpad_buf_arr' = scratchpad_buf_arr
          /\ pc' \in {"contexts", "ownership", "run"} /\ error' # "Success"
      BY <1>0, <1>9 DEF DevicesInitialize, Allocate, StartTypeInv
    <2> QED
      BY <1>4, <2>1 DEF Reached
  <1>10. CASE RingsInitialize
    <2>1. /\ pc \in {"command_ring", "event_ring", "table"}
          /\ pc' \in {"crcr", "table", "erst", "run"} /\ error' # "Success"
          /\ pointers'.scratchpad = pointers.scratchpad
          /\ pointers'.contexts_0 = pointers.contexts_0
          /\ scratchpad_buf_arr' = scratchpad_buf_arr
      BY <1>0, <1>10 DEF RingsInitialize, Allocate, StartTypeInv
    <2>2. Own => Own'
      BY <1>2, <2>1, NextPoolInv
    <2> QED
      BY <1>4, <2>1, <2>2 DEF Reached
  <1>11. CASE \/ Hardware \/ Stop \/ Reset \/ Wait \/ BeginExtended \/ FindLegsup
              \/ WriteDcbaap \/ RegisterCommandRing \/ RegisterEventRing \/ EnableInterrupts
              \/ RunController \/ AllocMore \/ UNCHANGED start_vars
    <2>1. /\ pointers' = pointers /\ scratchpad_buf_arr' = scratchpad_buf_arr
          /\ error' = error \/ pc = "enable"
          /\ \/ pc' = pc
             \/ pc \in Early /\ pc' \in Early \ {"scratchpad"}
             \/ pc \in FromScratchpad /\ pc' \in FromScratchpad \cup Final
             \/ pc \in Final /\ pc' \in Final
      BY <1>11 DEF Hardware, HcHalt, HcReset, HcReady, HcStart, BiosRelease, Stop, Reset, Wait,
                   BeginExtended, FindLegsup, WriteDcbaap, RegisterCommandRing,
                   RegisterEventRing, EnableInterrupts, RunController, AllocMore, start_vars
    <2> QED
      BY <1>2, <1>4, <2>1 DEF Reached
  <1> QED
    BY <1>5, <1>6, <1>7, <1>8, <1>9, <1>10, <1>11 DEF StartNext, Driver

\* What is appended or kept as null has not fitted, and there is not more room later.
LEMMA NextNullInv ==
    ASSUME StartInv, [StartNext]_start_vars
    PROVE  NullInv'
  <1> DEFINE n == controller.scratchpads
  <1>0. StartTypeInv /\ ScratchpadInv /\ NullInv /\ PoolInv
    BY DEF StartInv
  <1>1. n \in Nat /\ Page \in Nat /\ PoolBase + PoolSize \in Nat
    <2>1. PageRequest \in Requests /\ PageRequest.size = Page
      BY StartAssumption DEF PageRequest, Request
    <2> QED
      BY <1>0, <2>1, ControllersAssumption, RequestFields, PoolAssumption
         DEF IsController, StartTypeInv
  <1>2. alloc_ptr \in Nat /\ alloc_ptr' \in Nat /\ alloc_ptr <= alloc_ptr'
    BY <1>0, PoolStep, AllocMemSpent DEF PoolInv
  <1>3. \A size \in Nat : Spent(size) => PoolBase + PoolSize < alloc_ptr' + size
    BY <1>1, <1>2 DEF Spent
  <1>4. controller' = controller
    BY DEF StartNext, Driver, Hardware, HcHalt, HcReset, HcReady, HcStart, BiosRelease,
           DevicesInitialize, RingsInitialize, Allocate, BeginExtended, FindLegsup, Stop,
           Reset, Wait, Config, AllocScratchpadArray, AllocScratchpadBuffer,
           StoreScratchpadArray, WriteDcbaap, RegisterCommandRing, RegisterEventRing,
           EnableInterrupts, RunController, AllocMore, start_vars
  <1>5. SUFFICES
          /\ Reached(FromArray)' /\ n > 0 /\ pointers'.scratchpad = 0 =>
                PoolBase + PoolSize < alloc_ptr' + n
          /\ \A k \in DOMAIN scratchpad_buf_arr' :
                scratchpad_buf_arr'[k] = 0 => PoolBase + PoolSize < alloc_ptr' + Page
    BY <1>4 DEF NullInv, Spent
  <1>6. /\ Reached(FromArray) /\ n > 0 /\ pointers.scratchpad = 0 =>
              PoolBase + PoolSize < alloc_ptr' + n
        /\ \A k \in DOMAIN scratchpad_buf_arr :
              scratchpad_buf_arr[k] = 0 => PoolBase + PoolSize < alloc_ptr' + Page
    BY <1>0, <1>1, <1>3 DEF NullInv
  <1>7. CASE AllocScratchpadArray
    <2>1. /\ pc = "scratchpad" /\ pointers'.scratchpad = Result(ScratchpadRequest(n))
          /\ AllocMem(ScratchpadRequest(n)) /\ scratchpad_buf_arr' = scratchpad_buf_arr
      BY <1>0, <1>7 DEF AllocScratchpadArray, StartTypeInv
    <2>2. ScratchpadRequest(n) \in Requests /\ ScratchpadRequest(n).size = n
      BY <1>0, <2>1, StartAssumption
         DEF StartTypeInv, ScratchpadInv, ScratchpadRequest, Request
    <2>3. pointers'.scratchpad = 0 => PoolBase + PoolSize < alloc_ptr' + n
      BY <1>0, <2>1, <2>2, AllocMemSpent
    <2> QED
      BY <1>6, <2>1, <2>3
  <1>8. CASE AllocScratchpadBuffer
    <2>1. /\ AllocMem(PageRequest) /\ PageRequest \in Requests /\ PageRequest.size = Page
          /\ scratchpad_buf_arr' = Append(scratchpad_buf_arr, Result(PageRequest))
          /\ UNCHANGED <<pc, pointers, error>>
      BY <1>8, StartAssumption DEF AllocScratchpadBuffer, PageRequest, Request
    <2>2. Result(PageRequest) = 0 => PoolBase + PoolSize < alloc_ptr' + Page
      BY <1>0, <2>1, AllocMemSpent
    <2>3. \A k \in DOMAIN scratchpad_buf_arr' :
             \/ scratchpad_buf_arr'[k] = Result(PageRequest)
             \/ k \in DOMAIN scratchpad_buf_arr /\ scratchpad_buf_arr'[k] = scratchpad_buf_arr[k]
      BY <1>0, <2>1, ResultPointer DEF StartTypeInv
    <2> QED
      BY <1>6, <2>1, <2>2, <2>3 DEF Reached
  <1>9. CASE Config
    <2>1. /\ pc' = (IF n > 0 THEN "scratchpad" ELSE "dcbaap") /\ error' # "Success"
          /\ scratchpad_buf_arr' = scratchpad_buf_arr
      BY <1>0, <1>9 DEF Config, StartTypeInv
    <2> QED
      BY <1>1, <1>6, <2>1 DEF Reached
  <1>10. CASE DevicesInitialize
    <2>1. /\ pc' \in {"contexts", "ownership", "run"} /\ error' # "Success"
          /\ scratchpad_buf_arr' = scratchpad_buf_arr
      BY <1>0, <1>10 DEF DevicesInitialize, Allocate, StartTypeInv
    <2> QED
      BY <1>6, <2>1 DEF Reached
  <1>11. CASE RingsInitialize \/ StoreScratchpadArray
    <2>1. /\ pc \in {"command_ring", "event_ring", "table", "buffers"}
          /\ pointers'.scratchpad = pointers.scratchpad
          /\ scratchpad_buf_arr' = scratchpad_buf_arr
      BY <1>0, <1>11 DEF RingsInitialize, Allocate, StoreScratchpadArray, StartTypeInv
    <2> QED
      BY <1>6, <2>1 DEF Reached
  <1>12. CASE \/ Hardware \/ Stop \/ Reset \/ Wait \/ BeginExtended \/ FindLegsup
              \/ WriteDcbaap \/ RegisterCommandRing \/ RegisterEventRing \/ EnableInterrupts
              \/ RunController \/ AllocMore \/ UNCHANGED start_vars
    <2>1. /\ pointers' = pointers /\ scratchpad_buf_arr' = scratchpad_buf_arr
          /\ \/ pc' = pc /\ error' = error
             \/ pc' \notin FromArray /\ error' = error
             \/ pc \in FromArray
      BY <1>12 DEF Hardware, HcHalt, HcReset, HcReady, HcStart, BiosRelease, Stop, Reset, Wait,
                   BeginExtended, FindLegsup, WriteDcbaap, RegisterCommandRing,
                   RegisterEventRing, EnableInterrupts, RunController, AllocMore, start_vars
    <2> QED
      BY <1>6, <2>1 DEF Reached
  <1> QED
    BY <1>7, <1>8, <1>9, <1>10, <1>11, <1>12 DEF StartNext, Driver

-----------------------------------------------------------------------------
(* The theorems                                                            *)

\* Before Initialize the pool is untouched and the firmware has left the controller in
\* one of the states that it may.
LEMMA InitStartInv == StartInit => StartInv
  <1> SUFFICES ASSUME StartInit PROVE StartInv
    OBVIOUS
  <1>1. PoolInv
    BY PoolAssumption DEF StartInit, Init, PoolInv, ConstraintsKept, RegionsDisjoint
  <1>2. pc = "devices" /\ error = "none" /\ controller \in Controllers
    BY DEF StartInit
  <1>3. registers \in RegisterFile
    <2>1. Defaults \in RegisterFile
      BY DEF Defaults, RegisterFile
    <2>2. MaxSlots + 1 \in Int
      BY SizesAssumption
    <2>3. [Defaults EXCEPT !.config = MaxSlots + 1] \in RegisterFile
      BY <2>1, <2>2, RegisterWritten
    <2> QED
      BY <2>3 DEF StartInit
  <1>4. /\ usbcmd \in [run_stop : BOOLEAN, reset : BOOLEAN, interrupts : BOOLEAN]
        /\ usbsts \in [halted : BOOLEAN, not_ready : BOOLEAN]
        /\ ~usbcmd.reset /\ ~usbsts.not_ready /\ ~(usbcmd.run_stop /\ usbsts.halted)
    BY DEF StartInit
  <1>5. pointers \in [devices : Nat, contexts : Nat, contexts_0 : Nat, scratchpad : Nat,
                      command_ring : Nat, event_ring : Nat, table : Nat]
    BY DEF StartInit
  <1>6. /\ bios_owned \in BOOLEAN /\ os_owned \in BOOLEAN /\ ~(bios_owned /\ os_owned)
        /\ scratchpad_buf_arr = <<>>
    BY DEF StartInit
  <1>7. StartTypeInv
    BY <1>2, <1>3, <1>4, <1>5, <1>6 DEF StartTypeInv
  <1>8. BitsInv /\ OwnerInv
    BY <1>2, <1>4, <1>6 DEF BitsInv, OwnerInv
  <1>9. RegistersInv /\ PointersInv
    BY <1>2 DEF RegistersInv, PointersInv, Reached
  <1>10. ScratchpadInv /\ NullInv
    BY <1>2, <1>6 DEF ScratchpadInv, NullInv, Reached
  <1> QED
    BY <1>1, <1>7, <1>8, <1>9, <1>10 DEF StartInv

\* The invariant of the start holds whatever the controller, the firmware and the pool do.
THEOREM StartInvariance == StartSpec => []StartInv
  <1>1. StartInv /\ [StartNext]_start_vars => StartInv'
    <2> SUFFICES ASSUME StartInv, [StartNext]_start_vars PROVE StartInv'
      OBVIOUS
    <2> QED
      BY NextPoolInv, NextStartTypeInv, NextBitsInv, NextOwnerInv, NextRegistersInv,
         NextPointersInv, NextScratchpadInv, NextNullInv DEF StartInv
  <1> QED
    BY InitStartInv, <1>1, PTL DEF StartSpec

\* Every region that AllocMem returns has the alignment that was asked for and, if it is
\* no larger than the boundary, does not cross one, for any requests with powers of two.
THEOREM PoolConstraints == StartSpec => []ConstraintsKept
  <1>1. StartInv => ConstraintsKept
    BY DEF StartInv, PoolInv
  <1> QED
    BY <1>1, StartInvariance, PTL

\* AllocMem hands no byte out twice and none outside the pool, failed calls included.
THEOREM PoolDisjoint == StartSpec => []RegionsDisjoint
  <1>1. StartInv => RegionsDisjoint
    BY DEF StartInv, PoolInv
  <1> QED
    BY <1>1, StartInvariance, PTL

\* Controller::Initialize resets the controller only when it is halted, and not while the
\* firmware owns it if its list of capabilities leads to USBLEGSUP.
THEOREM ResetIsSafe == StartSpec => ResetSafely
  <1>1. StartInv /\ [StartNext]_start_vars =>
            [~usbcmd.reset /\ usbcmd'.reset =>
                 usbsts.halted /\ (HasLegsup => ~bios_owned)]_start_vars
    <2> SUFFICES ASSUME StartInv, [StartNext]_start_vars, ~usbcmd.reset, usbcmd'.reset
                 PROVE  usbsts.halted /\ (HasLegsup => ~bios_owned)
      OBVIOUS
    <2>0. usbcmd \in [run_stop : BOOLEAN, reset : BOOLEAN, interrupts : BOOLEAN]
      BY DEF StartInv, StartTypeInv
    <2>1. CASE Reset
      BY <2>1 DEF Reset, StartInv, BitsInv, OwnerInv
    <2>2. CASE ~Reset
      <3>1. CASE HcReset
        BY <3>1 DEF HcReset
      <3>2. CASE Stop
        BY <2>0, <3>2 DEF Stop
      <3>3. CASE EnableInterrupts
        BY <2>0, <3>3 DEF EnableInterrupts
      <3>4. CASE RunController
        BY <2>0, <3>4 DEF RunController
      <3>5. CASE UNCHANGED usbcmd
        BY <3>5
      <3> QED
        BY <2>2, <3>1, <3>2, <3>3, <3>4, <3>5
           DEF StartNext, Driver, Hardware, HcHalt, HcReady, HcStart, BiosRelease,
               DevicesInitialize, RingsInitialize, Allocate, BeginExtended, FindLegsup, Wait,
               Config, AllocScratchpadArray, AllocScratchpadBuffer, StoreScratchpadArray,
               WriteDcbaap, RegisterCommandRing, RegisterEventRing, AllocMore, start_vars
    <2> QED
      BY <2>1, <2>2
  <1> QED
    BY <1>1, StartInvariance, PTL DEF StartSpec, ResetSafely

\* A controller that is started after a successful Initialize has all its registers, and
\* each points to memory of its own that is not handed out a second time, for every pool
\* below the limit of DCBAAP; a scratchpad pointer is null only if the pool is exhausted.
THEOREM ControllerProgrammed == StartSpec => []ProgrammedBeforeRun
  <1>1. StartInv => ProgrammedBeforeRun
    <2> SUFFICES ASSUME StartInv, usbcmd.run_stop, error = "Success"
                 PROVE
                    /\ registers.config = MaxSlots /\ registers.erstsz = 1 /\ registers.iman
                    /\ usbcmd.interrupts
                    /\ Owned(registers.dcbaap, ContextsRequest)
                    /\ Owned(registers.crcr, RingRequest) /\ Owned(registers.erdp, RingRequest)
                    /\ registers.crcr # registers.erdp
                    /\ Owned(registers.erstba, TableRequest)
                    /\ controller.scratchpads > 0 =>
                          \/ Owned(pointers.contexts_0, ScratchpadRequest(controller.scratchpads))
                          \/ pointers.contexts_0 = 0 /\ Spent(controller.scratchpads)
                    /\ Len(scratchpad_buf_arr) = controller.scratchpads
                    /\ \A k \in DOMAIN scratchpad_buf_arr :
                          \/ scratchpad_buf_arr[k] = 0 /\ Spent(Page)
                          \/ /\ Owned(scratchpad_buf_arr[k], PageRequest)
                             /\ \A m \in DOMAIN scratchpad_buf_arr :
                                   scratchpad_buf_arr[k] = scratchpad_buf_arr[m] => k = m
      BY DEF ProgrammedBeforeRun
    <2>1. /\ registers.config = MaxSlots /\ registers.dcbaap = pointers.contexts
          /\ registers.crcr = pointers.command_ring /\ registers.erstsz = 1 /\ registers.iman
          /\ registers.erdp = pointers.event_ring /\ registers.erstba = pointers.table
      BY DEF StartInv, RegistersInv, Reached
    <2>2. /\ Owned(pointers.contexts, ContextsRequest)
          /\ Owned(pointers.command_ring, RingRequest) /\ Owned(pointers.event_ring, RingRequest)
          /\ pointers.event_ring # pointers.command_ring
          /\ Owned(pointers.table, TableRequest)
      BY DEF StartInv, PointersInv, Reached
    <2>3. usbcmd.interrupts
      BY DEF StartInv, BitsInv
    <2>4. /\ controller.scratchpads > 0 =>
                \/ Owned(pointers.contexts_0, ScratchpadRequest(controller.scratchpads))
                \/ pointers.contexts_0 = 0 /\ Spent(controller.scratchpads)
          /\ Len(scratchpad_buf_arr) = controller.scratchpads
      BY DEF StartInv, ScratchpadInv, NullInv, Reached
    <2>5. ASSUME NEW k \in DOMAIN scratchpad_buf_arr
          PROVE  \/ scratchpad_buf_arr[k] = 0 /\ Spent(Page)
                 \/ /\ Owned(scratchpad_buf_arr[k], PageRequest)
                    /\ \A m \in DOMAIN scratchpad_buf_arr :
                          scratchpad_buf_arr[k] = scratchpad_buf_arr[m] => k = m
      BY DEF StartInv, ScratchpadInv, NullInv
    <2> QED
      BY <2>1, <2>2, <2>3, <2>4, <2>5
  <1> QED
    BY <1>1, StartInvariance, PTL

=============================================================================
