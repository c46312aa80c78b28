------------------------------- MODULE UsbPool -------------------------------
(***************************************************************************)
(* The memory pool of the USB driver (kernel/usb/memory.cpp).  FreeMem does *)
(* nothing, so what AllocMem hands out is handed out for good.             *)
(***************************************************************************)
EXTENDS Integers

CONSTANTS
    PoolBase,   \* the address of memory_pool
    PoolSize,   \* kMemoryPoolSize
    Requests    \* the arguments of AllocMem: size, alignment and boundary

PowersOfTwo == {2^k : k \in 0..16}

\* alignment and boundary are 0 or a power of two at every call; the sums below stay
\* far from the width of uintptr_t.
ASSUME RequestAssumption ==
    Requests \subseteq [size : Nat \ {0}, alignment : {0} \cup PowersOfTwo,
                        boundary : {0} \cup PowersOfTwo]

ASSUME PoolAssumption == PoolBase \in Nat \ {0} /\ PoolSize \in Nat

VARIABLES
    alloc_ptr,
    regions      \* what AllocMem returned, each with the request it answers

vars == <<alloc_ptr, regions>>

Init == alloc_ptr = PoolBase /\ regions = {}

-----------------------------------------------------------------------------

\* The next multiple of alignment, a power of two: (value + alignment - 1) & ~(alignment - 1).
Ceil(value, alignment) == ((value + alignment - 1) \div alignment) * alignment

Aligned(ptr, r) == IF r.alignment > 0 THEN Ceil(ptr, r.alignment) ELSE ptr

\* Mutant: the last byte of the region is forgotten.
CrossesTooLate(ptr, r) == Ceil(ptr, r.boundary) < ptr + r.size - 1

Crosses(ptr, r) == Ceil(ptr, r.boundary) < ptr + r.size

\* Where the region for request r begins.
Placed(ptr, r) ==
    LET aligned == Aligned(ptr, r)
    IN IF r.boundary > 0 /\ Crosses(aligned, r)
       THEN Ceil(aligned, r.boundary)
       ELSE aligned

\* Mutant: only the beginning of the region must be in the pool.
ExhaustedLate(ptr, r) == PoolBase + PoolSize < ptr

Exhausted(ptr, r) == PoolBase + PoolSize < ptr + r.size

\* nullptr is returned; the pointer has moved to the place that was tried.
AllocMemFails(r) ==
    LET p == Placed(alloc_ptr, r)
    IN /\ Exhausted(p, r)
       /\ alloc_ptr' = p
       /\ UNCHANGED regions

\* Mutant: the pointer advances from where it was before the placement.
AdvancedFromOld(p, r) == alloc_ptr + r.size

Advanced(p, r) == p + r.size

AllocMemSucceeds(r) ==
    LET p == Placed(alloc_ptr, r)
    IN /\ ~Exhausted(p, r)
       /\ alloc_ptr' = Advanced(p, r)
       /\ regions' = regions \cup {[addr |-> p, request |-> r]}

AllocMem(r) == AllocMemFails(r) \/ AllocMemSucceeds(r)

Next == \E r \in Requests : AllocMem(r)

Spec == Init /\ [][Next]_vars

-----------------------------------------------------------------------------
(* Properties.                                                             *)

RegionEnd(x) == x.addr + x.request.size

\* memory.hpp: the region begins at a multiple of alignment and, if size <= boundary,
\* does not cross a multiple of boundary, however the two constraints combine.
ConstraintsKept ==
    \A x \in regions :
        /\ x.request.alignment > 0 => x.addr % x.request.alignment = 0
        /\ x.request.boundary > 0 /\ x.request.size <= x.request.boundary =>
              x.addr \div x.request.boundary = (RegionEnd(x) - 1) \div x.request.boundary

\* Every region lies in the pool, and no byte of it belongs to two, although a call that
\* fails moves alloc_ptr too, perhaps beyond the end (AllocMem).
RegionsDisjoint ==
    /\ \A x \in regions : PoolBase <= x.addr /\ RegionEnd(x) <= PoolBase + PoolSize
    /\ \A x, y \in regions : x = y \/ RegionEnd(x) <= y.addr \/ RegionEnd(y) <= x.addr
=============================================================================
