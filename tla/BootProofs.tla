------------------------------ MODULE BootProofs ------------------------------
(***************************************************************************)
(* From the boot loader to the kernel's frame allocator, for every amount  *)
(* of memory, every use that the firmware makes of it and every kernel:    *)
(* the image is complete when the kernel is entered, the kernel gets the   *)
(* memory map as it is, and the allocator never hands out what the loader  *)
(* has written.                                                            *)
(***************************************************************************)
EXTENDS Boot, FiniteSetTheorems, WellFoundedInduction, TLAPS

-----------------------------------------------------------------------------
(***************************************************************************)
(* The frame allocator by itself, for every sorted memory map, number of   *)
(* frames and sequence of calls.  Its invariants need two strengthenings:  *)
(* what the loop over the memory map has established for the descriptors   *)
(* behind it (MapInv), and what the loops of allocate know about the       *)
(* frames they have passed (ScanInv).                                      *)
(***************************************************************************)

\* While the memory map is walked no available frame is marked, every frame below
\* available_end that is not marked is available, and the descriptors to come start
\* at available_end or later.
MapInv ==
    pc = "initialize" =>
        /\ blocks = {}
        /\ alloc_map \cap Available = {}
        /\ Run(0, available_end) \ alloc_map \subseteq Available
        /\ \A j \in 1..(next_desc - 1) :
              is_available(memory_map[j].type) => End(memory_map[j]) <= available_end
        /\ \A j \in next_desc..Len(memory_map) : available_end <= memory_map[j].start

\* The run that allocate is growing is free and inside the range, and no run that
\* starts before it is.
ScanInv ==
    Allocating =>
        /\ num_frames > 0 /\ range_begin <= start
        /\ pc = "allocate_heap" => num_frames = HeapFrames
        /\ Run(start, start + i) \cap alloc_map = {}
        /\ \A f \in Run(start, start + i) : f < range_end
        /\ \A s \in Run(range_begin, start) : ~Fits(s, num_frames)

\* The range starts behind frame 0 and covers all available memory.
RangeInv ==
    pc # "initialize" => range_begin = 1 /\ Available \ {0} \subseteq Run(range_begin, range_end)

IInv == TypeOK /\ MapInv /\ RangeInv /\ ScanInv /\ BlocksSound /\ FramesAccounted /\ HeapOwned

USE SizeAssumption DEF firmware, initializing, range, scan, heap

\* Descriptors of a memory map have natural numbers as bounds.
LEMMA DescriptorTypes ==
    ASSUME NEW m, IsMemoryMap(m), NEW j \in 1..Len(m)
    PROVE  /\ m[j].start \in Nat /\ m[j].pages \in Nat
           /\ End(m[j]) \in Nat /\ m[j].start <= End(m[j]) /\ End(m[j]) <= FrameCount
<1>1. m[j] \in Descriptors
  BY DEF IsMemoryMap
<1>2. m[j].start \in Nat /\ m[j].pages \in Nat
  BY <1>1 DEF Descriptors
<1>3. End(m[j]) <= FrameCount
  BY DEF IsMemoryMap
<1> QED
  BY <1>2, <1>3 DEF End

\* Membership in a run of frames.
LEMMA RunMember ==
    ASSUME NEW a \in Int, NEW b \in Int, NEW f
    PROVE  f \in Run(a, b) <=> f \in Int /\ a <= f /\ f < b
  BY DEF Run

\* A memory map has a length.
LEMMA MapLength == ASSUME NEW m, IsMemoryMap(m) PROVE Len(m) \in Nat
  BY DEF IsMemoryMap

\* The numbers of a state.
LEMMA Numbers ==
    ASSUME TypeOK
    PROVE  /\ next_desc \in Nat /\ available_end \in Nat
           /\ range_begin \in Nat /\ range_end \in Nat /\ range_end <= FrameCount
           /\ num_frames \in Nat /\ start \in Nat /\ i \in Nat /\ i <= num_frames
           /\ program_break \in Nat /\ program_break_end \in Nat
           /\ FrameCount \in Nat
<1>1. IsMemoryMap(memory_map)
  BY DEF TypeOK
<1>2. Len(memory_map) \in Nat
  BY <1>1, MapLength
<1> QED
  BY <1>2 DEF TypeOK

\* Before initialize_memory_manager no bit is set and no block is known.
LEMMA ManagerIInv == IsMemoryMap(memory_map) /\ InitManager => IInv
<1> SUFFICES ASSUME IsMemoryMap(memory_map), InitManager PROVE IInv
  OBVIOUS
<1>1. TypeOK
  <2>1. Len(memory_map) \in Nat
    BY MapLength
  <2> QED
    BY <2>1 DEF InitManager, TypeOK, Frames, Blocks
<1>2. MapInv
  <2>1. \A j \in 1..Len(memory_map) : 0 <= memory_map[j].start
    <3> SUFFICES ASSUME NEW j \in 1..Len(memory_map) PROVE 0 <= memory_map[j].start
      OBVIOUS
    <3>1. memory_map[j].start \in Nat
      BY <1>1, DescriptorTypes DEF TypeOK
    <3> QED
      BY <3>1
  <2> QED
    BY <2>1 DEF InitManager, MapInv, Run
<1> QED
  BY <1>1, <1>2 DEF InitManager, IInv, RangeInv, ScanInv, Allocating, BlocksSound, FramesAccounted,
     HeapOwned

\* So it is with any memory map that the firmware may hand over.
LEMMA InitIInv == Init => IInv
  BY MapAssumption, ManagerIInv DEF Init

\* One descriptor: the gap in front of it and, if it is not available, the
\* descriptor itself are marked; neither meets an available frame.
LEMMA InitializeDescriptorIInv == IInv /\ InitializeDescriptor => IInv'
<1> SUFFICES ASSUME IInv, InitializeDescriptor PROVE IInv'
  OBVIOUS
<1> USE DEF IInv, InitializeDescriptor
<1> DEFINE d == memory_map[next_desc]
<1>0. IsMemoryMap(memory_map) /\ Len(memory_map) \in Nat
  <2>1. IsMemoryMap(memory_map)
    BY DEF TypeOK
  <2> QED
    BY <2>1, MapLength
<1>1. /\ d.start \in Nat /\ d.pages \in Nat
      /\ End(d) \in Nat /\ d.start <= End(d) /\ End(d) <= FrameCount
  BY <1>0, DescriptorTypes DEF TypeOK
<1>2. available_end <= d.start
  BY <1>0 DEF MapInv, TypeOK
<1>3. MarkedBy(d) =
          (IF is_available(d.type) THEN {} ELSE Run(d.start, End(d))) \cup Run(available_end, d.start)
  BY DEF MarkedBy, mark_allocated
<1>4. TypeOK'
  <2>1. alloc_map' \subseteq Frames
    <3>1. Run(d.start, End(d)) \subseteq Frames /\ Run(available_end, d.start) \subseteq Frames
      BY SMTT(30), <1>1 DEF TypeOK, Run, Frames
    <3> QED
      BY <1>3, <3>1 DEF TypeOK
  <2>2. available_end' \in 0..FrameCount /\ next_desc' \in 1..(Len(memory_map) + 1)
    BY <1>0, <1>1 DEF TypeOK
  <2>3. IsMemoryMap(memory_map')
    BY <1>0
  <2> QED
    BY <2>1, <2>2, <2>3 DEF TypeOK
<1>5. Available' = Available
  BY DEF Available
<1>6. MarkedBy(d) \cap Available = {}
  <2> SUFFICES ASSUME NEW f \in MarkedBy(d), f \in Available PROVE FALSE
    OBVIOUS
  <2>1. PICK j \in 1..Len(memory_map) :
            is_available(memory_map[j].type) /\ f \in Run(memory_map[j].start, End(memory_map[j]))
    BY DEF Available
  <2>2. /\ memory_map[j].start \in Nat /\ memory_map[j].pages \in Nat /\ End(memory_map[j]) \in Nat
    BY <1>0, DescriptorTypes
  <2>3. CASE j < next_desc
    <3>1. End(memory_map[j]) <= available_end
      BY <1>0, <2>1, <2>3 DEF MapInv, TypeOK
    <3>2. f < available_end
      BY <2>1, <2>2, <3>1 DEF TypeOK, Run
    <3> QED
      BY <1>1, <1>2, <1>3, <3>2 DEF TypeOK, Run
  <2>4. CASE j = next_desc
    BY <1>1, <1>3, <2>1, <2>4 DEF TypeOK, Run
  <2>5. CASE next_desc < j
    <3>1. End(d) <= memory_map[j].start
      BY <1>0, <2>5 DEF IsMemoryMap, TypeOK
    <3> QED
      BY SMTT(30), <1>1, <1>3, <2>1, <2>2, <3>1 DEF TypeOK, Run
  <2> QED
    BY <1>0, <2>3, <2>4, <2>5 DEF TypeOK
<1>7. Run(0, available_end') \ alloc_map' \subseteq Available
  <2> SUFFICES ASSUME NEW f \in Run(0, available_end'), f \notin alloc_map' PROVE f \in Available
    OBVIOUS
  <2>1. CASE f < available_end
    BY <2>1, <1>1 DEF MapInv, TypeOK, Run
  <2>2. CASE ~(f < available_end)
    <3>1. is_available(d.type) /\ f \in Run(d.start, End(d))
      BY <1>1, <1>2, <1>3, <2>2 DEF TypeOK, Run
    <3> QED
      BY <1>0, <1>1, <3>1 DEF Available, TypeOK, Run, Frames
  <2> QED
    BY <2>1, <2>2
<1>8. \A j \in 1..(next_desc' - 1) :
          is_available(memory_map[j].type) => End(memory_map[j]) <= available_end'
  <2> SUFFICES ASSUME NEW j \in 1..next_desc, is_available(memory_map[j].type)
               PROVE  End(memory_map[j]) <= available_end'
    BY DEF TypeOK
  <2>1. CASE j = next_desc
    BY <2>1, <1>1
  <2>2. CASE j # next_desc
    <3>1. j \in 1..(next_desc - 1) /\ j \in 1..Len(memory_map)
      BY <1>0, <2>2 DEF TypeOK
    <3>2. End(memory_map[j]) <= available_end /\ End(memory_map[j]) \in Nat
      BY <1>0, <3>1, DescriptorTypes DEF MapInv
    <3> QED
      BY <1>1, <1>2, <3>2 DEF TypeOK
  <2> QED
    BY <2>1, <2>2
<1>9. \A j \in next_desc'..Len(memory_map) : available_end' <= memory_map[j].start
  <2>0. /\ next_desc' = next_desc + 1 /\ memory_map' = memory_map
        /\ available_end' = End(d) \/ available_end' = available_end
    OBVIOUS
  <2> SUFFICES ASSUME NEW j \in (next_desc + 1)..Len(memory_map)
               PROVE  available_end' <= memory_map[j].start
    BY <2>0
  <2>1. next_desc \in 1..Len(memory_map) /\ j \in 1..Len(memory_map) /\ next_desc < j
    BY <1>0 DEF TypeOK
  <2>2. End(d) <= memory_map[j].start
    BY <1>0, <2>1 DEF IsMemoryMap
  <2>3. available_end <= memory_map[j].start
    BY <1>0, <2>1 DEF MapInv, TypeOK
  <2> QED
    BY <2>0, <2>2, <2>3
<1>10. MapInv'
  BY <1>5, <1>6, <1>7, <1>8, <1>9 DEF MapInv
<1> QED
  BY <1>4, <1>10 DEF RangeInv, ScanInv, Allocating, BlocksSound, FramesAccounted, HeapOwned,
     MapInv

\* At the end of the memory map the bits below available_end tell exactly the
\* available frames, and no available frame is beyond.
LEMMA InitializeRangeIInv == IInv /\ InitializeRange => IInv'
<1> SUFFICES ASSUME IInv, InitializeRange PROVE IInv'
  OBVIOUS
<1>1. IsMemoryMap(memory_map) /\ available_end \in 0..FrameCount /\ next_desc \in Nat
  BY Numbers DEF IInv, TypeOK
<1>2. /\ alloc_map' = alloc_map /\ memory_map' = memory_map
      /\ pc' = "allocate_heap" /\ range_begin' = 1 /\ range_end' = available_end
      /\ num_frames' = HeapFrames /\ start' = 1 /\ i' = 0 /\ blocks' = {}
  BY DEF InitializeRange, IInv, MapInv
<1>3. Available' = Available
  BY <1>2 DEF Available
<1>4. TypeOK'
  <2>1. i' \in 0..num_frames' /\ num_frames' \in Nat /\ start' \in Nat
    BY <1>2
  <2>2. next_desc' = next_desc /\ available_end' = available_end /\ heap' = heap
    BY DEF InitializeRange
  <2> QED
    BY <1>1, <1>2, <2>1, <2>2 DEF IInv, TypeOK
<1>5. FramesAccounted' /\ RangeInv'
  <2> SUFFICES ASSUME NEW f \in Frames \ {0}
               PROVE  /\ (f \in Run(1, available_end) /\ f \notin alloc_map) <=> f \in Available
                      /\ f \in Available => f \in Run(1, available_end)
    BY <1>2, <1>3 DEF FramesAccounted, RangeInv, Held, Available
  <2>1. ASSUME f \in Available PROVE f \in Run(1, available_end) /\ f \notin alloc_map
    <3>1. PICK j \in 1..Len(memory_map) :
              is_available(memory_map[j].type) /\ f \in Run(memory_map[j].start, End(memory_map[j]))
      BY <2>1 DEF Available
    <3>2. Len(memory_map) \in Nat
      BY <1>1, MapLength
    <3>3. memory_map[j].start \in Nat /\ End(memory_map[j]) \in Nat
      BY <1>1, DescriptorTypes
    <3>4. j \in 1..(next_desc - 1)
      BY <1>1, <3>2 DEF InitializeRange
    <3>5. End(memory_map[j]) <= available_end
      BY <3>1, <3>4 DEF IInv, MapInv, InitializeRange
    <3>6. f < End(memory_map[j])
      BY <3>1, <3>3, RunMember
    <3>7. f \in Int /\ 1 <= f
      BY DEF Frames
    <3>8. f \in Run(1, available_end)
      BY <1>1, <3>3, <3>5, <3>6, <3>7, RunMember
    <3> QED
      BY <2>1, <3>8 DEF IInv, MapInv, InitializeRange
  <2>2. ASSUME f \in Run(1, available_end), f \notin alloc_map PROVE f \in Available
    <3>1. f \in Run(0, available_end)
      BY <1>1, <2>2, RunMember
    <3> QED
      BY <2>2, <3>1 DEF IInv, MapInv, InitializeRange
  <2> QED
    BY <2>1, <2>2
<1>6. ScanInv'
  <2>1. Run(start', start' + i') = {} /\ Run(range_begin', start') = {}
    BY <1>2 DEF Run
  <2> QED
    BY <1>2, <2>1 DEF ScanInv
<1>7. BlocksSound'
  BY <1>2 DEF BlocksSound
<1> QED
  BY <1>2, <1>4, <1>5, <1>6, <1>7 DEF IInv, MapInv, HeapOwned

\* What a step that leaves the blocks, the bits, the range and the heap alone preserves.
LEMMA QuietStep ==
    ASSUME IInv, pc # "initialize", pc' # "initialize",
           UNCHANGED <<memory_map, next_desc, available_end, alloc_map, range_begin, range_end,
                       blocks, program_break, program_break_end>>
    PROVE  MapInv' /\ RangeInv' /\ BlocksSound' /\ FramesAccounted'
<1>1. Available' = Available
  BY DEF Available
<1>2. BlocksSound'
  BY <1>1 DEF IInv, BlocksSound
<1>3. FramesAccounted'
  BY <1>1 DEF IInv, FramesAccounted, Held
<1> QED
  BY <1>1, <1>2, <1>3 DEF IInv, MapInv, RangeInv

\* A call of allocate starts its search at the beginning of the range.
LEMMA AllocateIInv == ASSUME NEW n \in Sizes PROVE IInv /\ Allocate(n) => IInv'
<1> SUFFICES ASSUME IInv, Allocate(n) PROVE IInv'
  OBVIOUS
<1> USE DEF IInv, Allocate
<1>1. TypeOK'
  BY DEF TypeOK
<1>2. ScanInv'
  BY DEF ScanInv, Allocating, Run, TypeOK
<1>3. HeapOwned'
  BY DEF HeapOwned
<1> QED
  BY <1>1, <1>2, <1>3, QuietStep

\* A search that reaches the end of the range leaves the bitmap alone.
LEMMA AllocateFailsIInv == IInv /\ AllocateFails => IInv'
<1> SUFFICES ASSUME IInv, AllocateFails PROVE IInv'
  OBVIOUS
<1> USE DEF IInv, AllocateFails, Allocating
<1>1. TypeOK'
  BY DEF TypeOK
<1>2. ScanInv'
  BY DEF ScanInv
<1>3. HeapOwned'
  BY DEF HeapOwned
<1> QED
  BY <1>1, <1>2, <1>3, QuietStep

\* A free frame extends the run of free frames that the search has seen.
LEMMA ScanFreeIInv == IInv /\ ScanFree => IInv'
<1> SUFFICES ASSUME IInv, ScanFree PROVE IInv'
  OBVIOUS
<1>0. /\ range_end \in Nat /\ num_frames \in Nat /\ start \in Nat /\ i \in Nat
      /\ i < num_frames /\ start + i < range_end
  BY Numbers DEF IInv, ScanFree, OutOfRange
<1>1. TypeOK'
  <2>1. i' \in 0..num_frames'
    BY <1>0 DEF ScanFree
  <2> QED
    BY <2>1 DEF TypeOK, IInv, ScanFree
<1>2. ScanInv'
  <2>1. ASSUME NEW f \in Run(start, start + i + 1) PROVE f \in Run(start, start + i) \/ f = start + i
    BY <1>0, <2>1, RunMember
  <2>2. \A s : Fits(s, num_frames)' <=> Fits(s, num_frames)
    BY DEF Fits, ScanFree
  <2>3. start' = start /\ start' + i' = start + i + 1
    BY <1>0 DEF ScanFree
  <2>4. /\ Run(start, start + i + 1) \cap alloc_map = {}
        /\ \A f \in Run(start, start + i + 1) : f < range_end
    BY <1>0, <2>1 DEF IInv, ScanFree, ScanInv, get_bit
  <2> QED
    BY <2>2, <2>3, <2>4 DEF IInv, ScanFree, ScanInv
<1>3. HeapOwned'
  BY DEF HeapOwned, IInv, ScanFree
<1>4. MapInv' /\ RangeInv' /\ BlocksSound' /\ FramesAccounted'
  BY QuietStep DEF ScanFree, Allocating
<1> QED
  BY <1>1, <1>2, <1>3, <1>4 DEF IInv

\* No run that starts at one of the frames jumped over is free: it would contain the
\* frame at which the scan stopped.
LEMMA ScanAllocatedIInv == IInv /\ ScanAllocated => IInv'
<1> SUFFICES ASSUME IInv, ScanAllocated PROVE IInv'
  OBVIOUS
<1>0. /\ range_begin \in Nat /\ num_frames \in Nat /\ start \in Nat /\ i \in Nat
      /\ i < num_frames /\ start' = start + i + 1 /\ i' = 0
  BY Numbers DEF IInv, ScanAllocated, Restart
<1>1. TypeOK'
  <2>1. start' \in Nat /\ i' \in 0..num_frames
    BY <1>0
  <2> QED
    BY <2>1 DEF TypeOK, IInv, ScanAllocated
<1>2. ScanInv'
  <2>1. \A s : Fits(s, num_frames)' <=> Fits(s, num_frames)
    BY DEF Fits, ScanAllocated
  <2>2. ASSUME NEW s \in Run(start, start + i + 1) PROVE ~Fits(s, num_frames)
    <3>1. s \in Int /\ start <= s /\ s < start + i + 1
      BY <1>0, RunMember
    <3>2. start + i \in Run(s, s + num_frames)
      BY <1>0, <3>1, RunMember
    <3> QED
      BY <3>2 DEF Fits, ScanAllocated, get_bit
  <2>3. ASSUME NEW s \in Run(range_begin, start') PROVE ~Fits(s, num_frames)'
    <3>1. s \in Run(range_begin, start) \/ s \in Run(start, start + i + 1)
      BY <1>0, <2>3, RunMember
    <3> QED
      BY <2>1, <2>2, <3>1 DEF ScanInv, IInv, ScanAllocated
  <2>4. Run(start', start' + i') = {}
    BY <1>0 DEF Run
  <2>5. range_begin <= start'
    BY <1>0 DEF ScanInv, IInv, ScanAllocated
  <2> QED
    BY <2>3, <2>4, <2>5 DEF ScanInv, IInv, ScanAllocated
<1>3. HeapOwned'
  BY DEF HeapOwned, IInv, ScanAllocated
<1>4. MapInv' /\ RangeInv' /\ BlocksSound' /\ FramesAccounted'
  BY QuietStep DEF ScanAllocated, Allocating
<1> QED
  BY <1>1, <1>2, <1>3, <1>4 DEF IInv

\* The block that allocate is about to return: its frames are free, hence available,
\* held by nobody and inside the bitmap.
LEMMA NewBlock ==
    ASSUME IInv, Allocating, i = num_frames
    PROVE  /\ Fits(start, num_frames)
           /\ \A f \in Run(start, start + num_frames) : f \in Available \ {0} /\ ~Held(f)
           /\ [start |-> start, pages |-> num_frames] \in Blocks
           /\ [start |-> start, pages |-> num_frames] \notin blocks
<1>0. /\ range_end \in Nat /\ range_end <= FrameCount /\ num_frames \in Nat /\ start \in Nat
      /\ FrameCount \in Nat /\ num_frames > 0
      /\ pc # "initialize" /\ range_begin = 1 /\ 1 <= start
  BY Numbers DEF IInv, Allocating, RangeInv, ScanInv
<1> DEFINE b == [start |-> start, pages |-> num_frames]
<1>1. /\ Run(start, start + num_frames) \cap alloc_map = {}
      /\ \A f \in Run(start, start + num_frames) : f < range_end
  BY DEF IInv, ScanInv
<1>2. start \in Run(start, start + num_frames)
  BY <1>0, RunMember
<1>3. start + num_frames <= range_end
  <2>1. start + num_frames - 1 \in Run(start, start + num_frames)
    BY <1>0, RunMember
  <2>2. start + num_frames - 1 < range_end
    BY <1>1, <2>1
  <2> QED
    BY <1>0, <2>2
<1>4. Fits(start, num_frames)
  BY <1>0, <1>1, <1>3 DEF Fits
<1>5. ASSUME NEW f \in Run(start, start + num_frames) PROVE f \in Available \ {0} /\ ~Held(f)
  <2>1. f \in Int /\ start <= f /\ f < range_end
    BY <1>0, <1>1, RunMember
  <2>2. f \in Frames \ {0}
    BY <1>0, <2>1 DEF Frames
  <2>3. f \in Run(range_begin, range_end) /\ f \notin alloc_map
    BY <1>0, <1>1, <2>1, RunMember
  <2> QED
    BY <1>0, <2>2, <2>3 DEF IInv, FramesAccounted
<1>6. b \in Blocks
  <2>1. start \in Frames
    BY <1>0, <1>3 DEF Frames
  <2> QED
    BY <1>0, <2>1 DEF Blocks
<1>7. b \notin blocks
  BY <1>2, <1>5 DEF Held, End
<1> QED
  BY <1>4, <1>5, <1>6, <1>7

\* A complete run is free, so marking it as a block makes no frame belong to two.
LEMMA AllocateSucceedsIInv == IInv /\ AllocateSucceeds => IInv'
<1> SUFFICES ASSUME IInv, AllocateSucceeds PROVE IInv'
  OBVIOUS
<1> DEFINE b == [start |-> start, pages |-> num_frames]
<1> DEFINE R == Run(start, start + num_frames)
<1>0. /\ num_frames \in Nat /\ start \in Nat /\ num_frames > 0
  BY Numbers DEF IInv, ScanInv, AllocateSucceeds
<1>1. /\ \A f \in R : f \in Available \ {0} /\ ~Held(f)
      /\ b \in Blocks
  BY NewBlock DEF AllocateSucceeds
<1>2. Run(b.start, End(b)) = R
  BY DEF End
<1>3. /\ alloc_map' = alloc_map \cup R /\ blocks' = blocks \cup {b} /\ pc' = "idle"
      /\ memory_map' = memory_map /\ UNCHANGED <<initializing, range, scan>>
      /\ pc # "initialize"
  BY DEF AllocateSucceeds, mark_allocated, Allocating
<1>4. Available' = Available
  BY <1>3 DEF Available
<1>5. TypeOK'
  <2>1. alloc_map' \subseteq Frames
    BY <1>1, <1>3 DEF IInv, TypeOK, Available
  <2>2. program_break' \in Nat /\ program_break_end' \in Nat
    <3>1. start * FrameBytes \in Nat /\ HeapFrames * FrameBytes \in Nat
      BY <1>0
    <3> QED
      BY <3>1, Numbers DEF IInv, AllocateSucceeds
  <2> QED
    BY <1>1, <1>3, <2>1, <2>2 DEF IInv, TypeOK
<1>6. BlocksSound'
  <2>1. ASSUME NEW c \in blocks' PROVE Run(c.start, End(c)) \subseteq Available \ {0}
    BY <1>1, <1>2, <1>3, <2>1 DEF IInv, BlocksSound
  <2>2. ASSUME NEW c \in blocks PROVE R \cap Run(c.start, End(c)) = {}
    BY <1>1, <2>2 DEF Held
  <2>3. ASSUME NEW c \in blocks', NEW e \in blocks', c # e
        PROVE  Run(c.start, End(c)) \cap Run(e.start, End(e)) = {}
    BY <1>2, <1>3, <2>2, <2>3 DEF IInv, BlocksSound
  <2> QED
    BY <1>4, <2>1, <2>3 DEF BlocksSound
<1>7. FramesAccounted'
  <2>1. ASSUME NEW f PROVE Held(f)' <=> Held(f) \/ f \in R
    BY <1>2, <1>3 DEF Held
  <2>2. ASSUME NEW f \in Frames \ {0}
        PROVE  (f \in Run(range_begin, range_end) /\ f \notin alloc_map')
                    <=> (f \in Available /\ ~Held(f)')
    BY <1>3, <2>1 DEF IInv, FramesAccounted
  <2> QED
    BY <1>3, <1>4, <2>2 DEF FramesAccounted
<1>8. HeapOwned'
  <2>1. CASE pc = "allocate_heap"
    <3>1. num_frames = HeapFrames
      BY <2>1 DEF IInv, ScanInv, Allocating
    <3>2. /\ program_break' = start * FrameBytes
          /\ program_break_end' = start * FrameBytes + HeapFrames * FrameBytes
      BY <2>1 DEF AllocateSucceeds
    <3>3. /\ End(b) * FrameBytes = start * FrameBytes + HeapFrames * FrameBytes
          /\ start * FrameBytes <= start * FrameBytes + HeapFrames * FrameBytes
      <4>1. (start + HeapFrames) * FrameBytes = start * FrameBytes + HeapFrames * FrameBytes
        BY <1>0
      <4>2. start * FrameBytes \in Nat /\ HeapFrames * FrameBytes \in Nat
        BY <1>0
      <4> QED
        BY <3>1, <4>1, <4>2 DEF End
    <3> QED
      BY <1>3, <3>1, <3>2, <3>3 DEF HeapOwned
  <2>2. CASE pc = "allocate"
    BY <1>3, <2>2 DEF HeapOwned, IInv, AllocateSucceeds
  <2> QED
    BY <2>1, <2>2 DEF AllocateSucceeds, Allocating
<1> QED
  BY <1>3, <1>4, <1>5, <1>6, <1>7, <1>8 DEF IInv, MapInv, RangeInv, ScanInv, Allocating

\* Freeing a block makes exactly its frames allocatable again: they are available, in
\* the range, and no other block has them.
LEMMA FreeIInv == ASSUME NEW b \in blocks PROVE IInv /\ Free(b) => IInv'
<1> SUFFICES ASSUME IInv, Free(b) PROVE IInv'
  OBVIOUS
<1> DEFINE R == Run(b.start, End(b))
<1>1. /\ alloc_map' = alloc_map \ R /\ blocks' = blocks \ {b} /\ pc = "idle" /\ pc' = "idle"
      /\ memory_map' = memory_map /\ UNCHANGED <<initializing, range, scan, heap>>
  BY DEF Free
<1>2. Available' = Available
  BY <1>1 DEF Available
<1>3. TypeOK'
  BY <1>1 DEF IInv, TypeOK
<1>4. BlocksSound'
  BY <1>1, <1>2 DEF IInv, BlocksSound
<1>5. FramesAccounted'
  <2>1. ASSUME NEW f PROVE Held(f)' <=> Held(f) /\ f \notin R
    <3>1. ASSUME NEW c \in blocks, c # b, f \in Run(c.start, End(c)) PROVE f \notin R
      BY <3>1 DEF IInv, BlocksSound
    <3> QED
      BY <1>1, <3>1 DEF Held
  <2>2. ASSUME NEW f \in R PROVE f \in Available \ {0} /\ Held(f)
    BY <2>2 DEF IInv, BlocksSound, Held
  <2>3. ASSUME NEW f \in Available \ {0} PROVE f \in Run(range_begin, range_end)
    BY <1>1 DEF IInv, RangeInv
  <2>4. ASSUME NEW f \in Frames \ {0}
        PROVE  (f \in Run(range_begin, range_end) /\ f \notin alloc_map')
                    <=> (f \in Available /\ ~Held(f)')
    <3>1. CASE f \in R
      BY <1>1, <2>1, <2>2, <2>3, <3>1
    <3>2. CASE f \notin R
      BY <1>1, <2>1, <3>2 DEF IInv, FramesAccounted
    <3> QED
      BY <3>1, <3>2
  <2> QED
    BY <1>1, <1>2, <2>4 DEF FramesAccounted
<1>6. HeapOwned'
  BY <1>1 DEF HeapOwned, IInv, Free, IsHeap
<1> QED
  BY <1>1, <1>2, <1>3, <1>4, <1>5, <1>6 DEF IInv, MapInv, RangeInv, ScanInv, Allocating

\* The break stays between the ends of the heap block.
LEMMA SbrkIInv == ASSUME NEW incr \in Increments PROVE IInv /\ Sbrk(incr) => IInv'
<1> SUFFICES ASSUME IInv, Sbrk(incr) PROVE IInv'
  OBVIOUS
<1>1. /\ pc = "idle" /\ pc' = "idle"
      /\ UNCHANGED <<firmware, initializing, alloc_map, range, scan, blocks, program_break_end>>
  BY DEF Sbrk
<1>2. incr \in Int /\ program_break \in Nat /\ program_break_end \in Nat
  BY Numbers DEF IInv
<1>3. PICK b \in blocks :
          /\ b.pages = HeapFrames
          /\ b.start * FrameBytes <= program_break
          /\ program_break <= End(b) * FrameBytes
          /\ program_break_end = End(b) * FrameBytes
  BY <1>1 DEF IInv, HeapOwned
<1>4. b.start \in Nat
  BY DEF IInv, TypeOK, Blocks, Frames
<1>5. End(b) * FrameBytes = b.start * FrameBytes + HeapFrames * FrameBytes
  BY <1>3, <1>4 DEF End
<1>6. b.start * FrameBytes \in Nat /\ HeapFrames * FrameBytes \in Nat
  BY <1>4
<1>7. \/ program_break' = program_break
      \/ /\ program_break' = program_break + incr
         /\ program_break + incr < program_break_end
         /\ b.start * FrameBytes <= program_break + incr
  BY <1>2, <1>3, <1>5, <1>6 DEF Sbrk, SbrkRefuses
<1>8. /\ program_break' \in Nat
      /\ b.start * FrameBytes <= program_break' /\ program_break' <= End(b) * FrameBytes
  BY <1>2, <1>3, <1>5, <1>6, <1>7
<1>9. TypeOK'
  BY <1>1, <1>8 DEF IInv, TypeOK
<1>10. HeapOwned'
  BY <1>1, <1>3, <1>8 DEF HeapOwned
<1>11. Available' = Available
  BY <1>1 DEF Available
<1>12. BlocksSound' /\ FramesAccounted'
  BY <1>1, <1>11 DEF IInv, BlocksSound, FramesAccounted, Held
<1> QED
  BY <1>1, <1>9, <1>10, <1>11, <1>12 DEF IInv, MapInv, RangeInv, ScanInv, Allocating

\* A stuttering step changes none of the parts.
LEMMA StutterIInv == IInv /\ UNCHANGED vars => IInv'
<1> SUFFICES ASSUME IInv, UNCHANGED vars PROVE IInv'
  OBVIOUS
<1> USE DEF vars
<1>1. Available' = Available
  BY DEF Available
<1>2. TypeOK'
  BY DEF IInv, TypeOK
<1>3. MapInv' /\ RangeInv'
  BY <1>1 DEF IInv, MapInv, RangeInv
<1>4. ScanInv'
  BY DEF IInv, ScanInv, Allocating, Fits
<1>5. BlocksSound' /\ FramesAccounted' /\ HeapOwned'
  BY <1>1 DEF IInv, BlocksSound, FramesAccounted, HeapOwned, Held
<1> QED
  BY <1>2, <1>3, <1>4, <1>5 DEF IInv

\* IInv is inductive.
LEMMA NextIInv == IInv /\ [Next]_vars => IInv'
  BY InitializeDescriptorIInv, InitializeRangeIInv, AllocateIInv, AllocateFailsIInv,
     ScanFreeIInv, ScanAllocatedIInv, AllocateSucceedsIInv, FreeIInv, SbrkIInv, StutterIInv
  DEF Next

\* IInv is an invariant of the specification.
THEOREM Invariance == Spec => []IInv
  BY InitIInv, NextIInv, PTL DEF Spec

\* For every sorted memory map within the bitmap: no index of the bitmap is out of
\* range, in initialize_memory_manager, allocate and free.
THEOREM TypeCorrect == Spec => []TypeOK
  BY Invariance, PTL DEF IInv

\* For every sorted memory map and every sequence of calls, allocate hands out only
\* available memory and never the same frame twice.
THEOREM Soundness == Spec => []BlocksSound
  BY Invariance, PTL DEF IInv

\* For every sorted memory map and every sequence of calls, a usable frame is
\* allocatable exactly when nobody holds it.
THEOREM Accounting == Spec => []FramesAccounted
  BY Invariance, PTL DEF IInv

\* The heap that sbrk serves from stays inside the block that initialize_heap got.
THEOREM HeapOwnership == Spec => []HeapOwned
  BY Invariance, PTL DEF IInv

\* The end of a call of allocate: the scan has passed over every run that starts before
\* the one it has, and none of them fits.
LEMMA FirstFitStep ==
    ASSUME IInv, Next, Allocating, pc' # pc
    PROVE  IF blocks' = blocks
           THEN \A s \in Run(range_begin, range_end) : ~Fits(s, num_frames)
           ELSE /\ blocks' = blocks \cup {[start |-> start, pages |-> num_frames]}
                /\ Fits(start, num_frames)
                /\ \A s \in Run(range_begin, start) : ~Fits(s, num_frames)
  <1>1. AllocateFails \/ AllocateSucceeds
    BY DEF Next, Allocating, InitializeDescriptor, InitializeRange, Allocate, ScanFree,
           ScanAllocated, Free, Sbrk
  <1>2. CASE AllocateFails
    <2>1. /\ blocks' = blocks /\ i < num_frames /\ range_end <= start + i
      BY <1>2 DEF AllocateFails, OutOfRange
    <2>2. /\ range_begin \in Nat /\ range_end \in Nat /\ num_frames \in Nat
          /\ start \in Nat /\ i \in Nat
      BY Numbers DEF IInv
    <2>3. ASSUME NEW s \in Run(range_begin, range_end) PROVE ~Fits(s, num_frames)
      <3>1. s \in Int /\ range_begin <= s
        BY <2>2, RunMember
      <3>2. CASE s < start
        <4>1. s \in Run(range_begin, start)
          BY <2>2, <3>1, <3>2, RunMember
        <4> QED
          BY <4>1 DEF IInv, ScanInv
      <3>3. CASE ~(s < start)
        BY <2>1, <2>2, <3>1, <3>3 DEF Fits
      <3> QED
        BY <3>2, <3>3
    <2> QED
      BY <2>1, <2>3
  <1>3. CASE AllocateSucceeds
    <2>1. /\ blocks' = blocks \cup {[start |-> start, pages |-> num_frames]}
          /\ i = num_frames
      BY <1>3 DEF AllocateSucceeds
    <2>2. /\ Fits(start, num_frames)
          /\ [start |-> start, pages |-> num_frames] \notin blocks
      BY <2>1, NewBlock
    <2> QED
      BY <2>1, <2>2 DEF IInv, ScanInv
  <1> QED
    BY <1>1, <1>2, <1>3

\* allocate finds the lowest free run, and fails only if there is none.
THEOREM FirstFitAllocation == Spec => FirstFit
<1> DEFINE Step ==
        Allocating /\ pc' # pc =>
          IF blocks' = blocks
          THEN \A s \in Run(range_begin, range_end) : ~Fits(s, num_frames)
          ELSE /\ blocks' = blocks \cup {[start |-> start, pages |-> num_frames]}
               /\ Fits(start, num_frames)
               /\ \A s \in Run(range_begin, start) : ~Fits(s, num_frames)
<1>1. IInv /\ [Next]_vars => [Step]_vars
  <2> SUFFICES ASSUME IInv, Next, Allocating, pc' # pc PROVE Step
    BY DEF vars
  <2> QED
    BY FirstFitStep
<1>2. QED
  BY <1>1, Invariance, PTL DEF Spec, FirstFit

-----------------------------------------------------------------------------
(* The loader and the allocator: the inductive invariant.                   *)

\* The calls between AllocatePages and the kernel, and those behind CopyLoadSegments
Loading == {"copy", "free_pool", "exit_memory_map", "exit_boot_services", "read_entry", "entered"}
Copied == Loading \ {"copy"}

LoaderTypes ==
    /\ layout \in [Frames -> MemoryTypes \cup {Hole}]
    /\ kernel \in Kernels
    /\ pool \subseteq Frames
    /\ phdr \in 1..(Len(kernel) + 1)
    /\ memory \in [Bytes -> Int]

\* Segment s of the file is in memory.
SegmentLoaded(s) ==
    \A n \in 0..(s.memsz - 1) : memory[s.vaddr + n] = IF n < s.filesz THEN s.offset + n ELSE Zero

CopyInv ==
    /\ loader_pc = "copy" => phdr <= Len(kernel)
    /\ loader_pc \in Copied => phdr = Len(kernel) + 1
    /\ loader_pc \in Loading =>
          \A m \in 1..(phdr - 1) : kernel[m].load => SegmentLoaded(kernel[m])
    /\ loader_pc \notin Loading \cup {"halted"} =>
          phdr = 1 /\ \A a \in Bytes : memory[a] = Other

\* The pages of the kernel are allocated, and not those of kernel_buffer, which the
\* firmware may take back before the kernel is entered.
PagesInv ==
    /\ \A f \in pool : layout[f] = "EfiLoaderData"
    /\ loader_pc \in Loading =>
          /\ kernel_first_addr % FrameBytes = 0
          /\ KernelFrames \subseteq Frames \ pool
          /\ \A f \in KernelFrames : layout[f] = "EfiLoaderData"
    /\ \A a \in Bytes : memory[a] # Other =>
          /\ layout[a \div FrameBytes] = "EfiLoaderData"
          /\ loader_pc \in Loading => a \div FrameBytes \in KernelFrames

\* A valid map key stands for a map that is up to date.
MapKeyInv ==
    /\ key_current => memmap = DescribedBy(layout)
    /\ loader_pc \in {"read_entry", "entered"} => key_current
    /\ loader_pc = "entered" => memory_map = memmap
    /\ loader_pc # "entered" => memory_map = <<>> /\ InitManager

BootInv == LoaderTypes /\ CopyInv /\ PagesInv /\ MapKeyInv /\ IInv

USE SizeAssumption

-----------------------------------------------------------------------------
(* The memory map that the firmware makes of its layout.                     *)

\* A set of natural numbers that is not empty has a least member.
LEMMA LeastNumber ==
    ASSUME NEW T \in SUBSET Nat, T # {}
    PROVE  \E m \in T : \A x \in T : m <= x
  <1> DEFINE R == OpToRel(<, Nat)
  <1>1. IsWellFoundedOn(R, Nat)
    BY NatLessThanWellFounded
  <1>2. \E m \in T : \A x \in T : <<x, m>> \notin R
    <2> HIDE DEF R
    <2> QED
      BY <1>1, WFMin
  <1>3. \A x, m \in Nat : <<x, m>> \notin R => m <= x
    BY DEF OpToRel
  <1> QED
    BY <1>2, <1>3

\* How many members of S have a number up to that of r
Rank(S, At, r) == Cardinality({t \in S : At[t] <= At[r]})

\* If the members of a finite set have distinct numbers, there is for every j up to their
\* number one that is the j-th in the order of the numbers.
LEMMA EveryRank ==
    ASSUME NEW S, IsFiniteSet(S), NEW At \in [S -> Nat],
           \A r, t \in S : At[r] = At[t] => r = t
    PROVE  /\ Cardinality(S) \in Nat
           /\ \A r \in S : Rank(S, At, r) \in Nat
           /\ \A j \in 1..Cardinality(S) : \E r \in S : Rank(S, At, r) = j
           /\ \A r, t \in S : Rank(S, At, r) < Rank(S, At, t) => At[r] < At[t]
  <1> DEFINE Below(r) == {t \in S : At[t] <= At[r]}
             n == Cardinality(S)
             Missing == {j \in 1..n : \A r \in S : Cardinality(Below(r)) # j}
  <1>1. n \in Nat
    BY FS_CardinalityType
  <1>2. \A r \in S : IsFiniteSet(Below(r)) /\ Cardinality(Below(r)) \in Nat
    BY FS_Subset, FS_CardinalityType
  <1>3. ASSUME NEW U \in SUBSET S, U # {}
        PROVE  \E r \in U : \A t \in U : At[r] <= At[t]
    <2>1. {At[r] : r \in U} \in SUBSET Nat /\ {At[r] : r \in U} # {}
      BY <1>3
    <2>2. PICK m \in {At[r] : r \in U} : \A x \in {At[r] : r \in U} : m <= x
      BY <2>1, LeastNumber
    <2> QED
      BY <2>2
  <1>4. ASSUME Missing # {} PROVE FALSE
    <2>0. Missing \in SUBSET Nat
      BY <1>1
    <2>1. PICK j \in Missing : \A x \in Missing : j <= x
      <3> HIDE DEF Missing
      <3> QED
        BY <1>4, <2>0, LeastNumber
    <2>2. S # {}
      BY <1>1, <2>1, FS_EmptySet
    <2>3. CASE j = 1
      <3>1. PICK r \in S : \A t \in S : At[r] <= At[t]
        BY <1>3, <2>2
      <3>2. Below(r) = {r}
        BY <3>1
      <3> QED
        BY <2>1, <2>3, <3>2, FS_Singleton
    <2>4. CASE j # 1
      <3>1. j \in 1..n /\ j - 1 \in 1..n /\ j - 1 \notin Missing
        BY <1>1, <2>1, <2>4
      <3>2. PICK r \in S : Cardinality(Below(r)) = j - 1
        BY <3>1
      <3> DEFINE U == {t \in S : ~(At[t] <= At[r])}
      <3>3. U # {}
        <4>1. ASSUME U = {} PROVE FALSE
          <5>1. Below(r) = S
            BY <4>1
          <5>2. j - 1 = n
            BY <3>2, <5>1, Zenon
          <5> QED
            BY <1>1, <3>1, <5>2
        <4> QED
          BY <4>1
      <3>4. PICK t \in U : \A u \in U : At[t] <= At[u]
        BY <1>3, <3>3
      <3>5. Below(t) = Below(r) \cup {t} /\ t \notin Below(r)
        BY <3>2, <3>4
      <3>6. Cardinality(Below(t)) = j
        <4> HIDE DEF Below
        <4>1. Cardinality(Below(r) \cup {t}) = Cardinality(Below(r)) + 1
          BY <1>2, <3>2, <3>5, FS_AddElement
        <4> QED
          BY <1>1, <3>1, <3>2, <3>5, <4>1
      <3> QED
        BY <2>1, <3>4, <3>6
    <2> QED
      BY <2>3, <2>4
  <1>5. ASSUME NEW r \in S, NEW t \in S, Cardinality(Below(r)) < Cardinality(Below(t))
        PROVE  At[r] < At[t]
    <2>1. CASE At[t] <= At[r]
      <3>1. Below(t) \subseteq Below(r)
        BY <2>1
      <3> HIDE DEF Below
      <3>2. Cardinality(Below(t)) <= Cardinality(Below(r))
        BY <1>2, <3>1, FS_Subset
      <3> QED
        BY <1>2, <1>5, <3>2
    <2>2. CASE ~(At[t] <= At[r])
      BY <2>2
    <2> QED
      BY <2>1, <2>2
  <1>6. \A r : Rank(S, At, r) = Cardinality(Below(r))
    BY DEF Rank
  <1> HIDE DEF Below
  <1> QED
    BY <1>1, <1>2, <1>4, <1>5, <1>6

\* What GetMemoryMap returns is a memory map as the kernel wants it, sorted and without
\* overlaps, and every frame of a descriptor is used as the descriptor says.
LEMMA DescribedByMap ==
    ASSUME NEW types \in [Frames -> MemoryTypes \cup {Hole}]
    PROVE  LET m == DescribedBy(types)
           IN /\ IsMemoryMap(m)
              /\ \A j \in 1..Len(m) : \A f \in Run(m[j].start, End(m[j])) : types[f] = m[j].type
  <1> DEFINE IsRun(first, end) ==
                 /\ \A f \in Run(first, end) : types[f] = types[first] /\ types[first] # Hole
                 /\ first > 0 => types[first - 1] # types[first]
                 /\ end < FrameCount => types[end] # types[first]
             runs == {r \in Frames \X (1..FrameCount) : r[1] < r[2] /\ IsRun(r[1], r[2])}
             n == Cardinality(runs)
             Nth(j) == CHOOSE r \in runs : Cardinality({s \in runs : s[1] <= r[1]}) = j
             m == DescribedBy(types)
             At == [r \in runs |-> r[1]]
  <1>1. m = [j \in 1..n |-> [type |-> types[Nth(j)[1]], start |-> Nth(j)[1],
                             pages |-> Nth(j)[2] - Nth(j)[1]]]
    BY DEF DescribedBy
  <1>2. ASSUME NEW r \in runs
        PROVE  /\ r[1] \in Nat /\ r[2] \in Nat /\ r[1] < r[2] /\ r[2] <= FrameCount
               /\ \A f \in Int : r[1] <= f /\ f < r[2] => types[f] = types[r[1]]
               /\ types[r[1]] \in MemoryTypes
               /\ r[1] > 0 => types[r[1] - 1] # types[r[1]]
               /\ r[2] < FrameCount => types[r[2]] # types[r[1]]
               /\ r = <<r[1], r[2]>>
    <2>1. r \in Frames \X (1..FrameCount) /\ r[1] < r[2] /\ IsRun(r[1], r[2])
      OBVIOUS
    <2>2. r[1] \in Nat /\ r[1] < FrameCount /\ r[2] \in Nat /\ r[2] <= FrameCount
          /\ r = <<r[1], r[2]>>
      BY <2>1 DEF Frames
    <2>3. \A f \in Int : r[1] <= f /\ f < r[2] => types[f] = types[r[1]] /\ types[r[1]] # Hole
      BY <2>1, <2>2, RunMember
    <2>4. types[r[1]] \in MemoryTypes
      BY <2>1, <2>2, <2>3 DEF Frames
    <2> QED
      BY <2>1, <2>2, <2>3, <2>4
  <1>3. IsFiniteSet(runs)
    <2>1. IsFiniteSet(Frames) /\ IsFiniteSet(1..FrameCount)
      BY FS_Interval DEF Frames
    <2>2. IsFiniteSet(Frames \X (1..FrameCount))
      BY <2>1, FS_Product
    <2> QED
      BY <2>2, FS_Subset
  <1> HIDE DEF runs
  <1>4. ASSUME NEW r \in runs, NEW t \in runs, r[1] < t[1]
        PROVE  r[2] <= t[1]
    <2>1. SUFFICES ASSUME t[1] < r[2] PROVE FALSE
      BY <1>2
    <2>2. types[t[1]] = types[r[1]] /\ types[t[1] - 1] = types[r[1]]
      BY <1>2, <1>4, <2>1
    <2> QED
      BY <1>2, <1>4, <2>2
  <1>5. ASSUME NEW r \in runs, NEW t \in runs, r[1] = t[1]
        PROVE  r = t
    <2>1. ASSUME NEW u \in runs, NEW v \in runs, u[1] = v[1], u[2] < v[2] PROVE FALSE
      <3>1. types[u[2]] = types[v[1]] /\ u[2] < FrameCount
        BY <1>2, <2>1
      <3> QED
        BY <1>2, <2>1, <3>1
    <2>2. r[2] = t[2]
      BY <1>2, <1>5, <2>1
    <2> QED
      BY <1>2, <1>5, <2>2
  <1>6. /\ n \in Nat
        /\ \A j \in 1..n : \E r \in runs : Cardinality({s \in runs : s[1] <= r[1]}) = j
        /\ \A r, t \in runs :
              Cardinality({s \in runs : s[1] <= r[1]}) < Cardinality({s \in runs : s[1] <= t[1]})
                  => r[1] < t[1]
    <2>1. At \in [runs -> Nat] /\ \A r, t \in runs : At[r] = At[t] => r = t
      BY <1>2, <1>5
    <2>2. \A r \in runs : {s \in runs : At[s] <= At[r]} = {s \in runs : s[1] <= r[1]}
      OBVIOUS
    <2>3. \A r \in runs : Rank(runs, At, r) = Cardinality({s \in runs : s[1] <= r[1]})
      BY <2>2, Zenon DEF Rank
    <2>4. \A r \in runs : At[r] = r[1]
      OBVIOUS
    <2> HIDE DEF At
    <2>5. /\ n \in Nat
          /\ \A j \in 1..n : \E r \in runs : Rank(runs, At, r) = j
          /\ \A r, t \in runs : Rank(runs, At, r) < Rank(runs, At, t) => At[r] < At[t]
      BY <1>3, <2>1, EveryRank
    <2> QED
      BY <2>3, <2>4, <2>5
  <1>7. \A j \in 1..n : Nth(j) \in runs /\ Cardinality({s \in runs : s[1] <= Nth(j)[1]}) = j
    BY <1>6
  <1>8. \A j, k \in 1..n : j < k => Nth(j)[1] < Nth(k)[1]
    BY <1>6, <1>7
  <1> HIDE DEF Nth, n, m
  <1>9. Len(m) = n /\ DOMAIN m = 1..n
    BY <1>1, <1>6
  <1>10. ASSUME NEW j \in 1..n
         PROVE  /\ m[j].type = types[Nth(j)[1]] /\ m[j].start = Nth(j)[1]
                /\ m[j].pages = Nth(j)[2] - Nth(j)[1]
                /\ m[j] \in Descriptors /\ End(m[j]) = Nth(j)[2]
    <2>1. Nth(j) \in runs
      BY <1>7
    <2>2. m[j] = [type |-> types[Nth(j)[1]], start |-> Nth(j)[1],
                  pages |-> Nth(j)[2] - Nth(j)[1]]
      BY <1>1
    <2>3. /\ Nth(j)[1] \in Nat /\ Nth(j)[2] \in Nat /\ Nth(j)[2] - Nth(j)[1] \in Nat
          /\ types[Nth(j)[1]] \in MemoryTypes
      BY <1>2, <2>1
    <2> QED
      BY <2>2, <2>3 DEF Descriptors, End
  <1>11. m \in Seq(Descriptors)
    BY <1>1, <1>6, <1>9, <1>10
  <1>12. IsMemoryMap(m)
    <2>1. \A j \in 1..Len(m) : End(m[j]) <= FrameCount
      BY ZenonT(40), <1>2, <1>7, <1>9, <1>10
    <2>2. \A j, k \in 1..Len(m) : j < k => End(m[j]) <= m[k].start
      BY ZenonT(40), <1>4, <1>7, <1>8, <1>9, <1>10
    <2> QED
      BY <1>11, <2>1, <2>2 DEF IsMemoryMap
  <1>13. ASSUME NEW j \in 1..Len(m), NEW f \in Run(m[j].start, End(m[j]))
         PROVE  types[f] = m[j].type
    <2>0. Nth(j) \in runs /\ m[j].start = Nth(j)[1] /\ End(m[j]) = Nth(j)[2]
      BY <1>7, <1>9, <1>10, <1>13
    <2>1. f \in Int /\ Nth(j)[1] <= f /\ f < Nth(j)[2] /\ Nth(j) \in runs
      BY <1>2, <1>13, <2>0, RunMember
    <2> QED
      BY <1>2, <1>9, <1>10, <2>1
  <1> QED
    BY <1>12, <1>13 DEF m

-----------------------------------------------------------------------------
(* The pages of the kernel.                                                  *)

\* The members of a sequence
LEMMA SeqMember == ASSUME NEW S, NEW q \in Seq(S), NEW m \in 1..Len(q) PROVE q[m] \in S
  OBVIOUS

\* What is known of a program header of the kernel
LEMMA KernelHeader ==
    ASSUME kernel \in Kernels
    PROVE  /\ IsKernel(kernel) /\ Len(kernel) \in Nat /\ DOMAIN kernel = 1..Len(kernel)
           /\ \A m \in 1..Len(kernel) :
                 /\ kernel[m] \in Range(kernel) /\ kernel[m].load \in BOOLEAN
                 /\ kernel[m].vaddr \in Nat /\ kernel[m].filesz \in Nat
                 /\ kernel[m].memsz \in Nat /\ kernel[m].offset \in Nat
                 /\ kernel[m].filesz <= kernel[m].memsz
                 /\ kernel[m].vaddr + kernel[m].memsz <= FrameCount * FrameBytes
           /\ \A s \in Range(kernel) : \E m \in 1..Len(kernel) : s = kernel[m]
  <1> DEFINE Headers == [load : BOOLEAN, vaddr : Nat, filesz : Nat, memsz : Nat, offset : Nat]
  <1>1. IsKernel(kernel)
    BY KernelsAssumption
  <1>2. kernel \in Seq(Headers)
    BY <1>1 DEF IsKernel
  <1>3. Len(kernel) \in Nat /\ DOMAIN kernel = 1..Len(kernel)
    BY <1>2
  <1>4. ASSUME NEW m \in 1..Len(kernel)
        PROVE  /\ kernel[m] \in Range(kernel) /\ kernel[m].load \in BOOLEAN
               /\ kernel[m].vaddr \in Nat /\ kernel[m].filesz \in Nat
               /\ kernel[m].memsz \in Nat /\ kernel[m].offset \in Nat
               /\ kernel[m].filesz <= kernel[m].memsz
               /\ kernel[m].vaddr + kernel[m].memsz <= FrameCount * FrameBytes
    <2>1. kernel[m] \in Headers
      <3> HIDE DEF Headers
      <3> QED
        BY <1>2, SeqMember
    <2>2. kernel[m] \in Range(kernel)
      BY <1>3 DEF Range
    <2>3. kernel[m].filesz <= kernel[m].memsz
          /\ kernel[m].vaddr + kernel[m].memsz <= FrameCount * FrameBytes
      BY <1>1, <2>2 DEF IsKernel
    <2> QED
      BY <2>1, <2>2, <2>3
  <1>5. \A s \in Range(kernel) : \E m \in 1..Len(kernel) : s = kernel[m]
    BY <1>3 DEF Range
  <1> QED
    BY <1>1, <1>3, <1>4, <1>5

\* CalcLoadAddressRange finds the bounds of the segments, and the file's headers are at
\* the lower one.
LEMMA KernelBounds ==
    ASSUME kernel \in Kernels
    PROVE  /\ kernel_first_addr \in Nat /\ kernel_last_addr \in Nat
           /\ kernel_first_addr <= kernel_last_addr
           /\ \A m \in 1..Len(kernel) : kernel[m].load =>
                 /\ kernel_first_addr <= kernel[m].vaddr
                 /\ kernel[m].vaddr + kernel[m].memsz <= kernel_last_addr
           /\ \E m \in 1..Len(kernel) :
                 /\ kernel[m].load /\ kernel[m].vaddr = kernel_first_addr
                 /\ kernel[m].offset = 0 /\ EntryOffset < kernel[m].filesz
  <1> DEFINE Firsts == {s.vaddr : s \in Loads}
             Lasts == {s.vaddr + s.memsz : s \in Loads}
             top == FrameCount * FrameBytes
  <1>1. \A s \in Loads : /\ s.load /\ s.vaddr \in Nat /\ s.memsz \in Nat /\ s.filesz \in Nat
                         /\ s.vaddr + s.memsz <= top
    BY KernelHeader DEF Loads
  <1>2. PICK s \in Loads : /\ s.offset = 0 /\ EntryOffset < s.filesz
                           /\ \A t \in Loads : s.vaddr <= t.vaddr
    BY KernelHeader DEF Loads, IsKernel
  <1>3. kernel_first_addr = s.vaddr
    <2>1. s.vaddr \in Firsts /\ \A x \in Firsts : x \in Nat /\ s.vaddr <= x
      BY <1>1, <1>2
    <2>3. kernel_first_addr \in Firsts /\ \A y \in Firsts : kernel_first_addr <= y
      BY <2>1 DEF kernel_first_addr, Min
    <2> HIDE DEF Firsts
    <2>2. s.vaddr \in Nat /\ \A x \in Firsts : (\A y \in Firsts : x <= y) => x = s.vaddr
      BY <2>1
    <2> QED
      BY <2>2, <2>3
  <1>4. kernel_last_addr \in Lasts /\ \A y \in Lasts : y <= kernel_last_addr
    <2> DEFINE Rest == {top - x : x \in Lasts}
    <2>0. top \in Nat
      OBVIOUS
    <2> HIDE DEF top
    <2>1. \A x \in Lasts : x \in Nat /\ x <= top
      BY <1>1
    <2>2. s.vaddr + s.memsz \in Lasts
      OBVIOUS
    <2> HIDE DEF Lasts
    <2>3. Rest \in SUBSET Nat /\ Rest # {}
      BY <2>0, <2>1, <2>2
    <2>4. PICK r \in Rest : \A x \in Rest : r <= x
      BY <2>3, LeastNumber
    <2>5. PICK l \in Lasts : r = top - l
      BY <2>4
    <2>6. ASSUME NEW y \in Lasts PROVE l >= y
      <3>1. top - l <= top - y
        BY <2>4, <2>5
      <3>2. l \in Nat /\ y \in Nat
        BY <2>1
      <3> QED BY <2>0, <3>1, <3>2
    <2>7. Max(Lasts) \in Lasts /\ \A y \in Lasts : Max(Lasts) >= y
      BY <2>5, <2>6 DEF Max
    <2> QED
      BY <2>1, <2>7 DEF kernel_last_addr, Lasts
  <1>5. kernel_first_addr \in Nat /\ kernel_last_addr \in Nat
    BY <1>1, <1>2, <1>3, <1>4
  <1>6. kernel_first_addr <= kernel_last_addr
    BY <1>1, <1>2, <1>3, <1>4, <1>5
  <1>7. ASSUME NEW m \in 1..Len(kernel), kernel[m].load
        PROVE  /\ kernel_first_addr <= kernel[m].vaddr
               /\ kernel[m].vaddr + kernel[m].memsz <= kernel_last_addr
    <2>1. kernel[m] \in Loads
      BY <1>7, KernelHeader DEF Loads
    <2> QED
      BY <1>2, <1>3, <1>4, <2>1
  <1>8. \E m \in 1..Len(kernel) : s = kernel[m]
    BY KernelHeader DEF Loads
  <1> QED
    BY <1>1, <1>2, <1>3, <1>5, <1>6, <1>7, <1>8

\* Division by a positive number, as SMT needs it
LEMMA Division ==
    ASSUME NEW x \in Nat, NEW b \in Nat \ {0}
    PROVE  /\ x \div b \in Nat /\ (x \div b) * b <= x /\ x < (x \div b) * b + b
           /\ x % b = 0 => (x \div b) * b = x
  OBVIOUS

\* Products grow with their factor.
LEMMA Multiples ==
    ASSUME NEW x \in Nat, NEW y \in Nat, NEW b \in Nat \ {0}, x * b < y * b
    PROVE  x < y
  <1>1. CASE y <= x
    <2>1. PICK d \in Nat : x = y + d
      BY <1>1
    <2>2. x * b = y * b + d * b /\ d * b >= 0 /\ y * b \in Int
      BY <2>1
    <2> QED
      BY <2>2
  <1> QED
    BY <1>1

\* Every byte between the bounds is in one of the pages that num_pages counts.
LEMMA ByteInKernelFrames ==
    ASSUME kernel \in Kernels, kernel_first_addr % FrameBytes = 0,
           NEW a \in Nat, kernel_first_addr <= a, a < kernel_last_addr
    PROVE  a \div FrameBytes \in KernelFrames
  <1> DEFINE b == FrameBytes
             first == kernel_first_addr
             last == kernel_last_addr
             n == num_pages
             q == first \div b
             p == a \div b
  <1>1. first \in Nat /\ last \in Nat /\ first <= last /\ b \in Nat \ {0}
    BY KernelBounds
  <1>2. last - first + b - 1 \in Nat
    BY <1>1
  <1>3. n = (last - first + b - 1) \div b
    BY DEF num_pages
  <1>4. n \in Nat /\ last - first + b - 1 < n * b + b
    BY <1>1, <1>2, <1>3, Division
  <1>5. q \in Nat /\ q * b = first
    BY <1>1, Division
  <1>6. p \in Nat /\ p * b <= a /\ a < p * b + b
    BY <1>1, Division
  <1>7. KernelFrames = Run(q, q + n)
    BY DEF KernelFrames
  <1> HIDE DEF b, first, last, n, q, p
  <1>8. (q + n) * b = q * b + n * b /\ (p + 1) * b = p * b + b
        /\ p * b \in Nat /\ q * b \in Nat /\ n * b \in Nat
    BY <1>1, <1>4, <1>5, <1>6
  <1>a. first <= a /\ a < last
    BY DEF first, last
  <1>9. p * b < (q + n) * b
    BY <1>1, <1>4, <1>5, <1>6, <1>8, <1>a
  <1>10. q * b < (p + 1) * b
    BY <1>1, <1>5, <1>6, <1>8, <1>a
  <1>11. p < q + n /\ q < p + 1
    BY <1>1, <1>4, <1>5, <1>6, <1>9, <1>10, Multiples
  <1>12. p \in KernelFrames
    BY <1>4, <1>5, <1>6, <1>7, <1>11, RunMember
  <1> QED
    BY <1>12 DEF p, b

\* A byte of the memory is in one of its frames.
LEMMA ByteFrame ==
    ASSUME NEW a \in Bytes
    PROVE  a \in Nat /\ a \div FrameBytes \in Frames
  <1> DEFINE b == FrameBytes
             p == a \div b
             top == FrameCount * b
  <1>1. top \in Nat /\ a \in Nat /\ a < top /\ b \in Nat \ {0}
    BY DEF Bytes
  <1>2. p \in Nat /\ p * b <= a /\ p * b \in Nat
    BY <1>1, Division
  <1>3. p * b < FrameCount * b
    BY <1>1, <1>2
  <1>4. p < FrameCount
    BY <1>1, <1>2, <1>3, Multiples
  <1> QED
    BY <1>1, <1>2, <1>4 DEF Frames

\* The pages depend on the program headers alone.
LEMMA SameKernel ==
    ASSUME UNCHANGED kernel
    PROVE  kernel_first_addr' = kernel_first_addr /\ KernelFrames' = KernelFrames
           /\ Loads' = Loads
  <1>1. Loads' = Loads
    BY DEF Loads
  <1>2. kernel_first_addr' = kernel_first_addr /\ kernel_last_addr' = kernel_last_addr
    BY <1>1 DEF kernel_first_addr, kernel_last_addr
  <1>3. num_pages' = num_pages
    BY <1>2 DEF num_pages
  <1> QED
    BY <1>1, <1>2, <1>3 DEF KernelFrames

-----------------------------------------------------------------------------
(* The steps.                                                                *)

\* The loader's part of the invariant
LoaderInv == LoaderTypes /\ CopyInv /\ PagesInv

\* What has been copied stays as long as neither the memory nor the place in the program
\* headers changes.
LEMMA CopyKept ==
    ASSUME CopyInv, UNCHANGED <<kernel, phdr, memory>>,
           loader_pc' \in Loading => loader_pc' = loader_pc \/ (loader_pc' # "copy" /\ loader_pc \in Copied),
           loader_pc' \notin Loading \cup {"halted"} => loader_pc \notin Loading \cup {"halted"}
    PROVE  CopyInv'
  <1>1. kernel' = kernel /\ phdr' = phdr /\ memory' = memory
    OBVIOUS
  <1>2. /\ (loader_pc = "copy" => phdr <= Len(kernel))'
        /\ (loader_pc \in Copied => phdr = Len(kernel) + 1)'
    BY <1>1 DEF CopyInv, Loading, Copied
  <1>3. (loader_pc \in Loading =>
            \A m \in 1..(phdr - 1) : kernel[m].load => SegmentLoaded(kernel[m]))'
    <2> SUFFICES ASSUME loader_pc' \in Loading, NEW m \in 1..(phdr - 1), kernel[m].load
                 PROVE  SegmentLoaded(kernel[m])'
      BY <1>1 DEF Loading
    <2>1. loader_pc \in Loading
      BY DEF Copied
    <2>2. SegmentLoaded(kernel[m])
      BY <2>1 DEF CopyInv
    <2> QED
      BY <1>1, <2>2 DEF SegmentLoaded
  <1>4. (loader_pc \notin Loading \cup {"halted"} =>
            phdr = 1 /\ \A a \in Bytes : memory[a] = Other)'
    BY <1>1 DEF CopyInv, Loading
  <1> QED
    BY <1>2, <1>3, <1>4 DEF CopyInv

\* Calls that move the loader on and neither allocate nor copy
LEMMA CallInv ==
    ASSUME LoaderInv, UNCHANGED <<layout, kernel, pool, phdr, memory>>,
           loader_pc' \in Loading => loader_pc' # "copy" /\ loader_pc \in Copied,
           loader_pc' \notin Loading \cup {"halted"} => loader_pc \notin Loading \cup {"halted"}
    PROVE  LoaderInv'
  <1>1. LoaderTypes'
    BY DEF LoaderInv, LoaderTypes
  <1>2. CopyInv'
    BY CopyKept DEF LoaderInv
  <1>3. PagesInv'
    BY SameKernel DEF LoaderInv, PagesInv, Copied
  <1> QED
    BY <1>1, <1>2, <1>3 DEF LoaderInv

\* Allocations that leave the loader where it is, or have not come to its pages
LEMMA AllocationInv ==
    ASSUME LoaderInv, UNCHANGED <<kernel, phdr, memory>>,
           layout' \in [Frames -> MemoryTypes \cup {Hole}],
           \A f \in Frames : layout[f] = "EfiLoaderData" => layout'[f] = "EfiLoaderData",
           pool' \subseteq Frames, \A f \in pool' : layout'[f] = "EfiLoaderData",
           \/ UNCHANGED <<loader_pc, pool>>
           \/ loader_pc \notin Loading \cup {"halted"} /\ loader_pc' \notin Loading \cup {"halted"}
    PROVE  LoaderInv'
  <1>1. LoaderTypes'
    BY DEF LoaderInv, LoaderTypes
  <1>2. CopyInv'
    BY CopyKept DEF LoaderInv
  <1>3. PagesInv'
    BY SameKernel, ByteFrame DEF LoaderInv, PagesInv
  <1> QED
    BY <1>1, <1>2, <1>3 DEF LoaderInv

\* A page that the firmware takes was free.
LEMMA FirmwareEventInv ==
    ASSUME LoaderInv, FirmwareEvent
    PROVE  LoaderInv'
  <1>1. PICK f \in Conventional : Convert({f}, "EfiBootServicesData")
    BY DEF FirmwareEvent
  <1>2. /\ layout' \in [Frames -> MemoryTypes \cup {Hole}]
        /\ \A g \in Frames : layout[g] = "EfiLoaderData" => layout'[g] = "EfiLoaderData"
    BY <1>1 DEF LoaderInv, LoaderTypes, Convert, Conventional, MemoryTypes
  <1>3. UNCHANGED <<loader_pc, kernel, pool, phdr, memory>>
    BY DEF FirmwareEvent
  <1>4. \A g \in pool' : layout'[g] = "EfiLoaderData"
    BY <1>2, <1>3 DEF LoaderInv, LoaderTypes, PagesInv
  <1> QED
    BY <1>2, <1>3, <1>4, AllocationInv DEF LoaderInv, LoaderTypes

\* kernel_buffer
LEMMA AllocatePoolInv ==
    ASSUME LoaderInv, AllocatePool
    PROVE  LoaderInv'
  <1>1. /\ loader_pc = "allocate_pool" /\ loader_pc' = "read"
        /\ UNCHANGED <<kernel, phdr, memory>>
    BY DEF AllocatePool
  <1>2. /\ layout' \in [Frames -> MemoryTypes \cup {Hole}]
        /\ \A g \in Frames : layout[g] = "EfiLoaderData" => layout'[g] = "EfiLoaderData"
        /\ pool' \subseteq Frames /\ \A g \in pool' : layout'[g] = "EfiLoaderData"
    <2>1. CASE UNCHANGED <<layout, key_current, pool>>
      BY <2>1 DEF LoaderInv, LoaderTypes, PagesInv
    <2>2. CASE \E f \in Conventional : Convert({f}, "EfiLoaderData") /\ pool' = {f}
      BY <2>2 DEF LoaderInv, LoaderTypes, Convert, Conventional, MemoryTypes
    <2> QED
      BY <2>1, <2>2 DEF AllocatePool
  <1> QED
    BY <1>1, <1>2, AllocationInv DEF Loading

\* The pages of the kernel: they were free, so kernel_buffer is not in them.
LEMMA AllocatePagesInv ==
    ASSUME LoaderInv, AllocatePages
    PROVE  LoaderInv'
  <1>1. loader_pc = "allocate_pages" /\ UNCHANGED <<kernel, pool, phdr, memory>>
    BY DEF AllocatePages
  <1>2. CASE loader_pc' = "halted" /\ UNCHANGED layout
    BY <1>1, <1>2, CallInv DEF Loading
  <1>3. CASE /\ kernel_first_addr % FrameBytes = 0 /\ KernelFrames \subseteq Conventional
             /\ loader_pc' = "copy" /\ Convert(KernelFrames, "EfiLoaderData")
    <2>1. phdr = 1 /\ \A a \in Bytes : memory[a] = Other
      BY <1>1 DEF LoaderInv, CopyInv, Loading
    <2>2. /\ layout' \in [Frames -> MemoryTypes \cup {Hole}]
          /\ \A f \in KernelFrames : f \in Frames /\ layout'[f] = "EfiLoaderData"
          /\ \A f \in pool : f \in Frames /\ f \notin Conventional
                             /\ layout'[f] = "EfiLoaderData"
      BY <1>3 DEF LoaderInv, LoaderTypes, PagesInv, Convert, Conventional, MemoryTypes
    <2>3. Len(kernel) \in Nat /\ Len(kernel) >= 1
      BY KernelBounds, KernelHeader DEF LoaderInv, LoaderTypes
    <2>4. LoaderTypes'
      BY <1>1, <2>2 DEF LoaderInv, LoaderTypes
    <2>5. CopyInv'
      BY <1>1, <1>3, <2>1, <2>3 DEF CopyInv, Loading, Copied
    <2>6. PagesInv'
      BY <1>1, <1>3, <2>1, <2>2, SameKernel DEF PagesInv
    <2> QED
      BY <2>4, <2>5, <2>6 DEF LoaderInv
  <1> QED
    BY <1>2, <1>3 DEF AllocatePages

\* FreePool gives back the pages of kernel_buffer only.
LEMMA FreePoolInv ==
    ASSUME LoaderInv, FreePool
    PROVE  LoaderInv'
  <1>1. /\ loader_pc = "free_pool" /\ loader_pc' = "exit_memory_map" /\ pool' = {}
        /\ UNCHANGED <<kernel, phdr, memory>>
    BY DEF FreePool
  <1>2. /\ layout' \in [Frames -> MemoryTypes \cup {Hole}]
        /\ \A f \in Frames \ pool : layout'[f] = layout[f]
    BY DEF FreePool, LoaderInv, LoaderTypes, Convert, MemoryTypes
  <1>3. LoaderTypes'
    BY <1>1, <1>2 DEF LoaderInv, LoaderTypes
  <1>5. CopyInv'
    BY <1>1, CopyKept DEF LoaderInv, Loading, Copied
  <1>6. PagesInv'
    BY <1>1, <1>2, SameKernel DEF LoaderInv, PagesInv, Loading
  <1> QED
    BY <1>3, <1>5, <1>6 DEF LoaderInv

\* A place in a segment, and in one that does not overlap it
LEMMA SegmentPlaces ==
    ASSUME NEW v \in Nat, NEW f \in Nat, NEW l \in Nat, f <= l, NEW n \in 0..(l - 1),
           NEW top \in Nat, v + l <= top
    PROVE  /\ v + n \in 0..(top - 1)
           /\ (v + n) - v = n
           /\ v + n \in v..(v + f - 1) <=> n < f
           /\ ~(n < f) => v + n \in (v + f)..(v + l - 1)
           /\ \A w, k \in Nat : v + l <= w \/ w + k <= v => v + n \notin w..(w + k - 1)
  OBVIOUS

\* The bytes of a segment that is loaded, and those of the segments loaded before it
LEMMA LoadedBytes ==
    ASSUME LoaderTypes, phdr <= Len(kernel), kernel[phdr].load,
           NEW mem, mem = [a \in Bytes |-> Loaded(kernel[phdr], a)]
    PROVE  LET s == kernel[phdr]
           IN /\ mem \in [Bytes -> Int]
              /\ \A n \in 0..(s.memsz - 1) :
                    mem[s.vaddr + n] = IF n < s.filesz THEN s.offset + n ELSE Zero
              /\ \A a \in Bytes : a \notin s.vaddr..(s.vaddr + s.memsz - 1) => mem[a] = memory[a]
              /\ \A m \in 1..(phdr - 1) : kernel[m].load =>
                    \A n \in 0..(kernel[m].memsz - 1) :
                       mem[kernel[m].vaddr + n] = memory[kernel[m].vaddr + n]
  <1> DEFINE s == kernel[phdr]
             top == FrameCount * FrameBytes
  <1>1. kernel \in Kernels /\ phdr \in Nat /\ 1 <= phdr /\ memory \in [Bytes -> Int]
    BY KernelHeader DEF LoaderTypes
  <1>2. phdr \in 1..Len(kernel) /\ Len(kernel) \in Nat
    BY <1>1, KernelHeader
  <1>3. /\ s.vaddr \in Nat /\ s.filesz \in Nat /\ s.memsz \in Nat /\ s.offset \in Nat
        /\ s.filesz <= s.memsz /\ s.vaddr + s.memsz <= top
    BY <1>1, <1>2, KernelHeader
  <1>4. top \in Nat /\ Bytes = 0..(top - 1)
    BY DEF Bytes
  <1> HIDE DEF top
  <1>5. \A a \in Bytes : Loaded(s, a) \in Int
    <2> SUFFICES ASSUME NEW a \in Bytes PROVE Loaded(s, a) \in Int
      OBVIOUS
    <2>1. a \in Int /\ memory[a] \in Int
      BY <1>1, <1>4
    <2>2. s.offset + (a - s.vaddr) \in Int /\ Zero \in Int
      BY <1>3, <2>1 DEF Zero
    <2> HIDE DEF s
    <2> QED BY <2>1, <2>2 DEF Loaded
  <1>6. mem \in [Bytes -> Int] /\ \A a \in Bytes : mem[a] = Loaded(s, a)
    BY <1>5
  <1>7. \A n \in 0..(s.memsz - 1) :
           mem[s.vaddr + n] = IF n < s.filesz THEN s.offset + n ELSE Zero
    <2> SUFFICES ASSUME NEW n \in 0..(s.memsz - 1)
                 PROVE  mem[s.vaddr + n] = IF n < s.filesz THEN s.offset + n ELSE Zero
      OBVIOUS
    <2>1. /\ s.vaddr + n \in Bytes /\ (s.vaddr + n) - s.vaddr = n
          /\ s.vaddr + n \in s.vaddr..(s.vaddr + s.filesz - 1) <=> n < s.filesz
          /\ ~(n < s.filesz) =>
                s.vaddr + n \in (s.vaddr + s.filesz)..(s.vaddr + s.memsz - 1)
      <3>1. PICK v \in Nat, f \in Nat, l \in Nat : v = s.vaddr /\ f = s.filesz /\ l = s.memsz
        BY <1>3
      <3>2. f <= l /\ v + l <= top /\ n \in 0..(l - 1)
        BY <1>3, <3>1
      <3>3. /\ v + n \in 0..(top - 1) /\ (v + n) - v = n
            /\ v + n \in v..(v + f - 1) <=> n < f
            /\ ~(n < f) => v + n \in (v + f)..(v + l - 1)
        BY <1>4, <3>2, SegmentPlaces
      <3> QED
        BY <1>4, <3>1, <3>3
    <2>2. mem[s.vaddr + n] = Loaded(s, s.vaddr + n)
      BY <1>6, <2>1
    <2> QED
      BY <2>1, <2>2 DEF Loaded
  <1>8. \A a \in Bytes : a \notin s.vaddr..(s.vaddr + s.memsz - 1) => mem[a] = memory[a]
    <2>1. \A v, f, l, a \in Nat : f <= l /\ a \notin v..(v + l - 1) =>
             a \notin v..(v + f - 1) /\ a \notin (v + f)..(v + l - 1)
      OBVIOUS
    <2>2. \A a \in Bytes : a \in Nat
      BY <1>4
    <2> QED
      BY <1>3, <1>6, <2>1, <2>2 DEF Loaded
  <1>9. ASSUME NEW m \in 1..(phdr - 1), kernel[m].load, NEW n \in 0..(kernel[m].memsz - 1)
        PROVE  mem[kernel[m].vaddr + n] = memory[kernel[m].vaddr + n]
    <2> DEFINE t == kernel[m]
    <2>1. m \in 1..Len(kernel) /\ m < phdr
      BY <1>2
    <2>2. /\ t.vaddr \in Nat /\ t.memsz \in Nat /\ t.vaddr + t.memsz <= top
      BY <1>1, <2>1, KernelHeader DEF top
    <2>3. t.vaddr + t.memsz <= s.vaddr \/ s.vaddr + s.memsz <= t.vaddr
      <3>1. IsKernel(kernel) /\ DOMAIN kernel = 1..Len(kernel)
        BY <1>1, KernelHeader
      <3> QED
        BY <1>2, <1>9, <2>1, <3>1 DEF IsKernel
    <2>4. t.vaddr + n \in Bytes /\ t.vaddr + n \notin s.vaddr..(s.vaddr + s.memsz - 1)
      <3>1. PICK v \in Nat, l \in Nat, w \in Nat, k \in Nat :
               v = t.vaddr /\ l = t.memsz /\ w = s.vaddr /\ k = s.memsz
        BY <1>3, <2>2
      <3>2. l <= l /\ v + l <= top /\ n \in 0..(l - 1) /\ (v + l <= w \/ w + k <= v)
        BY <2>2, <2>3, <3>1
      <3>3. v + n \in 0..(top - 1) /\ v + n \notin w..(w + k - 1)
        BY <1>4, <3>2, SegmentPlaces
      <3> QED
        BY <1>4, <3>1, <3>3
    <2> QED
      BY <1>8, <2>4
  <1> QED
    BY <1>6, <1>7, <1>8, <1>9

\* One round of CopyLoadSegments: it writes between the bounds only, and not into a
\* segment that has been loaded before.
LEMMA CopyLoadSegmentInv ==
    ASSUME LoaderInv, CopyLoadSegment
    PROVE  LoaderInv'
  <1> DEFINE s == kernel[phdr]
  <1>1. /\ loader_pc = "copy" /\ phdr' = phdr + 1 /\ UNCHANGED <<layout, kernel, pool>>
        /\ loader_pc' = IF phdr = Len(kernel) THEN "free_pool" ELSE "copy"
        /\ memory' = IF s.load THEN [a \in Bytes |-> Loaded(s, a)] ELSE memory
    BY DEF CopyLoadSegment
  <1>2. LoaderTypes /\ CopyInv /\ PagesInv /\ kernel \in Kernels /\ phdr <= Len(kernel)
    BY <1>1 DEF LoaderInv, LoaderTypes, CopyInv
  <1>3. Len(kernel) \in Nat /\ phdr \in 1..Len(kernel) /\ memory \in [Bytes -> Int]
    BY <1>2, KernelHeader DEF LoaderTypes
  <1>4. \A m \in 1..(phdr - 1) : kernel[m].load =>
           \A n \in 0..(kernel[m].memsz - 1) :
              memory[kernel[m].vaddr + n] = IF n < kernel[m].filesz THEN kernel[m].offset + n ELSE Zero
    BY <1>1, <1>2 DEF CopyInv, SegmentLoaded, Loading
  <1>5. /\ memory' \in [Bytes -> Int]
        /\ \A m \in 1..phdr : kernel[m].load =>
              \A n \in 0..(kernel[m].memsz - 1) :
                 memory'[kernel[m].vaddr + n] = IF n < kernel[m].filesz THEN kernel[m].offset + n ELSE Zero
        /\ \A a \in Bytes : memory'[a] # memory[a] =>
              s.load /\ a \in s.vaddr..(s.vaddr + s.memsz - 1)
    <2>1. CASE ~s.load
      BY <1>1, <1>3, <1>4, <2>1
    <2>2. CASE s.load
      <3>1. PICK mem : mem = [a \in Bytes |-> Loaded(s, a)]
        OBVIOUS
      <3>2. memory' = mem
        BY <1>1, <2>2, <3>1
      <3>3. /\ mem \in [Bytes -> Int]
            /\ \A n \in 0..(s.memsz - 1) :
                  mem[s.vaddr + n] = IF n < s.filesz THEN s.offset + n ELSE Zero
            /\ \A a \in Bytes : a \notin s.vaddr..(s.vaddr + s.memsz - 1) => mem[a] = memory[a]
            /\ \A m \in 1..(phdr - 1) : kernel[m].load =>
                  \A n \in 0..(kernel[m].memsz - 1) :
                     mem[kernel[m].vaddr + n] = memory[kernel[m].vaddr + n]
        BY <1>2, <2>2, <3>1, LoadedBytes
      <3>4. ASSUME NEW m \in 1..phdr, kernel[m].load, NEW n \in 0..(kernel[m].memsz - 1)
            PROVE  mem[kernel[m].vaddr + n] = IF n < kernel[m].filesz THEN kernel[m].offset + n ELSE Zero
        <4>1. CASE m = phdr
          BY <3>3, <3>4, <4>1
        <4>2. CASE m # phdr
          <5>1. m \in 1..(phdr - 1)
            BY <1>3, <4>2
          <5> QED
            BY <1>4, <3>3, <3>4, <5>1
        <4> QED
          BY <4>1, <4>2
      <3> QED
        BY <2>2, <3>2, <3>3, <3>4
    <2> QED
      BY <2>1, <2>2
  <1>6. LoaderTypes'
    <2>1. phdr' \in 1..(Len(kernel') + 1)
      BY <1>1, <1>3
    <2> QED
      BY <1>1, <1>2, <1>5, <2>1 DEF LoaderTypes
  <1>7. CopyInv'
    <2>1. /\ (loader_pc = "copy" => phdr <= Len(kernel))'
          /\ (loader_pc \in Copied => phdr = Len(kernel) + 1)'
          /\ (loader_pc \notin Loading \cup {"halted"} =>
                 phdr = 1 /\ \A a \in Bytes : memory[a] = Other)'
      BY <1>1, <1>3 DEF Copied, Loading
    <2>2. (loader_pc \in Loading =>
              \A m \in 1..(phdr - 1) : kernel[m].load => SegmentLoaded(kernel[m]))'
      <3>1. phdr' - 1 = phdr /\ kernel' = kernel
        BY <1>1, <1>3
      <3> SUFFICES ASSUME NEW m \in 1..phdr, kernel[m].load PROVE SegmentLoaded(kernel[m])'
        BY <3>1
      <3> QED
        BY <1>5, <3>1 DEF SegmentLoaded
    <2> QED
      BY <2>1, <2>2 DEF CopyInv
  <1>8. PagesInv'
    <2>1. /\ kernel_first_addr % FrameBytes = 0 /\ KernelFrames \subseteq Frames \ pool
          /\ \A f \in KernelFrames : layout[f] = "EfiLoaderData"
          /\ \A f \in pool : layout[f] = "EfiLoaderData"
      BY <1>1, <1>2 DEF PagesInv, Loading
    <2>2. ASSUME NEW a \in Bytes, memory'[a] # Other
          PROVE  a \div FrameBytes \in KernelFrames
      <3>1. CASE memory'[a] = memory[a]
        BY <1>1, <1>2, <2>2, <3>1 DEF PagesInv, Loading
      <3>2. CASE memory'[a] # memory[a]
        <4>1. s.load /\ a \in s.vaddr..(s.vaddr + s.memsz - 1)
          BY <1>5, <3>2
        <4>2. /\ kernel_first_addr <= s.vaddr /\ s.vaddr + s.memsz <= kernel_last_addr
              /\ kernel_first_addr \in Nat /\ kernel_last_addr \in Nat
              /\ s.vaddr \in Nat /\ s.memsz \in Nat
          BY <1>2, <1>3, <4>1, KernelBounds, KernelHeader
        <4>3. a \in Nat /\ kernel_first_addr <= a /\ a < kernel_last_addr
          BY <4>1, <4>2
        <4> QED
          BY <1>2, <2>1, <4>3, ByteInKernelFrames
      <3> QED
        BY <3>1, <3>2
    <2> QED
      BY <1>1, <2>1, <2>2, SameKernel DEF PagesInv
  <1> QED
    BY <1>6, <1>7, <1>8 DEF LoaderInv

\* What a step of the loader or of the firmware does to the memory map and its key: it
\* leaves them alone, gets a new map, or makes the key invalid.
LEMMA LoaderStepInv ==
    ASSUME LoaderInv, FirmwareEvent \/ LoaderStep
    PROVE  /\ LoaderInv'
           /\ \/ UNCHANGED <<layout, key_current, memmap>>
              \/ UNCHANGED layout /\ memmap' = DescribedBy(layout)
              \/ key_current' = FALSE
           /\ loader_pc' \notin {"entered"}
           /\ loader_pc # "entered"
           /\ loader_pc' = "read_entry" => key_current /\ key_current'
  <1> DEFINE Done == /\ LoaderInv'
                     /\ \/ UNCHANGED <<layout, key_current, memmap>>
                        \/ UNCHANGED layout /\ memmap' = DescribedBy(layout)
                        \/ key_current' = FALSE
                     /\ loader_pc' \notin {"entered"}
                     /\ loader_pc # "entered"
                     /\ loader_pc' = "read_entry" => key_current /\ key_current'
  <1>1. CASE FirmwareEvent
    <2>1. LoaderInv'
      BY <1>1, FirmwareEventInv
    <2> QED
      BY <1>1, <2>1 DEF FirmwareEvent, BootServices, Convert
  <1>2. CASE Call(Following)
    <2>1. /\ loader_pc \in {"open_root_dir", "save_memory_map", "close_memmap", "open_gop",
                            "pixel_format"}
          /\ loader_pc' \in {"open_memmap", "close_memmap", "open_gop", "pixel_format",
                             "open_kernel", "halted"}
          /\ UNCHANGED <<layout, key_current, memmap, kernel, pool, phdr, memory>>
      BY <1>2 DEF Call, Following
    <2>2. LoaderInv'
      BY <2>1, CallInv DEF Loading
    <2> QED
      BY <2>1, <2>2
  <1>3. CASE Call(LoadFollowing)
    <2>1. /\ loader_pc \in {"open_kernel", "get_info", "read"}
          /\ loader_pc' \in {"get_info", "allocate_pool", "allocate_pages", "halted"}
          /\ UNCHANGED <<layout, key_current, memmap, kernel, pool, phdr, memory>>
      BY <1>3 DEF Call, LoadFollowing
    <2>2. LoaderInv'
      BY <2>1, CallInv DEF Loading
    <2> QED
      BY <2>1, <2>2
  <1>4. CASE OpenMemmap
    <2>1. LoaderInv'
      BY <1>4, CallInv DEF OpenMemmap, Loading
    <2> QED
      BY <1>4, <2>1 DEF OpenMemmap
  <1>5. CASE Fails
    <2>1. LoaderInv'
      BY <1>5, CallInv DEF Fails, Loading
    <2> QED
      BY <1>5, <2>1 DEF Fails
  <1>6. CASE FirstMemoryMap
    <2>1. LoaderInv'
      BY <1>6, CallInv DEF FirstMemoryMap, Loading
    <2> QED
      BY <1>6, <2>1 DEF FirstMemoryMap, GetMemoryMap
  <1>7. CASE AllocatePool
    <2>1. LoaderInv'
      BY <1>7, AllocatePoolInv
    <2> QED
      BY <1>7, <2>1 DEF AllocatePool, Convert
  <1>8. CASE AllocatePages
    <2>1. LoaderInv'
      BY <1>8, AllocatePagesInv
    <2> QED
      BY <1>8, <2>1 DEF AllocatePages, Convert
  <1>9. CASE CopyLoadSegment
    <2>1. LoaderInv'
      BY <1>9, CopyLoadSegmentInv
    <2> QED
      BY <1>9, <2>1 DEF CopyLoadSegment
  <1>10. CASE FreePool
    <2>1. LoaderInv'
      BY <1>10, FreePoolInv
    <2> QED
      BY <1>10, <2>1 DEF FreePool, Convert
  <1>11. CASE ExitMemoryMap
    <2>1. LoaderInv'
      BY <1>11, CallInv DEF ExitMemoryMap, Loading, Copied
    <2> QED
      BY <1>11, <2>1 DEF ExitMemoryMap, GetMemoryMap
  <1>12. CASE ExitBootServices
    <2>1. LoaderInv'
      BY <1>12, CallInv DEF ExitBootServices, Loading, Copied
    <2> QED
      BY <1>12, <2>1 DEF ExitBootServices, Exits
  <1> QED
    BY <1>1, <1>2, <1>3, <1>4, <1>5, <1>6, <1>7, <1>8, <1>9, <1>10, <1>11, <1>12 DEF LoaderStep

\* Steps before the kernel is entered
LEMMA LoaderBootInv ==
    ASSUME BootInv, FirmwareEvent \/ LoaderStep, UNCHANGED vars
    PROVE  BootInv'
  <1>1. LoaderInv
    BY DEF BootInv, LoaderInv
  <1>2. /\ LoaderInv'
        /\ \/ UNCHANGED <<layout, key_current, memmap>>
           \/ UNCHANGED layout /\ memmap' = DescribedBy(layout)
           \/ key_current' = FALSE
        /\ loader_pc' # "entered" /\ loader_pc # "entered"
        /\ loader_pc' = "read_entry" => key_current /\ key_current'
    BY <1>1, LoaderStepInv
  <1>3. (key_current => memmap = DescribedBy(layout))'
    <2>1. PICK types : types = layout
      OBVIOUS
    <2>2. key_current => memmap = DescribedBy(types)
      BY <2>1 DEF BootInv, MapKeyInv
    <2>3. key_current' => memmap' = DescribedBy(types) /\ types = layout'
      BY <1>2, <2>1, <2>2
    <2> QED
      BY <2>3
  <1>4. memory_map = <<>> /\ InitManager
    BY <1>2 DEF BootInv, MapKeyInv
  <1>5. (memory_map = <<>> /\ InitManager)'
    BY <1>4 DEF vars, firmware, initializing, range, scan, heap, InitManager
  <1>6. MapKeyInv'
    BY <1>2, <1>3, <1>5 DEF MapKeyInv
  <1>7. IInv'
    BY StutterIInv DEF BootInv
  <1> QED
    BY <1>2, <1>6, <1>7 DEF BootInv, LoaderInv

\* The kernel gets a sorted memory map, so its allocator starts as it should.
LEMMA HandOverInv ==
    ASSUME BootInv, HandOver
    PROVE  BootInv'
  <1>1. /\ loader_pc = "read_entry" /\ loader_pc' = "entered" /\ memory_map' = memmap
        /\ UNCHANGED <<layout, key_current, memmap, kernel, pool, phdr, memory>>
        /\ UNCHANGED <<initializing, alloc_map, range, pc, scan, blocks, heap>>
    BY DEF HandOver, EnterKernel
  <1>2. LoaderInv'
    <2>1. LoaderInv
      BY DEF BootInv, LoaderInv
    <2> QED
      BY <1>1, <2>1, CallInv DEF Loading, Copied
  <1>3. key_current /\ memmap = DescribedBy(layout) /\ InitManager
    BY <1>1 DEF BootInv, MapKeyInv
  <1>4. PICK types \in [Frames -> MemoryTypes \cup {Hole}] : types = layout
    BY DEF BootInv, LoaderTypes
  <1>5. memmap = DescribedBy(types) /\ IsMemoryMap(memmap)
    BY <1>3, <1>4, DescribedByMap
  <1>6. (key_current => memmap = DescribedBy(layout))'
    <2>1. memmap' = DescribedBy(types) /\ types = layout'
      BY <1>1, <1>4, <1>5
    <2> QED
      BY <2>1
  <1>7. MapKeyInv'
    BY <1>1, <1>3, <1>6 DEF MapKeyInv
  <1>8. IsMemoryMap(memory_map)' /\ InitManager'
    <2>1. PICK m : m = memmap
      OBVIOUS
    <2>2. IsMemoryMap(m) /\ memory_map' = m
      BY <1>1, <1>5, <2>1
    <2>3. InitManager'
      BY <1>1, <1>3 DEF InitManager, initializing, range, scan, heap
    <2> QED
      BY <2>2, <2>3
  <1>9. IInv'
    BY <1>8, ManagerIInv, PTL
  <1> QED
    BY <1>2, <1>7, <1>9 DEF BootInv, LoaderInv

\* The loader's part, when nothing of it changes
LEMMA LoaderStutter ==
    ASSUME LoaderInv, key_current => memmap = DescribedBy(layout), UNCHANGED loader_vars
    PROVE  LoaderInv' /\ (key_current => memmap = DescribedBy(layout))'
  <1>1. UNCHANGED <<loader_pc, layout, key_current, memmap, kernel, pool, phdr, memory>>
    BY DEF loader_vars
  <1>2. PICK types : types = layout
    OBVIOUS
  <1>3. key_current' => memmap' = DescribedBy(types) /\ types = layout'
    BY <1>1, <1>2
  <1>4. LoaderTypes'
    BY <1>1 DEF LoaderInv, LoaderTypes
  <1>5. CopyInv'
    BY <1>1, CopyKept DEF LoaderInv
  <1>6. PagesInv'
    BY <1>1, SameKernel DEF LoaderInv, PagesInv
  <1> QED
    BY <1>3, <1>4, <1>5, <1>6 DEF LoaderInv

\* The kernel's own steps
LEMMA KernelInv ==
    ASSUME BootInv, Kernel
    PROVE  BootInv'
  <1>1. loader_pc = "entered" /\ Next /\ UNCHANGED loader_vars
    BY DEF Kernel
  <1>2. IInv'
    BY <1>1, NextIInv DEF BootInv
  <1>3. UNCHANGED memory_map
    BY <1>1 DEF Next, InitializeDescriptor, InitializeRange, Allocate, AllocateFails, ScanFree,
                ScanAllocated, AllocateSucceeds, Free, Sbrk, firmware
  <1>4. LoaderInv' /\ (key_current => memmap = DescribedBy(layout))'
        /\ key_current' /\ memory_map' = memmap'
    BY <1>1, <1>3, LoaderStutter DEF BootInv, MapKeyInv, LoaderInv, loader_vars
  <1>5. MapKeyInv'
    BY <1>1, <1>4 DEF MapKeyInv, loader_vars
  <1> QED
    BY <1>2, <1>4, <1>5 DEF BootInv, LoaderInv

-----------------------------------------------------------------------------
(* The theorems.                                                             *)

\* The loader starts with nothing allocated, copied or handed over.
LEMMA InitBootInv == BootInit => BootInv
  <1> SUFFICES ASSUME BootInit PROVE BootInv
    OBVIOUS
  <1>1. /\ loader_pc = "get_memory_map" /\ layout \in Layouts /\ kernel \in Kernels
        /\ key_current = FALSE /\ pool = {} /\ phdr = 1
        /\ memory = [a \in Bytes |-> Other] /\ memory_map = <<>> /\ InitManager
    BY DEF BootInit, LoaderInit
  <1>2. LoaderTypes
    <2>1. Len(kernel) \in Nat
      BY <1>1, KernelHeader
    <2>2. memory \in [Bytes -> Int]
      BY <1>1 DEF Other
    <2> QED
      BY <1>1, <2>1, <2>2, LayoutsAssumption DEF LoaderTypes
  <1>3. CopyInv
    BY <1>1 DEF CopyInv, Loading, Copied
  <1>4. PagesInv
    BY <1>1 DEF PagesInv, Loading
  <1>5. MapKeyInv
    BY <1>1 DEF MapKeyInv
  <1>6. IsMemoryMap(memory_map)
    BY <1>1 DEF IsMemoryMap
  <1>7. IInv
    BY <1>1, <1>6, ManagerIInv
  <1> QED
    BY <1>2, <1>3, <1>4, <1>5, <1>7 DEF BootInv

\* Every step keeps the invariant.
LEMMA NextBootInv == BootInv /\ [BootNext]_boot_vars => BootInv'
  <1> SUFFICES ASSUME BootInv, [BootNext]_boot_vars PROVE BootInv'
    OBVIOUS
  <1>1. CASE (FirmwareEvent \/ LoaderStep) /\ UNCHANGED vars
    BY <1>1, LoaderBootInv
  <1>2. CASE HandOver
    BY <1>2, HandOverInv
  <1>3. CASE Kernel
    BY <1>3, KernelInv
  <1>4. CASE UNCHANGED boot_vars
    <2>1. UNCHANGED loader_vars /\ UNCHANGED vars
      BY <1>4 DEF boot_vars
    <2>2. LoaderInv' /\ (key_current => memmap = DescribedBy(layout))'
      BY <2>1, LoaderStutter DEF BootInv, LoaderInv, MapKeyInv
    <2>3. UNCHANGED <<loader_pc, key_current, memmap, memory_map>>
      BY <2>1 DEF loader_vars, vars, firmware
    <2>4. InitManager => InitManager'
      BY <2>1 DEF vars, initializing, range, scan, heap, InitManager
    <2>5. MapKeyInv'
      BY <2>2, <2>3, <2>4 DEF BootInv, MapKeyInv
    <2>6. IInv'
      BY <2>1, StutterIInv DEF BootInv
    <2> QED
      BY <2>2, <2>5, <2>6 DEF BootInv, LoaderInv
  <1> QED
    BY <1>1, <1>2, <1>3, <1>4 DEF BootNext

\* BootInv is an invariant of the loader and the kernel together.
THEOREM BootInvariance == BootSpec => []BootInv
  BY InitBootInv, NextBootInv, PTL DEF BootSpec

\* For every kernel whose segments do not overlap and every use that the firmware makes
\* of the memory, the image is complete when the kernel is entered, and the word that
\* LoadKernel jumps to is e_entry of the file (CopyLoadSegments, entry_addr).
THEOREM ImageComplete == BootSpec => []ImageLoaded
  <1>1. BootInv => ImageLoaded
    <2> SUFFICES ASSUME BootInv, loader_pc \in {"read_entry", "entered"}
                 PROVE  /\ entry_addr = EntryOffset
                        /\ \A s \in Loads : SegmentLoaded(s)
      BY DEF ImageLoaded, SegmentLoaded
    <2>1. kernel \in Kernels /\ phdr = Len(kernel) + 1 /\ loader_pc \in Loading
      BY DEF BootInv, LoaderTypes, CopyInv, Copied, Loading
    <2>2. Len(kernel) \in Nat /\ phdr - 1 = Len(kernel)
      BY <2>1, KernelHeader
    <2>3. \A m \in 1..Len(kernel) : kernel[m].load => SegmentLoaded(kernel[m])
      BY <2>1, <2>2 DEF BootInv, CopyInv
    <2>4. \A s \in Loads : SegmentLoaded(s)
      BY <2>1, <2>3, KernelHeader DEF Loads
    <2>5. entry_addr = EntryOffset
      <3>1. PICK m \in 1..Len(kernel) :
               /\ kernel[m].load /\ kernel[m].vaddr = kernel_first_addr
               /\ kernel[m].offset = 0 /\ EntryOffset < kernel[m].filesz
        BY <2>1, KernelBounds
      <3>2. /\ kernel[m].memsz \in Nat /\ kernel[m].filesz \in Nat
            /\ kernel[m].filesz <= kernel[m].memsz /\ EntryOffset \in Nat
        BY <2>1, KernelHeader, KernelsAssumption
      <3>3. EntryOffset \in 0..(kernel[m].memsz - 1)
        BY <3>1, <3>2
      <3>4. memory[kernel[m].vaddr + EntryOffset] = kernel[m].offset + EntryOffset
        BY <2>3, <3>1, <3>3 DEF SegmentLoaded
      <3> QED
        BY <3>1, <3>2, <3>4 DEF entry_addr
    <2> QED
      BY <2>4, <2>5
  <1> QED
    BY <1>1, BootInvariance, PTL

\* However the allocations of the loader and of the firmware fall between its calls, the
\* memory map that kernel_main gets is the one of the moment when the firmware goes away
\* (ExitBootServices).
THEOREM MapCurrent == BootSpec => []HandedMapCurrent
  <1>1. BootInv => HandedMapCurrent
    BY DEF BootInv, MapKeyInv, HandedMapCurrent
  <1> QED
    BY <1>1, BootInvariance, PTL

\* What the loader has written is in pages of type EfiLoaderData, which the kernel's
\* frame allocator never hands out (num_pages, AllocatePages, is_available).
THEOREM KernelPreserved == BootSpec => []KernelKept
  <1>1. BootInv => KernelKept
    <2> SUFFICES ASSUME BootInv, NEW a \in Bytes, memory[a] # Other
                 PROVE  /\ layout[a \div FrameBytes] = "EfiLoaderData"
                        /\ ~Held(a \div FrameBytes)
      BY DEF KernelKept
    <2>1. PICK f : f = a \div FrameBytes
      OBVIOUS
    <2>2. layout[f] = "EfiLoaderData"
      BY <2>1 DEF BootInv, PagesInv
    <2>3. ASSUME Held(f) PROVE FALSE
      <3>1. f \in Available
        BY <2>3 DEF BootInv, IInv, BlocksSound, Held
      <3>2. loader_pc = "entered"
        <4>1. blocks # {}
          BY <2>3 DEF Held
        <4> QED
          BY <4>1 DEF BootInv, MapKeyInv, InitManager
      <3>3. PICK types \in [Frames -> MemoryTypes \cup {Hole}] : types = layout
        BY DEF BootInv, LoaderTypes
      <3>4. memory_map = DescribedBy(types)
        BY <3>2, <3>3 DEF BootInv, MapKeyInv
      <3>5. PICK j \in 1..Len(memory_map) :
               /\ is_available(memory_map[j].type)
               /\ f \in Run(memory_map[j].start, End(memory_map[j]))
        BY <3>1 DEF Available
      <3>6. types[f] = memory_map[j].type
        BY <3>4, <3>5, DescribedByMap
      <3> QED
        BY <2>2, <3>3, <3>5, <3>6 DEF is_available
    <2> QED
      BY <2>1, <2>2, <2>3
  <1> QED
    BY <1>1, BootInvariance, PTL

\* The allocator's guarantees hold for the memory map that the loader hands over: its
\* blocks are available memory with one owner each, no usable frame is lost, and the heap
\* keeps its block (initialize_memory_manager, allocate, free, sbrk).
THEOREM BootedAllocator == BootSpec => [](BlocksSound /\ FramesAccounted /\ HeapOwned)
  <1>1. BootInv => BlocksSound /\ FramesAccounted /\ HeapOwned
    BY DEF BootInv, IInv
  <1> QED
    BY <1>1, BootInvariance, PTL

\* On the memory that the loader leaves, too, allocate returns the lowest run of frames
\* that is free, and fails only if there is none.
THEOREM BootedFirstFit == BootSpec => FirstFit
  <1> DEFINE Step ==
          Allocating /\ pc' # pc =>
            IF blocks' = blocks
            THEN \A s \in Run(range_begin, range_end) : ~Fits(s, num_frames)
            ELSE /\ blocks' = blocks \cup {[start |-> start, pages |-> num_frames]}
                 /\ Fits(start, num_frames)
                 /\ \A s \in Run(range_begin, start) : ~Fits(s, num_frames)
  <1>1. BootInv /\ [BootNext]_boot_vars => [Step]_vars
    <2> SUFFICES ASSUME BootInv, [BootNext]_boot_vars, Allocating, pc' # pc PROVE Step
      BY DEF vars
    <2>1. Next
      BY DEF BootNext, boot_vars, vars, HandOver, Kernel
    <2> QED
      BY <2>1, FirstFitStep DEF BootInv
  <1> QED
    BY <1>1, BootInvariance, PTL DEF BootSpec, FirstFit

=============================================================================
