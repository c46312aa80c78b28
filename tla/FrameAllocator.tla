--------------------------- MODULE FrameAllocator ---------------------------
(***************************************************************************)
(* Physical memory: initialize_memory_manager and BitmapMemoryManager      *)
(* (kernel/memory_manager.cpp), and the heap on top of it, initialize_heap *)
(* and sbrk (kernel/sbrk.cpp).                                             *)
(***************************************************************************)
EXTENDS MemoryMap

CONSTANTS
    MemoryMaps,   \* the memory maps that the firmware may hand over
    HeapFrames,   \* heap_frames
    Sizes,        \* the numbers of frames that clients ask for
    Increments    \* the arguments of sbrk

ASSUME SizeAssumption ==
    /\ FrameCount \in Nat /\ HeapFrames \in Nat \ {0} /\ FrameBytes \in Nat \ {0}
    /\ Sizes \subseteq Nat \ {0} /\ Increments \subseteq Int

ASSUME MapAssumption == \A m \in MemoryMaps : IsMemoryMap(m)

Blocks == [start : Frames, pages : Nat \ {0}]

VARIABLES
    memory_map, next_desc, available_end,   \* initialize_memory_manager
    alloc_map,                              \* frames whose bit is 1
    range_begin, range_end,
    pc, num_frames, start, i,               \* allocate
    blocks,                                 \* what callers got from allocate and hold
    program_break, program_break_end        \* of the heap, in bytes

firmware == <<memory_map>>
initializing == <<next_desc, available_end>>
range == <<range_begin, range_end>>
scan == <<num_frames, start, i>>
heap == <<program_break, program_break_end>>
vars == <<firmware, initializing, alloc_map, range, pc, scan, blocks, heap>>

\* Before initialize_memory_manager
InitManager ==
    /\ next_desc = 1 /\ available_end = 0
    /\ alloc_map = {} /\ range_begin = 0 /\ range_end = FrameCount
    /\ pc = "initialize" /\ num_frames = 0 /\ start = 0 /\ i = 0
    /\ blocks = {}
    /\ program_break = 0 /\ program_break_end = 0

Init == memory_map \in MemoryMaps /\ InitManager

-----------------------------------------------------------------------------

is_available(type) ==
    type \in {"EfiBootServicesCode", "EfiBootServicesData", "EfiConventionalMemory"}

mark_allocated(marked, first, end) == marked \cup Run(first, end)

\* The frames that one descriptor makes initialize_memory_manager mark.
\* Mutant: the gap before the descriptor is left alone.
MarkedByNoGap(d) == IF is_available(d.type) THEN {} ELSE Run(d.start, End(d))

MarkedBy(d) ==
    mark_allocated(IF is_available(d.type) THEN {} ELSE Run(d.start, End(d)),
                   available_end, d.start)

InitializeDescriptor ==
    /\ pc = "initialize" /\ next_desc <= Len(memory_map)
    /\ LET d == memory_map[next_desc]
       IN /\ alloc_map' = alloc_map \cup MarkedBy(d)
          /\ available_end' = IF is_available(d.type) THEN End(d) ELSE available_end
    /\ next_desc' = next_desc + 1
    /\ UNCHANGED <<firmware, range, pc, scan, blocks, heap>>

\* set_memory_range, then allocate is called for the heap.
InitializeRange ==
    /\ pc = "initialize" /\ next_desc > Len(memory_map)
    /\ range_begin' = 1 /\ range_end' = available_end
    /\ pc' = "allocate_heap"
    /\ num_frames' = HeapFrames /\ start' = 1 /\ i' = 0
    /\ UNCHANGED <<firmware, initializing, alloc_map, blocks, heap>>

\* A client calls allocate.
Allocate(n) ==
    /\ pc = "idle"
    /\ pc' = "allocate"
    /\ num_frames' = n /\ start' = range_begin /\ i' = 0
    /\ UNCHANGED <<firmware, initializing, alloc_map, range, blocks, heap>>

Allocating == pc \in {"allocate_heap", "allocate"}

\* The range ends before the run is long enough.
\* Mutant: off by one.
OutOfRangeLate == range_end < start + i

OutOfRange == range_end <= start + i

\* NoEnoughMemory is returned; without a heap the kernel panics.
AllocateFails ==
    /\ Allocating /\ i < num_frames /\ OutOfRange
    /\ pc' = IF pc = "allocate_heap" THEN "panic" ELSE "idle"
    /\ UNCHANGED <<firmware, initializing, alloc_map, range, scan, blocks, heap>>

\* Mutant: the bit of the frame before.
get_bit_off_by_one(f) == f - 1 \in alloc_map

get_bit(f) == f \in alloc_map

\* The next bit is 0: the run grows by one frame.
ScanFree ==
    /\ Allocating /\ i < num_frames /\ ~OutOfRange
    /\ ~get_bit(start + i)
    /\ i' = i + 1
    /\ UNCHANGED <<firmware, initializing, alloc_map, range, pc, num_frames, start, blocks, heap>>

\* Where the scan goes on when the bit of frame start + i is 1.
\* Mutant: the scan skips one frame more.
RestartTooFar == start + i + 2

Restart == start + i + 1

ScanAllocated ==
    /\ Allocating /\ i < num_frames /\ ~OutOfRange
    /\ get_bit(start + i)
    /\ start' = Restart
    /\ i' = 0
    /\ UNCHANGED <<firmware, initializing, alloc_map, range, pc, num_frames, blocks, heap>>

\* The run is long enough; initialize_heap sets up the break with it.
AllocateSucceeds ==
    /\ Allocating /\ i = num_frames
    /\ alloc_map' = mark_allocated(alloc_map, start, start + num_frames)
    /\ blocks' = blocks \cup {[start |-> start, pages |-> num_frames]}
    /\ pc' = "idle"
    /\ IF pc = "allocate_heap"
       THEN /\ program_break' = start * FrameBytes
            /\ program_break_end' = start * FrameBytes + HeapFrames * FrameBytes
       ELSE UNCHANGED heap
    /\ UNCHANGED <<firmware, initializing, range, scan>>

\* The heap is never given back.
IsHeap(b) == End(b) * FrameBytes = program_break_end

\* A client frees a block, with the number of frames that it had asked for.
Free(b) ==
    /\ pc = "idle" /\ b \in blocks /\ ~IsHeap(b)
    /\ alloc_map' = alloc_map \ Run(b.start, End(b))
    /\ blocks' = blocks \ {b}
    /\ UNCHANGED <<firmware, initializing, range, pc, scan, heap>>

\* sbrk refuses to move the break to its end or beyond.
\* Mutant: the present break is looked at, not the new one.
SbrkRefusesLate(incr) == program_break = 0 \/ program_break >= program_break_end

SbrkRefuses(incr) == program_break = 0 \/ program_break + incr >= program_break_end

\* malloc lowers the break by no more than it has raised it.
Sbrk(incr) ==
    /\ pc = "idle"
    /\ program_break + incr >= program_break_end - HeapFrames * FrameBytes
    /\ program_break' = IF SbrkRefuses(incr) THEN program_break ELSE program_break + incr
    /\ UNCHANGED <<firmware, initializing, alloc_map, range, pc, scan, blocks, program_break_end>>

-----------------------------------------------------------------------------

Next ==
    \/ InitializeDescriptor \/ InitializeRange
    \/ \E n \in Sizes : Allocate(n)
    \/ AllocateFails \/ ScanFree \/ ScanAllocated \/ AllocateSucceeds
    \/ \E b \in blocks : Free(b)
    \/ \E incr \in Increments : Sbrk(incr)

Spec == Init /\ [][Next]_vars

-----------------------------------------------------------------------------
(* Properties.                                                             *)

\* No index leaves the bitmap: every bit that is read or written is one of frame_count.
TypeOK ==
    /\ IsMemoryMap(memory_map)
    /\ next_desc \in 1..(Len(memory_map) + 1) /\ available_end \in 0..FrameCount
    /\ alloc_map \subseteq Frames
    /\ range_begin \in {0, 1} /\ range_end \in 0..FrameCount
    /\ pc \in {"initialize", "allocate_heap", "allocate", "idle", "panic"}
    /\ num_frames \in Nat /\ start \in Nat /\ i \in 0..num_frames
    /\ blocks \subseteq Blocks
    /\ program_break \in Nat /\ program_break_end \in Nat

\* The reference: the frames of the descriptors whose memory the kernel may use.
Available ==
    {f \in Frames : \E j \in 1..Len(memory_map) :
                        /\ is_available(memory_map[j].type)
                        /\ f \in Run(memory_map[j].start, End(memory_map[j]))}

Held(f) == \E b \in blocks : f \in Run(b.start, End(b))

\* What allocate hands out is memory that the map calls available, never frame 0, a
\* hole of the map or firmware and loader memory, and no frame has two owners.
BlocksSound ==
    /\ \A b \in blocks : Run(b.start, End(b)) \subseteq Available \ {0}
    /\ \A b, c \in blocks : b # c => Run(b.start, End(b)) \cap Run(c.start, End(c)) = {}

\* Once initialized, a usable frame is allocatable exactly when no caller holds it:
\* no available memory is lost to the marking of the memory map or by free, and the
\* range [range_begin, range_end) covers all of it.
FramesAccounted ==
    pc # "initialize" =>
        \A f \in Frames \ {0} :
            (f \in Run(range_begin, range_end) /\ f \notin alloc_map)
                <=> (f \in Available /\ ~Held(f))

\* A run of n frames that allocate could hand out.
Fits(s, n) ==
    /\ range_begin <= s /\ s + n <= range_end
    /\ Run(s, s + n) \cap alloc_map = {}

\* allocate is a first fit: although it jumps over the frames it has looked at, it
\* returns the lowest run that is free, and NoEnoughMemory only if there is none.
FirstFit ==
    [][Allocating /\ pc' # pc =>
          IF blocks' = blocks
          THEN \A s \in Run(range_begin, range_end) : ~Fits(s, num_frames)
          ELSE /\ blocks' = blocks \cup {[start |-> start, pages |-> num_frames]}
               /\ Fits(start, num_frames)
               /\ \A s \in Run(range_begin, start) : ~Fits(s, num_frames)]_vars

\* The memory below the break that sbrk has handed to malloc lies in a block of
\* frames that stays the heap's own.
HeapOwned ==
    pc \in {"idle", "allocate"} =>
        \E b \in blocks :
            /\ b.pages = HeapFrames
            /\ b.start * FrameBytes <= program_break
            /\ program_break <= End(b) * FrameBytes
            /\ program_break_end = End(b) * FrameBytes

=============================================================================
