------------------------------- MODULE Loader -------------------------------
(***************************************************************************)
(* The boot loader: UefiMain (MikanLoaderPkg/Main.c) and LoadKernel        *)
(* (MikanLoaderPkg/LoadKernel.c), on a firmware that goes on allocating    *)
(* memory for itself until ExitBootServices.                               *)
(*                                                                         *)
(* A byte of kernel.elf is named by its offset in the file, so the memory  *)
(* holds such offsets, Zero, or Other: whatever was there before.          *)
(***************************************************************************)
EXTENDS MemoryMap, FiniteSetsExt, SequencesExt

CONSTANTS
    Layouts,      \* what the frames are used for when the loader is started
    Kernels,      \* program headers of the kernels that may be on the disk
    EntryOffset,  \* where e_entry is in the file, 24 in the code
    MaxEvents     \* bound: how often the firmware allocates for itself meanwhile

\* A frame that no descriptor speaks of
Hole == "Hole"
Zero == -1
Other == -2

Bytes == 0..(FrameCount * FrameBytes - 1)

\* linker.ld puts the headers of the file, with e_entry, in front of the first segment;
\* the segments that are loaded do not overlap.
IsKernel(k) ==
    /\ k \in Seq([load : BOOLEAN, vaddr : Nat, filesz : Nat, memsz : Nat, offset : Nat])
    /\ \A s \in Range(k) : s.filesz <= s.memsz /\ s.vaddr + s.memsz <= FrameCount * FrameBytes
    /\ \E s \in Range(k) : /\ s.load /\ s.offset = 0 /\ EntryOffset < s.filesz
                           /\ \A t \in Range(k) : t.load => s.vaddr <= t.vaddr
    /\ \A m, n \in DOMAIN k :
          m < n /\ k[m].load /\ k[n].load => \/ k[m].vaddr + k[m].memsz <= k[n].vaddr
                                             \/ k[n].vaddr + k[n].memsz <= k[m].vaddr

ASSUME LayoutsAssumption == Layouts \subseteq [Frames -> MemoryTypes \cup {Hole}]
ASSUME KernelsAssumption == EntryOffset \in Nat /\ \A k \in Kernels : IsKernel(k)
ASSUME EventsAssumption == MaxEvents \in Nat

VARIABLES
    loader_pc,    \* the call that comes next; "halted" and "entered" are the ends
    layout,       \* what the firmware uses the frames for
    key_current,  \* map_key of the last GetMemoryMap is still valid
    memmap,       \* what the last GetMemoryMap returned
    kernel,       \* the program headers of kernel.elf
    pool,         \* the frames that the firmware took for kernel_buffer
    phdr,         \* the next one in CopyLoadSegments
    memory,       \* the contents of the bytes
    events        \* how often the firmware may still allocate

loader_vars == <<loader_pc, layout, key_current, memmap, kernel, pool, phdr, memory, events>>

LoaderInit ==
    /\ loader_pc = "get_memory_map"
    /\ layout \in Layouts /\ kernel \in Kernels
    /\ key_current = FALSE /\ memmap = <<>>
    /\ pool = {} /\ phdr = 1 /\ memory = [a \in Bytes |-> Other]
    /\ events = MaxEvents

-----------------------------------------------------------------------------
(* The firmware                                                             *)

\* GetMemoryMap describes each run of frames of one type, in ascending order.
DescribedBy(types) ==
    LET IsRun(first, end) ==
            /\ \A f \in Run(first, end) : types[f] = types[first] /\ types[first] # Hole
            /\ first > 0 => types[first - 1] # types[first]
            /\ end < FrameCount => types[end] # types[first]
        runs == {r \in Frames \X (1..FrameCount) : r[1] < r[2] /\ IsRun(r[1], r[2])}
        Nth(j) == CHOOSE r \in runs : Cardinality({s \in runs : s[1] <= r[1]}) = j
    IN  [j \in 1..Cardinality(runs) |-> [type |-> types[Nth(j)[1]], start |-> Nth(j)[1],
                                        pages |-> Nth(j)[2] - Nth(j)[1]]]

GetMemoryMap == memmap' = DescribedBy(layout) /\ key_current' = TRUE

Conventional == {f \in Frames : layout[f] = "EfiConventionalMemory"}

Convert(frames, type) ==
    /\ layout' = [f \in Frames |-> IF f \in frames THEN type ELSE layout[f]]
    /\ key_current' = FALSE

BootServices == loader_pc \notin {"read_entry", "entered"}

\* A timer or a driver of the firmware allocates memory between two calls of the loader.
FirmwareEvent ==
    /\ BootServices /\ loader_pc # "halted" /\ events > 0
    /\ events' = events - 1
    /\ \E f \in Conventional : Convert({f}, "EfiBootServicesData")
    /\ UNCHANGED <<loader_pc, memmap, kernel, pool, phdr, memory>>

-----------------------------------------------------------------------------
(* The loader.  Every error but that of opening \memmap leads to Halt.      *)

\* The calls of UefiMain that only fetch or store something, each with what comes
\* after it: OpenRootDir, SaveMemoryMap, Close, OpenGOP, the switch over the pixel format
Following == [open_root_dir |-> "open_memmap", save_memory_map |-> "close_memmap",
              close_memmap |-> "open_gop", open_gop |-> "pixel_format",
              pixel_format |-> "open_kernel"]

\* Those of LoadKernel: Open, GetInfo and, after AllocatePool, Read
LoadFollowing == [open_kernel |-> "get_info", get_info |-> "allocate_pool",
                  read |-> "allocate_pages"]

Call(following) ==
    /\ loader_pc \in DOMAIN following
    /\ loader_pc' \in {following[loader_pc], "halted"}
    /\ UNCHANGED <<layout, key_current, memmap, kernel, pool, phdr, memory, events>>

\* Writing the memory map to a file is skipped if there can be none.
OpenMemmap ==
    /\ loader_pc = "open_memmap"
    /\ loader_pc' \in {"save_memory_map", "open_gop"}
    /\ UNCHANGED <<layout, key_current, memmap, kernel, pool, phdr, memory, events>>

\* Calls that change more than the place in the program halt it when they fail.
Fails ==
    /\ loader_pc \in {"get_memory_map", "allocate_pool", "free_pool", "exit_memory_map"}
    /\ loader_pc' = "halted"
    /\ UNCHANGED <<layout, key_current, memmap, kernel, pool, phdr, memory, events>>

\* The map of UefiMain, for the file
FirstMemoryMap ==
    /\ loader_pc = "get_memory_map" /\ loader_pc' = "open_root_dir"
    /\ GetMemoryMap
    /\ UNCHANGED <<layout, kernel, pool, phdr, memory, events>>

\* kernel_buffer is in memory that the firmware has already, or has to take a page for.
AllocatePool ==
    /\ loader_pc = "allocate_pool" /\ loader_pc' = "read"
    /\ \/ UNCHANGED <<layout, key_current, pool>>
       \/ \E f \in Conventional : Convert({f}, "EfiLoaderData") /\ pool' = {f}
    /\ UNCHANGED <<memmap, kernel, phdr, memory, events>>

Loads == {s \in Range(kernel) : s.load}

\* CalcLoadAddressRange
kernel_first_addr == Min({s.vaddr : s \in Loads})
kernel_last_addr == Max({s.vaddr + s.memsz : s \in Loads})

\* Mutant: the last page is forgotten.
num_pages_down == (kernel_last_addr - kernel_first_addr) \div FrameBytes

num_pages == (kernel_last_addr - kernel_first_addr + FrameBytes - 1) \div FrameBytes

KernelFrames ==
    LET first == kernel_first_addr \div FrameBytes IN Run(first, first + num_pages)

\* AllocatePages at an address succeeds if it is one of a page and the pages are free.
AllocatePages ==
    /\ loader_pc = "allocate_pages"
    /\ IF kernel_first_addr % FrameBytes = 0 /\ KernelFrames \subseteq Conventional
       THEN loader_pc' = "copy" /\ Convert(KernelFrames, "EfiLoaderData")
       ELSE loader_pc' = "halted" /\ UNCHANGED <<layout, key_current>>
    /\ UNCHANGED <<memmap, kernel, pool, phdr, memory, events>>

\* Mutant: bytes that are not in the file are not set.
LoadedNoZero(s, a) == IF a \in s.vaddr..(s.vaddr + s.filesz - 1) THEN s.offset + (a - s.vaddr)
                      ELSE memory[a]

\* What is at address a when segment s has been loaded
Loaded(s, a) == IF a \in s.vaddr..(s.vaddr + s.filesz - 1) THEN s.offset + (a - s.vaddr)
                ELSE IF a \in (s.vaddr + s.filesz)..(s.vaddr + s.memsz - 1) THEN Zero
                ELSE memory[a]

\* One round of CopyLoadSegments
CopyLoadSegment ==
    /\ loader_pc = "copy"
    /\ phdr' = phdr + 1
    /\ memory' = IF kernel[phdr].load THEN [a \in Bytes |-> Loaded(kernel[phdr], a)] ELSE memory
    /\ loader_pc' = IF phdr = Len(kernel) THEN "free_pool" ELSE "copy"
    /\ UNCHANGED <<layout, key_current, memmap, kernel, pool, events>>

\* The firmware takes the page back or keeps it.
FreePool ==
    /\ loader_pc = "free_pool" /\ loader_pc' = "exit_memory_map"
    /\ pool' = {}
    /\ \/ UNCHANGED <<layout, key_current>>
       \/ pool # {} /\ Convert(pool, "EfiConventionalMemory")
    /\ UNCHANGED <<memmap, kernel, phdr, memory, events>>

\* ExitBootServices begins with a memory map of its own, the one the kernel gets.
ExitMemoryMap ==
    /\ loader_pc = "exit_memory_map" /\ loader_pc' = "exit_boot_services"
    /\ GetMemoryMap
    /\ UNCHANGED <<layout, kernel, pool, phdr, memory, events>>

\* Mutant: the status is not looked at.
ExitsAnyway == TRUE

\* The firmware goes away only if the caller knows its memory map.
Exits == key_current

ExitBootServices ==
    /\ loader_pc = "exit_boot_services"
    /\ loader_pc' = IF Exits THEN "read_entry" ELSE "halted"
    /\ UNCHANGED <<layout, key_current, memmap, kernel, pool, phdr, memory, events>>

LoaderStep ==
    \/ Call(Following) \/ Call(LoadFollowing) \/ OpenMemmap \/ Fails \/ FirstMemoryMap \/ AllocatePool \/ AllocatePages
    \/ CopyLoadSegment \/ FreePool \/ ExitMemoryMap \/ ExitBootServices

\* e_entry as it is read from the image
entry_addr == memory[kernel_first_addr + EntryOffset]

\* The call of entry_point; the kernel is another module's matter.
EnterKernel ==
    /\ loader_pc = "read_entry" /\ loader_pc' = "entered"
    /\ UNCHANGED <<layout, key_current, memmap, kernel, pool, phdr, memory, events>>

-----------------------------------------------------------------------------
(* Properties                                                               *)

\* When the kernel is entered, every byte of its segments is what the file says, or 0
\* behind the part that is in the file, and the word that is jumped to is e_entry
\* (CopyLoadSegments, entry_addr of LoadKernel).
ImageLoaded ==
    loader_pc \in {"read_entry", "entered"} =>
        /\ entry_addr = EntryOffset
        /\ \A s \in Loads : \A n \in 0..(s.memsz - 1) :
              memory[s.vaddr + n] = IF n < s.filesz THEN s.offset + n ELSE Zero
=============================================================================
