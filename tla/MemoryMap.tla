----------------------------- MODULE MemoryMap ------------------------------
(***************************************************************************)
(* The UEFI memory map that the boot loader hands to the kernel            *)
(* (kernel/memory_map.hpp).                                                *)
(*                                                                         *)
(* Addresses of the memory map are counted in frames: UEFI pages and       *)
(* frames are both 4096 bytes, so every division in the code is exact.     *)
(***************************************************************************)
EXTENDS Integers, Sequences

CONSTANTS
    FrameCount,   \* frame_count: the frames that alloc_map_ has a bit for
    FrameBytes    \* bytes_per_frame, and the size of a UEFI page

MemoryTypes == {"EfiReservedMemoryType", "EfiLoaderCode", "EfiLoaderData",
                "EfiBootServicesCode", "EfiBootServicesData", "EfiRuntimeServicesCode",
                "EfiRuntimeServicesData", "EfiConventionalMemory", "EfiUnusableMemory",
                "EfiACPIReclaimMemory", "EfiACPIMemoryNVS", "EfiMemoryMappedIO",
                "EfiMemoryMappedIOPortSpace", "EfiPalCode", "EfiPersistentMemory"}

Frames == 0..(FrameCount - 1)

Descriptors == [type : MemoryTypes, start : Nat, pages : Nat]

\* The frame behind a descriptor or a block.
End(d) == d.start + d.pages

\* The descriptors are sorted, do not overlap and end within alloc_map_.
IsMemoryMap(m) ==
    /\ m \in Seq(Descriptors)
    /\ \A j \in 1..Len(m) : End(m[j]) <= FrameCount
    /\ \A j, k \in 1..Len(m) : j < k => End(m[j]) <= m[k].start

\* The frames from first on, up to the one before end.
Run(first, end) == first..(end - 1)
=============================================================================
