-------------------------------- MODULE Boot --------------------------------
(***************************************************************************)
(* The boot loader hands its memory map to the kernel, whose frame         *)
(* allocator then lives in the memory that the loader and the firmware     *)
(* have left (kernel_main).                                                *)
(***************************************************************************)
EXTENDS Loader, FrameAllocator

boot_vars == <<loader_vars, vars>>

BootInit == LoaderInit /\ memory_map = <<>> /\ InitManager

\* entry_point(config, &memmap): kernel_main copies the map's description.
HandOver ==
    /\ EnterKernel
    /\ memory_map' = memmap
    /\ UNCHANGED <<initializing, alloc_map, range, pc, scan, blocks, heap>>

Kernel == loader_pc = "entered" /\ Next /\ UNCHANGED loader_vars

BootNext ==
    \/ (FirmwareEvent \/ LoaderStep) /\ UNCHANGED vars
    \/ HandOver
    \/ Kernel

BootSpec == BootInit /\ [][BootNext]_boot_vars

-----------------------------------------------------------------------------
(* Properties                                                               *)

\* The kernel gets the memory map as it is when the firmware goes away, not one that
\* an allocation of the loader or of the firmware has outdated in between
\* (ExitBootServices of LoadKernel.c).
HandedMapCurrent == loader_pc = "entered" => memory_map = DescribedBy(layout)

\* Whatever the loader has written for the kernel is in pages that it had allocated and
\* that stay loader data, and the allocator never hands out one of those frames
\* (num_pages of LoadKernel, is_available and initialize_memory_manager).
KernelKept ==
    \A a \in Bytes : memory[a] # Other =>
        LET frame == a \div FrameBytes
        IN  layout[frame] = "EfiLoaderData" /\ ~Held(frame)
=============================================================================
