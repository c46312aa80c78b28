------------------------------- MODULE MCBoot -------------------------------
(* Boot for TLC: seven frames of two bytes, all free but at most two that are *)
(* reserved or holes, and four kernels.                                      *)
EXTENDS Boot

MCFrameCount == 7
MCTypes == {"EfiConventionalMemory", "EfiReservedMemoryType", Hole}
MCLayouts ==
    {types \in [0..(MCFrameCount - 1) -> MCTypes] :
        Cardinality({f \in DOMAIN types : types[f] # "EfiConventionalMemory"}) <= 2}

Phdr(load, vaddr, filesz, memsz, offset) ==
    [load |-> load, vaddr |-> vaddr, filesz |-> filesz, memsz |-> memsz, offset |-> offset]

\* Text, a header that is not loaded and zeroes up to the middle of a page; a part that
\* begins in the middle of a page after the one that is behind it; a single page; a start that is none
\* of a page, which the firmware refuses.
MCKernels == {<<Phdr(TRUE, 4, 2, 2, 0), Phdr(FALSE, 0, 0, 9, 0), Phdr(TRUE, 6, 0, 1, 3)>>,
              <<Phdr(TRUE, 5, 1, 1, 4), Phdr(TRUE, 2, 2, 3, 0)>>,
              <<Phdr(TRUE, 2, 2, 2, 0)>>, <<Phdr(TRUE, 3, 2, 2, 0)>>}

\* The maps that the loader may find
MCMemoryMaps == {DescribedBy(types) : types \in MCLayouts}
MCIncrements == {-2, 1, 3}
=============================================================================
