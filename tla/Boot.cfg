\* Seven frames of two bytes, kernels of one to three frames, a heap of two frames and
\* clients that ask for one or two. The loader halts when a call fails, and the kernel
\* without a heap.
SPECIFICATION BootSpec
CONSTANTS
    FrameCount <- MCFrameCount
    FrameBytes = 2
    Layouts <- MCLayouts
    Kernels <- MCKernels
    EntryOffset = 1
    MaxEvents = 1
    MemoryMaps <- MCMemoryMaps
    HeapFrames = 2
    Sizes = {1, 2}
    Increments <- MCIncrements
INVARIANTS
    TypeOK
    BlocksSound
    FramesAccounted
    HeapOwned
    ImageLoaded
    HandedMapCurrent
    KernelKept
PROPERTIES
    FirstFit
CHECK_DEADLOCK FALSE
