SPECIFICATION MCSpec
CONSTANTS
    MaxOrder = 3
    Windows <- MCWindows
    NBins = 2
    MaxObjects = 2
    Frame <- MCFrame
    NSpace = 2
    Image <- MCImage
    Tramp <- MCTramp
    Heap <- MCHeap
    RamSizes = {16, 64, 104, 128}
    FbSizes = {0, 1, 2}
    KernelEnd = 2
    MaxCpus = 5
    Populations <- MCPopulations
INVARIANTS Partition BitsMatch CanServe HeapDisjoint Isolation  HeapBacked
    SmallRamSound StartedHasIdle OwnSlot OnlineExact
CHECK_DEADLOCK FALSE
