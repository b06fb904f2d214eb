SPECIFICATION MemorySpec
CONSTANTS
    AS = {a1, a2}
    Frame = {f1, f2, f3}
    Value = {zero, dirty, page0, page1}
    dirty = dirty
    page0 = page0
    page1 = page1
    Zero = zero
    Image = {0}
    HeapBase = 1
    HeapMax = 3
    MmapBase = 3
    MmapMax = 4
    FileData <- MCFileData
    CacheSlots = 1
    MaxThreads = 2
    TlbSize = 1
    Written = {dirty}
    Retries = FALSE
    None = None
    HeapSize = 8
    MaxBrk = 12
    GrowBy = 4
    Wants = {2, 3, 5}
VIEW View
SYMMETRY Symmetry
INVARIANTS FramesExact TlbSound HeapsSound
PROPERTY ImplementsPrivateMemory
CHECK_DEADLOCK FALSE
