SPECIFICATION Spec
CONSTANTS
    Components = {"heap", "pmm", "paging", "slab", "hashmap", "elf", "processes", "shm", "tree", "data", "path"}
    ArenaSize = 18
    Hdr = 2
    Align = 2
    UIntMod = 16
    SizeMod = 32
    Requests <- MCRequests
    FrameSize = 2
    MaxFrames = 9
    MaxRegions = 3
    MemoryMaps <- MCMaps
    LowEnd = 2
    KernelEnd = 3
    Modules <- MCModules
    FrameCounts = {0, 2, 3}
    TableFrames = {1, 2, 3, 4, 5}
    Fan = 2
    TopTable = 10
    VirtPages <- MCVirtPages
    DataFrames = {30}
    HugePath <- MCHugePath
    SlabObjects = {1, 2, 3}
    MaxSlabCalls = 4
    MapKeys = {"a", "b", "c", "d"}
    MapValues = {1, 2}
    HashOf <- MCHashOf
    BucketCount = 2
    EntryCapacity = 3
    Images <- MCImages
    HeaderSize = 2
    SegmentSize = 2
    AddrMod = 16
    t1 = t1
    t2 = t2
    Nil = Nil
    Threads <- MCThreads
    MaxPid = 3
    Codes = {0, 1}
    k1 = k1
    k2 = k2
    b1 = b1
    b2 = b2
    p1 = p1
    p2 = p2
    SegmentSlots = {0, 1}
    SegmentKeys <- MCKeys
    Blocks <- MCBlocks
    Callers <- MCCallers
    IdLimit = 4
    MaxId = 3
    MaxRefs = 4
    Names = {"a", "b", "dev", "klog", "L1", "L2"}
    LongNames = {"L1", "L2"}
    Cut = "L"
    TreePaths <- MCTreePaths
    DataPaths <- MCDataPaths
    Writes <- MCWrites
    Zero = "0"
    Junk = "junk"
    Sizes = {0, 1, 3}
    FarOffset = 31
    HugeSize = 17
    NULL = NULL
    DupTargets = {1, 3}
    MaxNodes = 5
    FD_TABLE_MAX = 5
    FirstCapacity = 1
    MaxCapacity = 3
    BlockMod = 16
    WordBits = 6
    PipeRoom = 2
    BootNodes <- MCBoot
    Archives <- MCArchives
    Chars = {"/", ".", "a"}
    MaxInput = 7
    OutputSize = 5
    NameMax = 3
CHECK_DEADLOCK FALSE
INVARIANTS
    HeapSound
    HeapExact
    PmmSound
    OnlyOrdinaryMemory
    TablesExact
    ProcessesSound
    FilesExact
PROPERTIES
    ImplementsAllocator
    FramesConserved
    NoLossyStep
