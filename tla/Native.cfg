INIT MCInit
NEXT MCNext
CONSTANTS
    kBlockSize = 7
    kHeaderSize = 3
    Sizes = {0, 1, 3, 6}
    MaxRecords = 3
    MaxByte = 3
    MaxSequence = 5
    block_size = 12
    restart_interval = 2
    kFilterBase = 8
    Stores <- MCStores
    Keys = {1, 2, 3}
    Infinity = 4
    kMaxHeight = 2
    Iters = {i1}
    CacheHandles = {h1, h2, h3, h4}
    TableReaders = {r1, r2}
    FileNumbers = {1, 2, 3}
    CacheSizes = {0, 1}
    WorkItems = 4
    EnvThreads = {t1, t2, t3}
    Limits <- MCLimits
    BufferSize = 2
    MaxBytes = 5
    Processes = {p1, p2}
    LockTries = 3
    Schemas <- MCSchemas
    MaxMessages = 2
INVARIANTS LogReadsBack IteratorAgrees TablesSound SearchesSound TableHandlesSound EnvSound MessagesSound
CHECK_DEADLOCK FALSE
