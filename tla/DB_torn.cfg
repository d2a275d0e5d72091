SPECIFICATION Spec
CONSTANTS
    kMaxSequenceNumber = 20
    kNumLevels = 3
    kL0_CompactionTrigger = 2
    kMaxMemCompactLevel = 1
    LevelOneLimit = 2
    MaxFileSize = 2
    GrandParentFactor = 1
    ExpandedFactor = 3
    Threads = {w1, w2}
    Readers = {r1}
    Scenarios <- Torn
    WriteBuffer = 1
    kL0_StopWritesTrigger = 2
INVARIANT Durable
CHECK_DEADLOCK FALSE
