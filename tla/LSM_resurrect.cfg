SPECIFICATION Spec
CONSTANTS
    kMaxSequenceNumber = 9
    kNumLevels = 3
    kL0_CompactionTrigger = 2
    kMaxMemCompactLevel = 1
    LevelOneLimit = 2
    MaxFileSize = 2
    GrandParentFactor = 1
    ExpandedFactor = 3
    Workloads <- Deleting
    WriteBuffer = 2
INVARIANT ReadsRight
CHECK_DEADLOCK FALSE
