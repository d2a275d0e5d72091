SPECIFICATION Spec
CONSTANTS
    kMaxSequenceNumber = 9
    kNumLevels = 4
    kL0_CompactionTrigger = 2
    kMaxMemCompactLevel = 1
    LevelOneLimit = 2
    MaxFileSize = 2
    GrandParentFactor = 1
    ExpandedFactor = 3
    Workloads <- Mixed
    WriteBuffer = 2
INVARIANTS LevelsDisjoint ReadsRight
CHECK_DEADLOCK FALSE
