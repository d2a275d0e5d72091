SPECIFICATION FairSpec
CONSTANTS
    kMaxSequenceNumber = 20
    kNumLevels = 3
    kL0_CompactionTrigger = 2
    kMaxMemCompactLevel = 1
    LevelOneLimit = 2
    MaxFileSize = 2
    GrandParentFactor = 1
    ExpandedFactor = 3
    Threads = {w1, w2}
    Readers = {r1}
    Scenarios <- Main
    WriteBuffer = 1
    kL0_StopWritesTrigger = 2
INVARIANTS ReadsRight Recoverable PinnedTablesExist
PROPERTIES TablesImmutable KeepsPromises WritersReturn
CHECK_DEADLOCK FALSE
