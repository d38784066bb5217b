SPECIFICATION SrvSpec
CONSTANTS
    Conns = {1, 2}
    Files <- MCFiles
    Size <- MCSize
    Wishes <- MCWishes
    Settings <- MCSettings
    MaxPipeline = 1
    Block = 2
    HighWater = 3
    Burst = 4
INVARIANTS ResponsesExact ServerNeverAborts DeletedOnce
PROPERTIES AllAnswered
CHECK_DEADLOCK FALSE
