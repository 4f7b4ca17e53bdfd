SPECIFICATION FairSpec
CONSTANTS
    None = None
    InitHeight = 3
    MaxHeight = 5
    MaxReorgs = 2
    MaxDepth = 3
    StartHeight = 1
    Confirmations = 1
    BlocksStep = 2
    BusinessHeights = {2, 3, 4}
    BusinessBlocks <- MCBusinessBlocks
    Faults = {"rpc_error", "code_error", "db_error", "lost_ack", "crash"}
    MaxFaults = 1
INVARIANTS
    RecordedIsKnown
    RecordedOncePerStore
PROPERTY
    FallbackServed
CHECK_DEADLOCK FALSE
