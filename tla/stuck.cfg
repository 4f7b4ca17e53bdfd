SPECIFICATION FairSpec
CONSTANTS
    None = None
    InitHeight = 5
    MaxHeight = 6
    MaxReorgs = 1
    MaxDepth = 3
    StartHeight = 1
    Confirmations = 1
    BlocksStep = 1
    BusinessHeights = {}
    BusinessBlocks <- MCBusinessBlocks
    Faults = {}
    MaxFaults = 0
PROPERTY
    CaughtUp
CHECK_DEADLOCK FALSE
