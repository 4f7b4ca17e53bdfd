SPECIFICATION Spec
CONSTANTS
    None = None
    InitHeight = 4
    MaxHeight = 6
    MaxReorgs = 1
    MaxDepth = 3
    StartHeight = 1
    Confirmations = 1
    BlocksStep = 2
    BusinessHeights = {}
    BusinessBlocks <- MCBusinessBlocks
    Faults = {}
    MaxFaults = 0
PROPERTY
    DeletedIsOrphan
CHECK_DEADLOCK FALSE
