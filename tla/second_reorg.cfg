SPECIFICATION Spec
CONSTANTS
    None = None
    InitHeight = 5
    MaxHeight = 6
    MaxReorgs = 2
    MaxDepth = 3
    StartHeight = 1
    Confirmations = 1
    BlocksStep = 1
    BusinessHeights = {}
    BusinessBlocks <- MCBusinessBlocks
    Faults = {}
    MaxFaults = 0
INVARIANT
    BackupFits
CHECK_DEADLOCK FALSE
