SPECIFICATION Spec
CONSTANTS
    None = None
    InitHeight = 3
    MaxHeight = 5
    MaxReorgs = 2
    MaxDepth = 3
    StartHeight = 1
    Confirmations = 1
    BlocksStep = 1
    BusinessHeights = {}
    BusinessBlocks <- MCBusinessBlocks
    Faults = {}
    MaxFaults = 0
INVARIANT
    FlagKeepsHeader
CHECK_DEADLOCK FALSE
