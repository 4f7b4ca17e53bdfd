SPECIFICATION Spec
CONSTANTS
    None = None
    InitHeight = 3
    MaxHeight = 5
    MaxReorgs = 1
    MaxDepth = 3
    StartHeight = 1
    Confirmations = 1
    BlocksStep = 2
    BusinessHeights = {2,3}
    BusinessBlocks <- MCBusinessBlocks
    Faults = {}
    MaxFaults = 0
INVARIANT
    RecordedFromItsBlock
    PushedBeforeStored
CHECK_DEADLOCK FALSE
