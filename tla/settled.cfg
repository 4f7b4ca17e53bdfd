\* Reorganisations no deeper than the confirmations, with crashes and errors.
SPECIFICATION FairSpec
CONSTANTS
    None = None
    InitHeight = 2
    MaxHeight = 6
    MaxReorgs = 2
    MaxDepth = 1
    StartHeight = 1
    Confirmations = 1
    BlocksStep = 2
    BusinessHeights = {2, 4, 5}
    BusinessBlocks <- MCBusinessBlocks
    Faults = {"rpc_error", "db_error", "crash", "finder_error"}
    MaxFaults = 2
INVARIANTS
    CanonicalStore
    NeverFallback
PROPERTY
    ReadsConfirmedChain
    CaughtUp
    TakenIsRecorded
CHECK_DEADLOCK FALSE
