SPECIFICATION FairSpec
CONSTANTS
    None = None
    after = after
    timer = timer
    ticker = ticker
    Task = {after}
    Timer = {timer}
    Ticker = {ticker}
    Duration = {0, 1}
    MaxTime = 3
    LoopTicker = ticker
    Interval = 2
    MaxResets = 1
INVARIANTS
    NothingOverdue
    StopIsFinal
PROPERTIES
    CloseReturns
    AdvanceReturns
CHECK_DEADLOCK FALSE
