SPECIFICATION FairSpec
CONSTANTS
    Workers = 3
    Swallows <- MCSwallows
    Logs <- MCLogs
    MaxAttempts = 2
    MaxWork = 2
    MaxFaults = 1
INVARIANTS
    LossIsReported
PROPERTIES
    StoppedIsQuiet
    StoppedForAReason
    InterruptEnds
    PanicEnds
CHECK_DEADLOCK FALSE
