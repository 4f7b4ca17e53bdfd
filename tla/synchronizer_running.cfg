SPECIFICATION Spec
CONSTANTS
    Workers = 3
    Swallows <- MCSwallows
    Logs <- MCLogs
    MaxAttempts = 2
    MaxWork = 1
    MaxFaults = 0
INVARIANT
    SynchronizerStopped
CHECK_DEADLOCK FALSE
