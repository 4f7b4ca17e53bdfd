\* Further counterexample: the process ends without an error although a worker panicked between
\* what it did and its record.
SPECIFICATION Spec
CONSTANTS
    Workers = 3
    Swallows <- MCSwallows
    Logs <- MCLogs
    MaxAttempts = 2
    MaxWork = 2
    MaxFaults = 1
INVARIANTS
    NothingLost
CHECK_DEADLOCK FALSE
