SPECIFICATION Spec
CONSTANTS
    None = None
    NoRow = NoRow
    b1 = b1
    b2 = b2
    user = user
    hot = hot
    outside = outside
    Business = {b1, b2}
    Account = {user, hot, outside}
    InitHeight = 3
    MaxHeight = 5
    MaxReorgs = 2
    MaxDepth = 2
    Confirmations = 1
    Content <- MCContent
    Faults = {"rpc_error", "db_error", "lost_ack", "notify_error", "crash"}
    MaxFaults = 0

PROPERTIES
    RollbackIsComplete
CHECK_DEADLOCK FALSE
