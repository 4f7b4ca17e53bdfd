SPECIFICATION Spec
CONSTANTS
    None = None
    NoRow = NoRow
    b1 = b1
    b2 = b2
    user = user
    hot = hot
    outside = outside
    Business = {b1}
    Account = {user, hot, outside}
    InitHeight = 3
    MaxHeight = 6
    MaxReorgs = 3
    MaxDepth = 2
    Confirmations = 1
    Content <- MCOnePerBlock
    Faults = {"rpc_error", "db_error", "lost_ack", "notify_error", "crash"}
    MaxFaults = 1
INVARIANTS
    DepositsMatchFlow
PROPERTIES
    RollbackKeepsBooks
CHECK_DEADLOCK FALSE
