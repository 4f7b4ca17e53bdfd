\* A withdrawal and an internal transfer of one address, built signed up to
\* twice, with every kind of failure.
SPECIFICATION FairSpec
CONSTANTS
    None = None
    Withdrawals = {w1}
    Internals = {i1}
    Address = {hot}
    From <- MCFrom
    MaxSignings = 2
    Faults = {"rpc_error", "rpc_lost", "code_error", "db_error", "lost_ack", "notify_error", "crash"}
    MaxFaults = 1
INVARIANTS
    PaidOnce
    NotifiedIsPosted
PROPERTIES
    DoneStaysDone
    SignedIsSent
    DoneIsReported
    ImplementsPayments
CHECK_DEADLOCK FALSE
