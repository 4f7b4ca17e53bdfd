\* One withdrawal and one error code of the node.
SPECIFICATION Spec
CONSTANTS
    None = None
    Withdrawals = {w1}
    Internals = {}
    Address = {hot}
    From <- MCFrom
    MaxSignings = 1
    Faults = {"code_error"}
    MaxFaults = 1
INVARIANT
    BroadcastedIsSent
CHECK_DEADLOCK FALSE
