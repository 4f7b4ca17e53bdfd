\* One withdrawal and no failure at all.
SPECIFICATION FairSpec
CONSTANTS
    None = None
    Withdrawals = {w1}
    Internals = {}
    Address = {hot}
    From <- MCFrom
    MaxSignings = 1
    Faults = {}
    MaxFaults = 0
PROPERTY
    PaidIsDone
CHECK_DEADLOCK FALSE
