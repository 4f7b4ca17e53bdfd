\* Two orders of one address and no failure at all.
SPECIFICATION Spec
CONSTANTS
    None = None
    Withdrawals = {w1}
    Internals = {i1}
    Address = {hot}
    From <- MCFrom
    MaxSignings = 1
    Faults = {}
    MaxFaults = 0
INVARIANT
    SignedAsRequested
CHECK_DEADLOCK FALSE
