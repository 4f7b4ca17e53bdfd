SPECIFICATION FairSpec
CONSTANTS
    Absent = Absent
    b1 = b1
    b2 = b2
    a1 = a1
    a2 = a2
    outside = outside
    Business = {b1, b2}
    Address = {a1, a2, outside}
    Batches <- MCBatches
    Zero = outside
    MaxBlocks = 1
    MaxExports = 2
    Faults = {"create_error", "lost_ack", "rpc_error", "lookup_error", "scan_error", "crash"}
    MaxFaults = 2
INVARIANTS
    BatchIsServed
    AnsweredIsStored
    ClassifiedAsMined
PROPERTIES
    KnownIsNotified
CHECK_DEADLOCK FALSE
