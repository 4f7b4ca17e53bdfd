SPECIFICATION Spec
CONSTANTS
    Absent = Absent
    b1 = b1
    b2 = b2
    a1 = a1
    a2 = a2
    outside = outside
    Business = {b1, b2}
    Address = {a1, a2, outside}
    Batches <- MCBatches
    Zero = outside
    MaxBlocks = 1
    MaxExports = 2
    Faults = {"create_error", "lost_ack", "scan_error", "crash"}
    MaxFaults = 1
INVARIANTS
    SuccessHasTables
CHECK_DEADLOCK FALSE
