\* Further counterexample: the process stays up without a port.
SPECIFICATION FairSpec
CONSTANTS
    hot = hot
    user = user
    erc20 = erc20
    padded = padded
    one = one
    two = two
    biz = biz
    other = other
    c1 = c1
    c2 = c2
    c3 = c3
    Call <- MCCall
    Business <- MCBusiness
    Address <- MCAddress
    Malformed <- MCMalformed
    AddressOf <- MCAddressOf
    Chains <- MCChains
    Zero = Zero
    Native = Native
    Fees <- MCFees
    Junk = Junk
    Absent = Absent
    MaxUint256 = 1
    MaxAttempts = 2
    Faults = {"serve_error"}
    MaxFaults = 1
    Requests <- MCRequests
    SignTypes <- MCSignTypes
PROPERTIES
    PortLostEnds
CHECK_DEADLOCK FALSE
