\* Three calls, which may overlap, one failure of any kind; NewDB is tried twice.
SPECIFICATION FairSpec
CONSTANTS
    hot = hot
    user = user
    erc20 = erc20
    padded = padded
    one = one
    two = two
    biz = biz
    other = other
    c1 = c1
    c2 = c2
    c3 = c3
    Call <- MCCall
    Business <- MCBusiness
    Address <- MCAddress
    Malformed <- MCMalformed
    AddressOf <- MCAddressOf
    Chains <- MCChains
    Zero = Zero
    Native = Native
    Fees <- MCFees
    Junk = Junk
    Absent = Absent
    MaxUint256 = 1
    MaxAttempts = 2
    Faults = {"db_error", "lost_ack", "rpc_error", "code_error", "panic", "listen_error", "serve_error",
              "stop"}
    MaxFaults = 1
    Requests <- MCRequests
    SignTypes <- MCSignTypes
INVARIANTS
    SignedAsOrdered
    AnsweredIsStored
    SignedIsHeld
PROPERTIES
    SignedByItsCall
    CutByStopOnly
    CallsEnd
CHECK_DEADLOCK FALSE
