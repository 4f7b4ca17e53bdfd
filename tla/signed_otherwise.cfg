\* Further counterexamples: an order is signed on another chain than it was given for, and pays
\* another address than the text that was given names.
SPECIFICATION FairSpec
CONSTANTS
    hot = hot
    user = user
    erc20 = erc20
    padded = padded
    one = one
    two = two
    biz = biz
    other = other
    c1 = c1
    c2 = c2
    c3 = c3
    Call <- MCCall
    Business <- MCBusiness
    Address <- MCAddress
    Malformed <- MCMalformed
    AddressOf <- MCAddressOf
    Chains <- MCChains
    Zero = Zero
    Native = Native
    Fees <- MCFees
    Junk = Junk
    Absent = Absent
    MaxUint256 = 1
    MaxAttempts = 2
    Faults = {}
    MaxFaults = 0
    Requests <- MCRequests
    SignTypes <- MCSignTypes
INVARIANTS
    SignedOnItsChain
    PaysWhomItNames
CHECK_DEADLOCK FALSE
