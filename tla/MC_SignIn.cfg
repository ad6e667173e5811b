CONSTANTS
    n1 = n1
    n2 = n2
    a1 = a1
    a2 = a2
    q1 = q1
    q2 = q2
    q3 = q3
    NoName = NoName
    Names = {n1, n2}
    Addrs = {a1}
    Requests <- MCRequests
    PairRules <- SignInPairRules
    AddressRules <- SignInAddressRules
    Limit <- SignInLimit
    Window <- SignInWindow
    Lock <- SignInWindow
    FailClosed = FALSE
    OnDrop = "refunded"
    Capacity = 2
    MaxLag = 1
    MaxTime = 6
SPECIFICATION ThrottleSpec
SYMMETRY RequestSymmetry
CHECK_DEADLOCK FALSE
INVARIANTS
    PendingExact
    WithinLimit
PROPERTIES
    LocksStand
