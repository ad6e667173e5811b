CONSTANTS
    n1 = n1
    n2 = n2
    a1 = a1
    a2 = a2
    q1 = q1
    q2 = q2
    q3 = q3
    NoName = NoName
    Names = {}
    Addrs = {a1, a2}
    Requests <- MCRequests
    PairRules <- SignUpPairRules
    AddressRules <- SignUpAddressRules
    Limit <- SignUpLimit
    Window <- SignUpWindow
    Lock <- SignUpWindow
    FailClosed = TRUE
    OnDrop = "failed"
    Capacity = 3
    MaxLag = 1
    MaxTime = 6
SPECIFICATION ThrottleSpec
INVARIANTS
    PendingExact
    WithinCapacity
    ThrottleTypeOK
CHECK_DEADLOCK FALSE
PROPERTIES
    LiveFailuresKept
