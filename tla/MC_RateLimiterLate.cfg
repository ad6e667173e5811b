CONSTANTS
    r1 = r1
    c1 = c1
    a1 = a1
    a2 = a2
    v1 = v1
    v2 = v2
    NoConsumer = NoConsumer
    NoLimit = NoLimit
    NoAddr = NoAddr
    Empty = Empty
    Rules = {r1}
    Limits <- MCLimits
    Consumers = {c1}
    OwnLimit <- MCOwnLimit
    Addrs = {a1, a2}
    Grouped <- MCGrouped
    Values = {v1, v2}
    Requests <- MCRequests
    Watched <- MCWatched
    SweepFloor = 1
    HeaderWindows = 1
    CappedSweepMs = 2
    MaxLag = 1
    MaxTime = 3
    MaxBack = 0
    MaxReloads = 0
SPECIFICATION Spec
PROPERTY
    LiveWindowsKept
