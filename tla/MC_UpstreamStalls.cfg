CONSTANTS
    get = get
    post = post
    a1 = a1
    a2 = a2
    a3 = a3
    Unparsed = Unparsed
    Requests = {get}
    Idempotent = {get}
    Addrs = {a1, a2, a3}
    EndpointLists <- MCEndpointLists
    ConsecutiveFailures = 2
    SuccessesToRecover = 1
    BaseEjection = 1
    MaxEjection = 1
    MaxEjectedPercent = 50
    MaxAttempts = 2
    Watched = a1
    RequestMs = 1
    MaxTime = 2
    MaxSwaps = 0
SPECIFICATION Spec
INVARIANT
    FailuresEject
