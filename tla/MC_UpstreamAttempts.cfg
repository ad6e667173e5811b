CONSTANTS
    get = get
    post = post
    a1 = a1
    a2 = a2
    a3 = a3
    Unparsed = Unparsed
    Requests = {get, post}
    Idempotent = {get}
    Addrs = {a1, a2, a3}
    EndpointLists <- MCEndpointLists
    ConsecutiveFailures = 2
    SuccessesToRecover = 1
    BaseEjection = 1
    MaxEjection = 1
    MaxEjectedPercent = 50
    MaxAttempts = 2
    Watched = a3
    RequestMs = 1
    MaxTime = 2
    MaxSwaps = 2
SPECIFICATION Spec
INVARIANTS
    RecordsFollowAddresses
PROPERTIES
    EjectionUndisturbed
