SPECIFICATION MCSpec
CONSTANTS
    Reqs = {r1, r2}
    Attempts = 3
    Names = {"a", "c"}
    MaxIds = 3
    MaxChecks = 1
    MaxWaiting = 1
    Lifetime = 2
    Loads <- MCLoads
    Replicas = {1, 2}
CHECK_DEADLOCK FALSE
INVARIANTS
    WrittenWithRight
    SessionOfCurrentPassword
    ClosedStaysClosed
    SchemaAsDesigned
PROPERTIES
    SuperuserRemains
    EveryRequestAnswered
    ReplicasStart
