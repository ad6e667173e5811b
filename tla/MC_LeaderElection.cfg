CONSTANTS
    r1 = r1
    r2 = r2
    NoOne = NoOne
    Replicas <- MCReplicas
    LeaseSecs = 4
    RenewEvery = 2
    Skew = 1
    MaxTime = 7
    MaxReplicaRestarts = 1
    MaxLate = 1
SPECIFICATION LeaderSpec
SYMMETRY ReplicaSymmetry
CHECK_DEADLOCK FALSE
INVARIANTS
    AtMostOneLeader
PROPERTIES
    TakenOnlyExpired
