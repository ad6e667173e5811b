SPECIFICATION Spec
CONSTANTS
    g1 = g1
    g2 = g2
    pol = pol
    d1 = d1
    d2 = d2
    odd = odd
    poisoned = poisoned
    Absent = Absent
    Kinds = {"gateway", "policy"}
    Objects = {g1, g2, pol}
    KindOf <- MCKindOf
    Docs = {d1, d2, odd, poisoned}
    Usable = {d1, d2, poisoned}
    Publish = g1
    Optional = {"policy"}
    Poison = {poisoned}
    ChannelCap = 2
    StatusKinds = {"gateway"}
    ForgetEvery = 2
    Jobs = 1
    Requests <- MCRequests
CHECK_DEADLOCK FALSE
INVARIANTS
    GrantedOnly
    IsolatedListeners
PROPERTIES
    FollowsCluster
    ContentsServed
    StatusSettles
