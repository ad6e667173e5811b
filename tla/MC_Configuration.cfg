SPECIFICATION Spec
CONSTANTS
    Reqs = {r1, r2}
    Attempts = 3
    Users = {"s", "a", "b"}
    Groups = {"g"}
    WorkspaceIds = {"w1", "w2"}
    Names = {"x", "y"}
    Objects <- MCObjects
    Hosts = {"*.x", "a.x", "b.y"}
    Overlapping <- MCOverlapping
    OneLabel = {}
    GroupNames = {"g1", "g2"}
    MaxGroups = 1
    Loads <- MCLoads
SYMMETRY ReqsSymmetry
CHECK_DEADLOCK FALSE
INVARIANTS
    RightsHeld
    OneWorkspacePerHost
    LastWorkspaceKept
    NoLostUpdate
PROPERTIES
    NothingLostUnseen
    AdminRemains
