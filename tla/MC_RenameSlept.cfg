CONSTANTS
    cA = cA
    cB = cB
    cNew = cNew
    old = old
    feature = feature
    NoConfig = NoConfig
    DataPlanes = {old}
    Configs <- MCConfigs
    Features = {feature}
    Needs <- MCNeeds
    Reads <- MCReads
    MaxWrites = 2
    MaxRenames = 1
    MaxExpiries = 0
    MaxLosses = 1
    MaxFailures = 1
SPECIFICATION Spec
INVARIANT
    HeldUntilChange
