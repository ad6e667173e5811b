CONSTANTS
    cA = cA
    cB = cB
    cPlain = cPlain
    cNew = cNew
    hA = hA
    hB = hB
    x = x
    y = y
    idp = idp
    k1 = k1
    k2 = k2
    NoConfig = NoConfig
    NoHost = NoHost
    NoSource = NoSource
    NoDoc = NoDoc
    NoCache = NoCache
    NotServing = NotServing
    Configs <- MCConfigs
    Readable <- MCReadable
    Hosts = {hA, hB}
    Target <- MCTarget
    AddressesOf <- MCAddressesOf
    Sources = {idp}
    SourceOf <- MCSourceOf
    Docs = {k1, k2}
    MaxChanges = 2
    MaxRestarts = 1
    MaxFaults = 2
SPECIFICATION SourceFairSpec
INVARIANTS
    TypeOK
    LookupsBounded
PROPERTIES
    CachedKeysServed
    OnlyAnswersEmpty
