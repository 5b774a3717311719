SPECIFICATION ResolutionSpec
CONSTANTS
    domain = domain
    otherDomain = otherDomain
    name = name
    vendor = vendor
    directory = directory
    Records = {1, 2, 3}
    Batches <- MCBatches
    BatchOf <- MCBatchOf
    Keys <- MCTwoKeys
    KeyType <- MCKeyType
    Weight <- MCWeight
    StrongKeys <- MCStrong
    DemotedKeys <- MCStrong
    NameKeys <- MCNames
    NoName = NoName
    Runs = {p1, p2}
    Stewards = {s1}
    MaxRuns = 2
    MaxDecisions = 2
    MaxSweeps = 0
CHECK_DEADLOCK FALSE
INVARIANTS
    AutoLinkNeedsStrongKey
    EveryIdResolves
PROPERTIES
    IdentityIsPermanent
