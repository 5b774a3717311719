SPECIFICATION DirectorySpec
CONSTANTS
    domain = domain
    otherDomain = otherDomain
    name = name
    vendor = vendor
    directory = directory
    Records = {1, 2, 3, 4, 5, 6, 7}
    Batches <- MCBatches
    BatchOf <- MCDirectory
    Keys <- MCDirectoryKeys
    KeyType <- MCKeyType
    Weight <- MCWeight
    StrongKeys <- MCDomains
    DemotedKeys <- MCDomains
    NameKeys <- MCNames
    NoName = NoName
    Runs = {p1}
    Stewards = {s1}
    MaxRuns = 1
    MaxDecisions = 0
    MaxSweeps = 1
CHECK_DEADLOCK FALSE
INVARIANT EveryIdResolves
