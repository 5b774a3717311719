SPECIFICATION SerialSpec
CONSTANTS
    domain = domain
    otherDomain = otherDomain
    name = name
    vendor = vendor
    directory = directory
    Records = {1, 2, 3}
    Batches <- MCBatches
    BatchOf <- MCBatchOf
    Keys <- MCKeys
    KeyType <- MCKeyType
    Weight <- MCWeight
    StrongKeys <- MCStrong
    DemotedKeys <- MCStrong
    NameKeys <- MCNames
    NoName = NoName
    Runs = {p1}
    Stewards = {s1}
    MaxRuns = 2
    MaxDecisions = 2
    MaxSweeps = 1
SYMMETRY MCSymmetry
CHECK_DEADLOCK FALSE
INVARIANTS
    TypeOK
    LinksAndEntitiesAgree
    SurvivorHasRecordKeys
