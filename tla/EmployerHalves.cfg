SPECIFICATION Spec
CONSTANTS
    email = email
    nameCompany = nameCompany
    domain = domain
    otherDomain = otherDomain
    mailbox = mailbox
    name = name
    phone = phone
    Keys <- MCKeys
    StrongKeys <- MCStrong
    DemotedKeys <- MCStrong
    KeyType <- MCKeyType
    Weight <- MCWeight
    Statements <- MCStatements
    NumRecords = 3
    MaxDecisions = 1
CHECK_DEADLOCK FALSE
INVARIANTS
    HalvesAlwaysMeet
