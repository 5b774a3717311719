SPECIFICATION Spec
CONSTANTS
    email = email
    nameCompany = nameCompany
    domain = domain
    otherDomain = otherDomain
    mailbox = mailbox
    name = name
    phone = phone
    Keys <- MCKeys
    StrongKeys <- MCStrong
    DemotedKeys <- MCStrong
    KeyType <- MCKeyType
    Weight <- MCWeight
    Statements <- MCStatements
    NumRecords = 4
    MaxDecisions = 2
CHECK_DEADLOCK FALSE
INVARIANTS
    TypeOK
    EmploymentIsBacked
    HalvesMeet
