SPECIFICATION Spec
CONSTANTS
    r1 = r1
    r2 = r2
    noEmail = noEmail
    badPhone = badPhone
    Records <- MCRecords
    Rules <- MCRules
    RecordRules <- MCRecordRules
    Validators = {v1}
    Reviewers = {h1, h2}
    System = System
    FlushSize = 1
    MaxRevisions = 2
    MaxRuns = 2
    MaxDecisions = 2
CHECK_DEADLOCK FALSE
SYMMETRY Symmetry
VIEW Undated
INVARIANTS
    QuarantinedWhileInvalid
