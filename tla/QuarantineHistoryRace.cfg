SPECIFICATION Spec
CONSTANTS
    r1 = r1
    r2 = r2
    noEmail = noEmail
    badPhone = badPhone
    Records <- MCOneRecord
    Rules <- MCRules
    RecordRules <- MCRecordRules
    Validators = {v1}
    Reviewers = {h1}
    System = System
    FlushSize = 1
    MaxRevisions = 2
    MaxRuns = 3
    MaxDecisions = 3
CHECK_DEADLOCK FALSE
INVARIANT HistoryMatchesItem
