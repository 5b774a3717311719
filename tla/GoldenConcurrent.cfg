SPECIFICATION Spec
CONSTANTS
    Entities <- MCEntities
    Kind <- MCKind
    Records = {1, 2, 3, 4, 5}
    Founder <- MCFounder
    Targets <- MCTargets
    Claims <- MCClaims
    SourceOf <- MCSourceOf
    Reliability <- MCReliability
    Fields <- MCFields
    Strategy <- MCStrategy
    Workers = {w1, w2}
    Builders = {g1}
    GoldenFlags <- MCAnyGoldenFlags
    MaxTries = 2
    MaxBuilds = 1
    MaxMerges = 1
CHECK_DEADLOCK FALSE
INVARIANTS TypeOK IndexNeverRefuses HistoryCanBeWalked ExplanationHolds
PROPERTY ImplementsTrustedValues
