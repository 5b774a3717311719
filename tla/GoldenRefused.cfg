SPECIFICATION Spec
CONSTANTS
    Entities <- MCEntities
    Kind <- MCKind
    Records = {1, 2, 3, 4, 5}
    Founder <- MCFounder
    Targets <- MCTargets
    Claims <- MCClaims
    SourceOf <- MCSourceOf
    Reliability <- MCReliability
    Fields <- MCFields
    Strategy <- MCStrategy
    Workers = {w1}
    Builders = {g1}
    GoldenFlags <- MCGoldenFlags
    MaxTries = 2
    MaxBuilds = 2
    MaxMerges = 0
CHECK_DEADLOCK FALSE
INVARIANT ConcurrentBuildsSucceed
