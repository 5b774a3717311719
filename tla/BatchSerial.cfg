SPECIFICATION SerialSpec
CONSTANTS
    RowCount = 3
    ChunkSize = 2
    Unstorable <- MCUnstorable
    Flags <- MCFlags
    Loaders = {p1}
    Replayers = {q1}
    Operators = {o1}
    MaxLoads = 3
    MaxFaults = 1
    MaxReplays = 2
    MaxAbandons = 2
CHECK_DEADLOCK FALSE
INVARIANTS FileLoadedOnce SkippedAreOpen
PROPERTY VerdictStands
