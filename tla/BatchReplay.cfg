SPECIFICATION SerialSpec
CONSTANTS
    RowCount = 3
    ChunkSize = 2
    Unstorable <- MCUnstorable
    Flags <- MCFlags
    Loaders = {p1}
    Replayers = {q1}
    Operators = {o1}
    MaxLoads = 1
    MaxFaults = 1
    MaxReplays = 1
    MaxAbandons = 0
CHECK_DEADLOCK FALSE
INVARIANT RowsReconcile
