SPECIFICATION Spec
CONSTANTS
    RowCount = 3
    ChunkSize = 2
    Unstorable <- MCUnstorable
    Flags <- MCFlags
    Loaders = {p1, p2}
    Replayers = {q1}
    Operators = {o1}
    MaxLoads = 2
    MaxFaults = 0
    MaxReplays = 0
    MaxAbandons = 0
CHECK_DEADLOCK FALSE
SYMMETRY Symmetry
INVARIANT OneLoadInFlight
