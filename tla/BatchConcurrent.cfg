SPECIFICATION Spec
CONSTANTS
    RowCount = 2
    ChunkSize = 1
    Unstorable <- MCStorable
    Flags <- MCAnyFlags
    Loaders = {p1, p2}
    Replayers = {q1, q2}
    Operators = {o1}
    MaxLoads = 2
    MaxFaults = 2
    MaxReplays = 2
    MaxAbandons = 1
CHECK_DEADLOCK FALSE
SYMMETRY Symmetry
INVARIANTS TypeOK NoRowLost ClaimsOnlyWhatItHolds
