SPECIFICATION Spec
CONSTANTS
  Files <- MCFiles
  Releases <- MCReleases
  Truncated = {"nul"}
  Outside = {"concurrently"}
  Migrators = {m1, m2, m3}
INVARIANTS TypeOK HistoryIsTheSchema HistoryIsSuccesses
