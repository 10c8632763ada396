SPECIFICATION Spec
CONSTANTS
  Cpus = {c1}
  Realms = {r1}
  None = None
  NumGranules = 3
  E = 2
  StartLevel = 2
  NsPas = {0}
  Commands = {"RTT_CREATE", "RTT_FOLD", "DATA_CREATE"}
  MaxCached = 0
  Asserts = FALSE
SYMMETRY Symmetry
CHECK_DEADLOCK FALSE
INVARIANT TableEntriesPointToTables
