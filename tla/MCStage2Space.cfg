SPECIFICATION Spec
CONSTANTS
  Cpus = {c1, c2}
  Realms = {r1}
  None = None
  NumGranules = 3
  E = 2
  StartLevel = 2
  NsPas = {0}
  Commands = {"RTT_CREATE", "RTT_FOLD", "RTT_DESTROY", "DATA_CREATE",
              "INIT_RIPAS", "SET_RIPAS"}
  MaxCached = 0
  Asserts = TRUE
SYMMETRY Symmetry
CHECK_DEADLOCK FALSE
PROPERTY ImplementsIpaSpace
