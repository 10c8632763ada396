SPECIFICATION Spec
CONSTANTS
  Cpus = {c1, c2}
  NoCpu = NoCpu
  NumGranules = 4
  NumVmids = 1
  MaxRoots = 2
  NumAux = 0
  MaxRecs = 1
  MaxDepth = 2
  MaxKids = 2
  Delegated = {1, 2, 3, 4}
  Commands = {"REALM_CREATE", "REALM_DESTROY", "RTT_CREATE", "RTT_DESTROY"}
SYMMETRY CpuSymmetry
INVARIANTS LockInv RefcountsCount TreesIntact
