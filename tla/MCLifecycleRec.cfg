SPECIFICATION Spec
CONSTANTS
  Cpus = {c1, c2}
  NoCpu = NoCpu
  NumGranules = 6
  NumVmids = 1
  MaxRoots = 1
  NumAux = 2
  MaxRecs = 2
  MaxDepth = 1
  MaxKids = 1
  Delegated = {1, 2, 3, 4, 5}
  Commands = {"REALM_CREATE", "REALM_DESTROY", "REALM_ACTIVATE", "REC_CREATE", "REC_DESTROY", "REC_ENTER"}
SYMMETRY CpuSymmetry
INVARIANTS TypeOK RefcountsCount EnteredRecIsAlive RecsBelongToRealm AuxOwned VmidExclusive
PROPERTIES StateChangesUnreferenced RealmSealed
