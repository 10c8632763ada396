SPECIFICATION FairSpec
CONSTANTS
  Cpus = {c1, c2}
  NoCpu = NoCpu
  NumGranules = 3
  NumVmids = 1
  MaxRoots = 1
  NumAux = 0
  MaxRecs = 1
  MaxDepth = 1
  MaxKids = 1
  Delegated = {}
  Commands = {"GRANULE_DELEGATE", "GRANULE_UNDELEGATE", "REALM_CREATE", "REALM_DESTROY", "REALM_ACTIVATE", "REC_CREATE", "REC_ENTER", "REC_DESTROY", "RTT_CREATE", "RTT_DESTROY"}
INVARIANTS DelegatedZero HostReachesOnlyNS UnlockedInvariants
PROPERTY CommandsReturn
