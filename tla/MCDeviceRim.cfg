SPECIFICATION Spec
CONSTANTS
  Cpus = {c1, c2}
  NoCpu = NoCpu
  p1 = p1
  p2 = p2
  t1 = t1
  t2 = t2
  Pages = {p1, p2}
  NumIpas = 3
  PageTables = {t1, t2}
  TableOf <- MCTableOf
  Ranges <- MCShortRanges
  MaxSize = 2
  MaxLinks = 2
  Commands = {"DATA_CREATE", "DATA_DESTROY", "REALM_ACTIVATE", "DEV_MEM",
              "RTT_INIT_RIPAS", "REC_CREATE"}
CHECK_DEADLOCK FALSE
INVARIANT RimReadIsCurrent
