SPECIFICATION FairSpec
CONSTANTS
  Cpus = {c1, c2}
  NoCpu = NoCpu
  r1 = r1
  r2 = r2
  Recs = {r1, r2}
  NoRec = NoRec
  Program <- Programs
  Timed = {r2}
  MaxRem = 1
  Polite = TRUE
  FpuAtRel2 = FALSE
INVARIANTS TypeOK EnteredOnce HeapAssigned FpuBelongs TokenOfOneMeasurement PcAdvancedOnce
PROPERTIES PsciLeavesRunningAlone ImplementsVcpu OffQuiesces
