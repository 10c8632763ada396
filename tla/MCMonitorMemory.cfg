SPECIFICATION Spec
CONSTANTS
  c1 = c1
  c2 = c2
  Header = 4
  Unit = 2
  Wrap = 64
  Buffers <- MCBuffers
  Requests <- MCRequests
  Cpus <- MCCpus
  Primary = c1
  Entries = 4
  Top = 256
  Low = 129
  MaxPa = 127
  Spaces <- MCSpaces
  Regions <- MCRegions
  NumSlots = 3
  SlotPages = {5, 6}
  Asserts = TRUE
  Beyond <- MCBeyond
INVARIANTS
  TypeOK
  BlocksTile
  TranslatesRegions
PROPERTIES
  ImplementsArena
  SlotsAreWindows
CHECK_DEADLOCK FALSE
