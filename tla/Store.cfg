SPECIFICATION Spec
CONSTANTS
  k1 = k1
  k2 = k2
  k3 = k3
  k4 = k4
  RecordKeys = {k1, k2, k3, k4}
  Measured <- MCMeasured
  Modes <- AllModes
  MaxFaults = 2
CHECK_DEADLOCK FALSE
INVARIANTS
  NeverCorrupt
  UniqueRecords
  MemoryMatchesDisk
  DedupForever
PROPERTIES
  ImplementsLog
  KeptItsTime
