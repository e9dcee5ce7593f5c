SPECIFICATION Spec
CONSTANTS
  k1 = k1
  k2 = k2
  k3 = k3
  k4 = k4
  RecordKeys = {k1, k2, k3}
  Measured <- MCMeasured
  Modes <- CrashOnly
  MaxFaults = 1
INVARIANTS
  NeverPoisoned
