SPECIFICATION OutageSpec
CONSTANTS
  Nodes = {1}
  Keys = {k1, k2}
  MaxSeq = 1
  W = 2
SYMMETRY Symmetry
VIEW View
CHECK_DEADLOCK FALSE
INVARIANTS
  BiomeOnce
  NothingLost
PROPERTIES
  OnlyAuthentic
