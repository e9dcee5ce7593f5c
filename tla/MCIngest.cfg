SPECIFICATION Spec
CONSTANTS
  Nodes = {n1}
  Keys = {k1, k2}
  MaxSeq = 5
  W = 3
SYMMETRY Symmetry
INVARIANTS
  WindowExact
  AtMostOnce
  NothingBurnt
