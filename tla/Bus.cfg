SPECIFICATION BusSpec
CONSTANTS
  x = x
  y = y
  b1 = b1
  k1 = k1
  k2 = k2
  c = c
  Buses = {x, y}
  Biomes = {b1}
  Keys = {k1, k2, c}
  Genesis <- MCGenesis
  Declarations <- MCDeclarations
  w = w
  e = e
  Windows = {w}
  EventIds = {e}
  Successions <- MCSuccessions
  MaxEpoch = 2
  MaxStatements = 2
SYMMETRY Symmetry
INVARIANTS
  RetiredKeysPowerless
  ForksNeedTwoSuccessions
  CatchUp
