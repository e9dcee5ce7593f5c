SPECIFICATION NotarySpec
CONSTANTS
  Observations <- MCObservations
  Events <- MCEvents
  RootSigners <- MCRootSigners
  MaxLeaves = 3
  MaxBatches = 2
  MaxTree = 9
  MaxForged = 5
CHECK_DEADLOCK FALSE
INVARIANTS
  TreeExact
  BundleSound
  BundleComplete
