SPECIFICATION Spec
CONSTANTS
  flood = flood
  rogue = rogue
  gate = gate
  other = other
  Ids = {i1, i2, i3}
  Agents = {flood, rogue}
  Actuators = {gate, other}
  Magnitudes = {2, 3, 4}
  Allowed = {gate}
  PolicyMax = 3
  SafeMax = 2
  Budget = 2
  Grants <- MCGrants
  MaxFaults <- MCMaxFaults
SYMMETRY Symmetry
INVARIANTS
  EffectsAccounted
  OncePerLife
  RerunNeedsFailure
PROPERTIES
  JournaledNeverAgain
