SPECIFICATION Spec
CONSTANTS
  n1 = n1
  n2 = n2
  soil = soil
  air = air
  lab = lab
  farm = farm
  NoSigner = NoSigner
  Nodes = {n1, n2}
  Colocated = {n1}
  Modalities = {soil, air}
  Ids = {1, 2, 3}
  Signers = {lab, farm}
  Trusted <- MCTrusted
  Offered <- MCOffered
  ConfirmCount = 2
  MaxTime = 2
INVARIANTS
  CorrectionTraceable
  ActiveApplies
  QuarantineExact
