SPECIFICATION Spec
CONSTANTS
  n1 = n1
  Nodes = {n1}
  MaxSeq = 4
  W = 2
  Alerting <- MCAlerting
  MaxFaults <- MCMaxFaults
INVARIANTS
  WindowIsMemory
  AcceptedOnce
  EvidenceStored
  AcceptedFloodsAlerted
  RevocationPublished
