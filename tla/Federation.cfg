SPECIFICATION FairSpec
CONSTANTS
  a = a
  b = b
  n1 = n1
  Gateways = {a, b}
  Peers <- MCPeers
  Nodes = {n1}
  QueueDepth = 1
  UsesCursor = FALSE
  Revokers = {a}
  MaxMints = 2
  MaxFaults = 1
INVARIANTS
  RevokedByOwner
PROPERTIES
  RevokedByNewEvent
  Converges
