SPECIFICATION FairReassemblySpec
CONSTANTS
  p = p
  q = q
  s = s
  t = t
  Messages = {p, q, s, t}
  From <- MCFrom
  MsgId <- MCMsgId
  Parts <- MCParts
  MaxPending = 1
  Timeout = 0
  MaxArrivals <- MCArrivals
CHECK_DEADLOCK FALSE
INVARIANTS
  Framed
  Conserved
  NoneLost
PROPERTY
  NoLeak
