\* Messages to handlers, observers and ccs, a broadcast, a full inbox, a matrix
\* with forbidden pairs.
SPECIFICATION Spec
CONSTANTS
  a = a
  b = b
  c = c
  h = h
  o = o
  k = k
  None = None
  System = System
  Ids = {a, b, c, h, o}
  Workers = {a, b, c}
  Handlers = {h}
  Observers = {o}
  Allowed <- SomePairs
  MaxInboxDepth = 1
  NamedConvs = {}
  Requests <- BotRequests
  Daemons = {"expire"}
  RestoreModes = {}
  MaxRestarts = 0
  MaxCalls = 4
INVARIANTS
  CapacityRespected
  ReceiversTakePart
  MatrixIsRespected
