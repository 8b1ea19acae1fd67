\* Every kind of call under way when close() runs; liveness under FairSpec.
SPECIFICATION FairSpec
CONSTANTS
  a = a
  b = b
  c = c
  h = h
  o = o
  k = k
  None = None
  System = System
  Ids = {a, b}
  Workers = {a, b}
  Handlers = {}
  Observers = {}
  Allowed <- AllPairs
  MaxInboxDepth = 2
  NamedConvs = {}
  Requests <- ShutdownRequests
  Daemons = {"expire", "write_error"}
  RestoreModes = {}
  MaxRestarts = 0
  MaxCalls = 4
INVARIANTS
  NoWaiterAfterClose
  AcknowledgedIsDurable
PROPERTIES
  EveryCallReturns
  WaiterIsServed
  EveryQuestionSettled
