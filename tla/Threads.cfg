\* Three parties close a conversation in every order, with the TTL and retention
\* sweeps.
SPECIFICATION Spec
CONSTANTS
  a = a
  b = b
  c = c
  h = h
  o = o
  k = k
  None = None
  System = System
  Ids = {a, b, c}
  Workers = {a, b, c}
  Handlers = {}
  Observers = {}
  Allowed <- AllPairs
  MaxInboxDepth = 2
  NamedConvs = {k}
  Requests <- ThreadRequests
  Daemons = {"ttl", "gc"}
  RestoreModes = {}
  MaxRestarts = 0
  MaxCalls = 4
INVARIANTS
  HalfClosedIsOwed
  StatusAgrees
PROPERTY ClosedIsFinal
