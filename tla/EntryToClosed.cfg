\* A conversation closes while another message into it waits for the lock.
SPECIFICATION Spec
CONSTANTS
  a = a
  b = b
  c = c
  h = h
  o = o
  k = k
  None = None
  System = System
  Ids = {a, b}
  Workers = {a, b}
  Handlers = {}
  Observers = {}
  Allowed <- AllPairs
  MaxInboxDepth = 2
  NamedConvs = {k}
  Requests <- EntryRequests
  Daemons = {}
  RestoreModes = {}
  MaxRestarts = 0
  MaxCalls = 3
PROPERTY NoEntryToClosed
