\* The process dies at any moment and restarts, with and without --restore.
SPECIFICATION Spec
CONSTANTS
  a = a
  b = b
  c = c
  h = h
  o = o
  k = k
  None = None
  System = System
  Ids = {a, b, h}
  Workers = {a, b}
  Handlers = {h}
  Observers = {}
  Allowed <- AllPairs
  MaxInboxDepth = 2
  NamedConvs = {}
  Requests <- RestoreRequests
  Daemons = {"restart", "expire"}
  RestoreModes = {TRUE, FALSE}
  MaxRestarts = 1
  MaxCalls = 4
INVARIANTS
  DiskAgrees
PROPERTIES
  KeepsPromises
  MailSurvives
