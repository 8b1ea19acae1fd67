\* One worker asks another, with time-outs, long-polls and cancels.
SPECIFICATION Spec
CONSTANTS
  a = a
  b = b
  c = c
  h = h
  o = o
  k = k
  None = None
  System = System
  Ids = {a, b}
  Workers = {a, b}
  Handlers = {}
  Observers = {}
  Allowed <- AllPairs
  MaxInboxDepth = 2
  NamedConvs = {}
  Requests <- QuestionRequests
  Daemons = {"expire"}
  RestoreModes = {}
  MaxRestarts = 0
  MaxCalls = 4
INVARIANTS
  TypeOK
  NoLostWakeup
  LockIsExclusive
  InFlightHasDeadline
  AnsweredIsSettled
  QuestionIsOut
