\* One page, two connections, two messages, queues of two events.
SPECIFICATION Spec
CONSTANTS
  w1 = w1
  u1 = u1
  m1 = m1
  m2 = m2
  s1 = s1
  s2 = s2
  None = None
  Workers = {w1}
  Operators = {u1}
  Bots = {}
  Targets <- SomeTargets
  Viewers = {u1}
  Messages = {m1, m2}
  Lists <- SomeLists
  Posts <- SomePosts
  Subs = {s1, s2}
  MaxQueue = 2
  MaxChanges = 2
SYMMETRY Symmetric
CHECK_DEADLOCK FALSE
INVARIANTS
  TypeOK
  NothingIsMissed
  AckedWasShown
