\* Two calls at once, one name and two ids, crashes and failures of the disk.
SPECIFICATION FairSpec
CONSTANTS
  w1 = w1
  w2 = w2
  n1 = n1
  f1 = f1
  f2 = f2
  c1 = c1
  c2 = c2
  None = None
  Workers = {w1, w2}
  Names = {n1}
  FileIds = {f1, f2}
  Calls = {c1, c2}
  MaxBytes = 1
  Sizes = {1, 2}
  Policies <- SomePolicies
  PolicyFile <- Anything
  MaxFaults = 2
CHECK_DEADLOCK FALSE
INVARIANTS
  TypeOK
  ListedIsThere
PROPERTIES
  NothingIsOverwritten
  ExpiredIsReclaimed
