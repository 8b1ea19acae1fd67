\* Teams drawn and posted, tables edited by hand, restarts.
SPECIFICATION Spec
CONSTANTS
  a = a
  b = b
  c = c
  op = op
  any = any
  pair = pair
  group = group
  open = open
  range = range
  padded = padded
  line = line
  spaced = spaced
  Workers = {a, b, c}
  Operators = {op}
  Patterns = {any, pair, group, open, range, padded, line, spaced}
  All = any
  Broken = {open, spaced}
  Commas = {range}
  Breaks = {line}
  Strip <- Bare
  FullMatch <- Matched
  Star = Star
  Bad = Bad
  None = None
  Manifests <- SomeManifests
  Csvs <- SomeCsvs
  Bodies <- SomeBodies
  MaxChanges = 2
INVARIANTS
  AsProvisioned
  CyclesAreFound
PROPERTIES
  RefusedIsUndone
