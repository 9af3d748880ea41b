\* Two scenes, three files, one prim, six calls.
CONSTANTS
  a = a
  b = b
  Labels = {a, b}
  walk = walk
  run = run
  new = new
  Files = {walk, run, new}
  Paths = {p}
  MaxCalls = 6
  Times = {1, 9}
  NaN = NaN
  None = None
  OnDisk <- MCOnDisk
SYMMETRY Symmetry
SPECIFICATION Spec
INVARIANTS TypeOK ContextAgrees TimelineCovers EditsAreSealed
PROPERTY TimelineOnlyGrows
CHECK_DEADLOCK FALSE
