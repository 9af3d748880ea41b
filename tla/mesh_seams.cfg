\* The corners of a mesh and the nodes they are given.
CONSTANTS
  NaN = NaN
  None = None
  Garbage = Garbage
  Zero = 0
  Default = 9
  Color = 8
  MaxShows = 2
  Sources <- MCSources
  Times <- MCTimes
  Solids <- MCSolids
  Sheets <- MCSheets
SPECIFICATION Spec
INVARIANT SeamsAreKept
CHECK_DEADLOCK FALSE
