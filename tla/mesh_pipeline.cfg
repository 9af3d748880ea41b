\* Six small meshes, each made into two meshes in a row.
CONSTANTS
  NaN = NaN
  None = None
  Garbage = Garbage
  Zero = 0
  Default = 9
  Color = 8
  MaxShows = 2
  Sources <- MCSources
  Times <- MCTimes
  Solids <- MCSolids
  Sheets <- MCSheets
SPECIFICATION Spec
INVARIANTS TypeOK ShownIsCurrent VariantsDiffer NothingIsLost PaintReachesVerts ImportsAgree KeyFramesChangeAtGlobals AttribsAreCurrent FlagsAreEnough FormsAgree ShapesAreClosed
CHECK_DEADLOCK FALSE
