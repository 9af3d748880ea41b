\* A skinned primitive with a color of its vertices, one whose points have an animated color, and
\* a broken one, at two time codes.
CONSTANTS
  NaN = NaN
  None = None
  Prims = {s, k, b}
  Skel = {s}
  VertColored = {s}
  FaceColored = {}
  PointColored = {k}
  Keyed = {k}
  Broken = {b}
  TimeCodes = {1, 2}
  First = 1
  Final = 2
  MaxPaint = 1
SPECIFICATION FairSpec
INVARIANTS TypeOK ProcessingIsOwned FrameIsDone InFlightIsExact DeviceIsCurrent
PROPERTY ProcessingEnds
