\* The color of a primitive is animated.
CONSTANTS
  NaN = NaN
  None = None
  Prims = {k}
  Skel = {}
  VertColored = {k}
  FaceColored = {}
  PointColored = {}
  Keyed = {k}
  Broken = {}
  TimeCodes = {1, 2}
  First = 1
  Final = 2
  MaxPaint = 0
SPECIFICATION Spec
INVARIANT ZsMeshIsUpdated
