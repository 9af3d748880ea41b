\* A walk that stops at a node it has seen, and leaves a tree to another walk.
CONSTANTS
  a = a  b = b  c = c  u = u  v = v  w = w  x = x  z = z
  NoNode = NoNode
  Nodes = {a, b, u, v, w, x, z}
  Preds <- Net
  Targets = {u, v}
  Workers = {w1, w2}
SPECIFICATION FairSpec
INVARIANTS TypeOK TaskIsValid DepsRespected DepsCounted JobsCounted
PROPERTY GraphCompletes
