\* schedule() walks to a node that a worker has just enqueued.
CONSTANTS
  a = a  b = b  c = c  u = u  v = v  w = w  x = x  z = z
  NoNode = NoNode
  Nodes = {a, b, c}
  Preds <- Triangle
  Targets = {c}
  Workers = {w1, w2}
SPECIFICATION Spec
INVARIANT TaskIsValid
