\* idle() holds between the end of a node and the enqueue_ of its successor.
CONSTANTS
  a = a  b = b  c = c  u = u  v = v  w = w  x = x  z = z
  NoNode = NoNode
  Nodes = {a, b}
  Preds <- Edge
  Targets = {b}
  Workers = {w1, w2}
SPECIFICATION Spec
INVARIANT IdleMeansDone
