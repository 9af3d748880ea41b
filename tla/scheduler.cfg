\* Every safety property, with two workers, one client that also destroys the
\* scheduler, two finite jobs and a persistent one.
CONSTANTS
  NoJob = NoJob
  Workers = {w1, w2}
  Clients = {c1}
  Owner = c1
  Jobs = {o1, o2, p1}
  Persistent = {p1}
  Stoppable = {w1, w2}
SPECIFICATION Spec
SYMMETRY Symmetry
INVARIANTS TypeOK JobAccounting NoLostWakeup
PROPERTY ImplementsPool
