\* The liveness properties, with one finite and one persistent job.
CONSTANTS
  NoJob = NoJob
  Workers = {w1, w2}
  Clients = {c1}
  Owner = c1
  Jobs = {o1, p1}
  Persistent = {p1}
  Stoppable = {}
SPECIFICATION FairSpec
PROPERTIES JobsRun WaitReturns DestructorReturns
