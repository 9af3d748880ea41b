\* Three tasks, two threads of the pool.
CONSTANTS
  N = 3
  Main = Main
  Pool = {p1, p2}
SPECIFICATION FairSpec
INVARIANTS TypeOK CountExact RootResumesOnce NoSleepOnSetEvent
PROPERTY SyncWaitReturns
