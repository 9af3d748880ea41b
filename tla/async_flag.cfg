\* Two coroutines await the flag at the same time.
CONSTANTS
  Flag = Flag
  Nil = Nil
  Awaiters = {a1, a2}
SPECIFICATION Spec
INVARIANT SuspendedIsListed
CHECK_DEADLOCK FALSE
