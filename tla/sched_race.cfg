\* A coroutine that sleeps in a scheduler with two workers.
CONSTANTS
  Threads = {t1, t2}
  Fibers = {f1}
  Throwers = {}
  SharedSleep = TRUE
  AnyThread = AnyThread
  Unsubmitted = Unsubmitted
  NoFiber = NoFiber
  NoThread = NoThread
SPECIFICATION Spec
INVARIANT StackExclusive
