\* A coroutine sleeps after a worker has been idle without timers.
CONSTANTS
  Workers = {w1}
  Callers = {}
  Timers = {x}
  Recurring = {}
  MaxDelay = 2
  MaxTimeout = 2
  Width = 8
  MaxLag = 1
  NoThread = NoThread
SPECIFICATION FairSpec
PROPERTY SleepEnds
