\* One worker, one coroutine that yields again and again.
CONSTANTS
  Workers = {w1}
  Callers = {main}
  Jobs = {y}
  Yielders = {y}
  Recurring = {}
  Targets = {AnyThread}
  AnyThread = AnyThread
  NoJob = NoJob
  PipeSize = 2
  NextTimers = {NoTimer, 0, 2, 9}
  NoTimer = NoTimer
  MaxTimeout = 1
  Width = 8
SPECIFICATION FairSpec
CHECK_DEADLOCK FALSE
PROPERTY YieldedRunsAgain
