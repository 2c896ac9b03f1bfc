\* Two workers, one of which gets work of its own; one coroutine that may
\* yield for ever, one that does not, one recurring timer.
CONSTANTS
  Workers = {w1, w2}
  Callers = {main}
  Jobs = {y, a, r}
  Yielders = {y}
  Recurring = {r}
  Targets = {AnyThread, w2}
  AnyThread = AnyThread
  NoJob = NoJob
  PipeSize = 3
  NextTimers = {NoTimer, 0, 2, 9}
  NoTimer = NoTimer
  MaxTimeout = 1
  Width = 8
SPECIFICATION FairSpec
\* With the pipe full everyone may wait.
CHECK_DEADLOCK FALSE
INVARIANTS NoLostWakeup
PROPERTY Served
