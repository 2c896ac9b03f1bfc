\* One worker whose coroutines may yield and sleep for ever, or two whose
\* coroutines may yield; one of the two coroutines may throw.  Tickles may block.
CONSTANTS
  Threads = {t1, t2}
  Fibers = {f1, f2}
  Throwers = {f2}
  SharedSleep = FALSE
  AnyThread = AnyThread
  Unsubmitted = Unsubmitted
  NoFiber = NoFiber
  NoThread = NoThread
SPECIFICATION FairSpec
\* An escaped exception ends the process.
CHECK_DEADLOCK FALSE
INVARIANTS StackExclusive RunOnce NothingLost OnlyThrowersAbort
  FinishedStaysOut EnteredWhereWanted IInv
PROPERTIES PoolSpec NoStarvation
