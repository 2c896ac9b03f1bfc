\* Two threads that both enlarge the table.
CONSTANTS
  Threads = {t1, t2}
  Growers = {t1, t2}
  Fds = {2, 3, 5, 8}
  InitialSize = 3
  MaxBuilt = 2
  NoThread = NoThread
SPECIFICATION FairSpec
\* A failed call or a read lock left behind stops the others.
CHECK_DEADLOCK FALSE
INVARIANTS InRange OneContext TableInv
PROPERTY CallsEnd
