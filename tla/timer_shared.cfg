\* Two workers and a caller share a recurring and a one-shot timer.
CONSTANTS
  Workers = {w1, w2}
  Callers = {c1}
  Timers = {x, r}
  Recurring = {r}
  MaxDelay = 2
  MaxTimeout = 1
  Width = 4
  MaxLag = 1
  NoThread = NoThread
SPECIFICATION FairSpec
INVARIANTS WriteExclusive LeakIsFinal OnePlace TInv FrontCovered
PROPERTY InsertedFires
