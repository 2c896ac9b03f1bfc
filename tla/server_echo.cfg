\* Two workers, two clients.
CONSTANTS
  Workers = {w1, w2}
  Main = main
  Users = {main}
  Fds = {listen, d1, d2}
  Listen = listen
  Modes = {"cb"}
  Word = 8
  Conns = {c1, c2}
  NoConn = NoConn
SPECIFICATION FairServer
\* The clients come to an end.
CHECK_DEADLOCK FALSE
INVARIANTS NeverBlocks RightConnection DispatchesFresh ListenSurvives
PROPERTIES KeepsTheRules AcceptedAreServed
