\* Two workers, stale events and all.
CONSTANTS
  Workers = {w1, w2}
  Users = {u1}
  Fds = {d1}
  Modes = {"cb", "fiber"}
  Word = 8
SPECIFICATION Spec
SYMMETRY Symmetry
\* A null scheduler ends the process.
CHECK_DEADLOCK FALSE
INVARIANTS InterestAgrees ContextAgrees AssertionsHold FdInv
