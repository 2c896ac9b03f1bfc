\* A stale event of a deleted descriptor.
CONSTANTS
  Workers = {w1, w2}
  Users = {}
  Fds = {d1}
  Modes = {"cb"}
  Word = 8
SPECIFICATION Spec
INVARIANT Reusable
