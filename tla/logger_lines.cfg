\* Two threads, two loggers that share their outputs.
CONSTANTS
  Threads = {t1, t2}
  Config <- MCConfig
  Pattern <- MCPattern
  Events <- MCEvents
  Source <- MCSource
  NoEvent = NoEvent
SPECIFICATION FairSpec
\* Everything has been logged.
CHECK_DEADLOCK FALSE
INVARIANTS LinesStayWhole Delivered
PROPERTY CallsReturn
