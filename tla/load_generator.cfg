\* Three threads, four requests; a time below 10 ms, one of two digits, one
\* of three and one after midnight.
CONSTANTS
  Threads = {t1, t2, t3}
  N = 4
  Times = {59005, 59057, 61250, 86400100}
  Nobody = Nobody
SPECIFICATION FairSpec
\* main exits, or waits for a count nobody is left to reach.
CHECK_DEADLOCK FALSE
INVARIANTS AtMost FewLateAnswers SomethingToPrint RateIsRight LoadInv
PROPERTY MainEnds
