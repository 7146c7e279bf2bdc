SPECIFICATION FairSpec
CONSTANTS
  Task = {t1, t2, t3}
  Goroutine = {g1, g2}
  Submitter = {s1, s2}
  NoTask = NoTask
INVARIANTS NoSendOnClosedQueue DoneIsTruthful GracefulDrain
PROPERTIES FatesAdvance Stops
CHECK_DEADLOCK FALSE
