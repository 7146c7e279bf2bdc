SPECIFICATION Spec
CONSTANTS
  Task = {t1, t2, t3}
  Goroutine = {g1, g2}
  Submitter = {s1, s2}
  NoTask = NoTask
PROPERTIES CancelStopsTaking
CHECK_DEADLOCK FALSE
