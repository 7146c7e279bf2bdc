SPECIFICATION Spec
CONSTANTS
  e1 = e1
  e2 = e2
  c1 = c1
  c2 = c2
  w1 = w1
  w2 = w2
  Event = {e1}
  Consumer = {c1}
  Worker = {w1, w2}
  Subscribers <- MCSingle
  MaxAttempts = 2
  Batch = 2
PROPERTIES RecoveryBacksOff
CHECK_DEADLOCK FALSE
