SPECIFICATION FairSpec
CONSTANTS
  e1 = e1
  e2 = e2
  c1 = c1
  c2 = c2
  w1 = w1
  w2 = w2
  Event = {e1, e2}
  Consumer = {c1, c2}
  Worker = {w1, w2}
  Subscribers <- MCSubscribers
  MaxAttempts = 2
  Batch = 2
INVARIANTS HandledOnce
PROPERTIES LeaseIsRespected FailsOnlyWhenSpent RowsAdvance Settles ImplementsEventHandling
CHECK_DEADLOCK FALSE
