SPECIFICATION ServingPipeline
CONSTANTS
  Task = {t1, t2}
  Backlog = {}
  Expired = {}
  Goroutine = {g1}
  Submitter = {"scheduler"}
  NoTask = NoTask
  MaxClaimBatch = 1
  ClaimLimit = 1
  BatchSize = 2
INVARIANTS PromptDispatch
PROPERTIES PublishedIsTaken
CHECK_DEADLOCK FALSE
