SPECIFICATION PipelineSpec
CONSTANTS
  Task = {t1, t2}
  Backlog = {}
  Expired = {t2}
  Goroutine = {g1}
  Submitter = {"scheduler"}
  NoTask = NoTask
  MaxClaimBatch = 1
  ClaimLimit = 1
  BatchSize = 1
INVARIANTS PipelineDoneIsTruthful
CHECK_DEADLOCK FALSE
