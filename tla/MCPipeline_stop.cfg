SPECIFICATION FairPipeline
CONSTANTS
  Task = {t1, t2}
  Backlog = {t1}
  Expired = {t2}
  Goroutine = {g1}
  Submitter = {"scheduler"}
  NoTask = NoTask
  MaxClaimBatch = 2
  ClaimLimit = 2
  BatchSize = 1
INVARIANTS SubmitNeverBlocks PromptClaim KnownClaimsInHand ReturnLeavesNothing
PROPERTIES PipelineReturns
CHECK_DEADLOCK FALSE
