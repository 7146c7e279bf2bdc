SPECIFICATION FairSpec
CONSTANTS
  Post = {p1}
  a1 = a1
  a2 = a2
  Asset = {a1, a2}
  NoAsset = NoAsset
  Writer = {w1, w2}
  Handler = {h1, h2}
  Reader = {g1}
  Content <- SomeContent
  MaxAttempts = 2
  MaxDraftVersion = 2
  MaxPostVersion = 4
  None = None
INVARIANTS RevisionKeepsItsAssets CardFollowsRevision AnswersWerePublic
PROPERTIES CardCatchesUp PublishesReadyAssets NoLostSave ImplementsPublishedPosts
CHECK_DEADLOCK FALSE
