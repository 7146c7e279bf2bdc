SPECIFICATION FairSpec
CONSTANTS
  BlockID = {a, b, c, d}
  NoParent = NoParent
  Asset = {x, y}
  x = x
  d = d
  y = y
  Name = {"Trip", "trip", "sea"}
  Fold <- Folded
  Input <- DocumentsAndTags
  MaxBlocks = 3
  MaxImages = 3
  MaxTags = 3
INVARIANTS AcceptsForests RefsAndTagsAreDerived
PROPERTIES ValidationEnds
CHECK_DEADLOCK FALSE
