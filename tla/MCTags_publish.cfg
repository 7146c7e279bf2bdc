SPECIFICATION Spec
CONSTANTS
  Publication = {p1, p2, p3}
  Name = {1, 2, 3}
  None = None
  TagList <- ShortLists
SYMMETRY Symmetry
INVARIANTS RevisionsShareTags NoDeadlock
CHECK_DEADLOCK FALSE
