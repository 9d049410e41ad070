\* Each list, four rows, pages of one.
CONSTANTS
  MaxRows = 4
  Limit = 1
  Lists = {"users", "comments", "issues"}
SPECIFICATION FairPageSpec
INVARIANTS
  PageTypeOK
  MissedOnlyBy
  TwiceOnlyBy
PROPERTIES
  WalkEnds
