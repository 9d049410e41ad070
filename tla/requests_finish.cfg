\* Two requests on one issue and one asset, their row locks, and failures.
CONSTANTS
  User = {u1}
  EquipmentId = {e1}
  IssueId = {i1}
  CommentId = {}
  Severities <- OneSeverity
  NotYet = NotYet
  Gone = Gone
  NoUser = NoUser
  Idle = Idle
  Worker = {w1, w2}
  Endpoints <- LockWaits
  MayFail = TRUE
  OneWriter = FALSE
CHECK_DEADLOCK FALSE
SPECIFICATION FairRequestSpec
PROPERTIES
  RequestsFinish
  AssetColumnOnly
