\* Two requests that race for one issue and its comment, with failures.
CONSTANTS
  User = {u1}
  EquipmentId = {e1}
  IssueId = {i1}
  CommentId = {c1}
  Severities <- CriticalOrNot
  NotYet = NotYet
  Gone = Gone
  NoUser = NoUser
  Idle = Idle
  Worker = {w1, w2}
  Endpoints <- IssuesAndComments
  MayFail = TRUE
  OneWriter = FALSE
SYMMETRY Symmetry
CHECK_DEADLOCK FALSE
SPECIFICATION RequestSpec
INVARIANTS
  CommentsIntact
  ResolvedHasTime
PROPERTIES
  NoColumnLost
