\* Two transitions of one issue race.
CONSTANTS
  User = {u1}
  EquipmentId = {e1}
  IssueId = {i1}
  CommentId = {}
  Severities <- OneSeverity
  NotYet = NotYet
  Gone = Gone
  NoUser = NoUser
  Idle = Idle
  Worker = {w1, w2}
  Endpoints <- Transitions
  MayFail = FALSE
  OneWriter = FALSE
CHECK_DEADLOCK FALSE
SPECIFICATION RequestSpec
PROPERTY
  ClosedIsTerminal
