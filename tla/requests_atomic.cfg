\* Two requests in flight, issue endpoints and PATCHes of equipment, failures;
\* clients that do not race writes to one asset.
CONSTANTS
  User = {u1}
  EquipmentId = {e1}
  IssueId = {i1, i2}
  CommentId = {c1}
  Severities <- CriticalOrNot
  NotYet = NotYet
  Gone = Gone
  NoUser = NoUser
  Idle = Idle
  Worker = {w1, w2}
  Endpoints <- IssueWrites
  MayFail = TRUE
  OneWriter = TRUE
SYMMETRY Symmetry
CHECK_DEADLOCK FALSE
SPECIFICATION RequestSpec
INVARIANTS
  RequestTypeOK
PROPERTIES
  AtomicSpec
