\* One asset, two issues racing for its status, a comment, two accounts.
CONSTANTS
  User = {u1, u2}
  EquipmentId = {e1}
  IssueId = {i1, i2}
  CommentId = {c1}
  Severities <- CriticalOrNot
  NotYet = NotYet
  Gone = Gone
  NoUser = NoUser
CONSTRAINT OneAtATime
SYMMETRY Symmetry
SPECIFICATION Spec
INVARIANTS
  TypeOK
  StampsMatchStatus
  AdminRemains
  CommentsIntact
PROPERTIES
  ClosedIsTerminal
  DecommissionedLeftAlone
  TransitionRestoresSync
  SyncLostOnlyBy
  CommentsLeaveOnlyBy
  AssigneeLostOnlyBy
