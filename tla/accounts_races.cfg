\* Two requests or starting processes at once, on a fresh database, with failures.
CONSTANTS
  AccountId = {k1, k2}
  Email = {boss, other}
  FIRST_ADMIN_EMAIL = boss
  Password = {p1, p2}
  Name = {n1, n2}
  Roles <- MemberOrAdmin
  Worker = {w1, w2}
  MayFail = TRUE
  NotYet = NotYet
SYMMETRY Symmetry
CHECK_DEADLOCK FALSE
SPECIFICATION AccountSpec
INVARIANTS
  AccountTypeOK
  EmailUnique
  AnswersHold
PROPERTIES
  OwnColumnOnly
  AdminLostOnlyBy
