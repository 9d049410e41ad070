\* Two admins act on each other at once.
CONSTANTS
  AccountId = {k1, k2}
  Email = {boss, other}
  FIRST_ADMIN_EMAIL = boss
  Password = {p1}
  Name = {n1}
  Roles <- MemberOrAdmin
  Worker = {w1, w2}
  MayFail = FALSE
  NotYet = NotYet
CHECK_DEADLOCK FALSE
SPECIFICATION AccountSpec
PROPERTY
  AdminStays
