\* One account, three requests at once, failures.
CONSTANTS
  User = {u1}
  ACCESS_TOKEN_EXPIRE = 2
  REFRESH_TOKEN_EXPIRE = 3
  Worker = {w1, w2, w3}
  MayFail = TRUE
  Idle = Idle
SPECIFICATION FairSessionSpec
INVARIANTS
  SessionTypeOK
  ShutOutInTime
  LoggedOutInTime
PROPERTIES
  NeverReadmitted
  DeactivatedGone
