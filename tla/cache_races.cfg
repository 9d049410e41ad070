\* Two requests at once, two assets, two pages, failures.
CONSTANTS
  MaxAssets = 2
  MaxWrites = 2
  Serial = {s1}
  NoSerial = NoSerial
  Statuses <- InService
  AnyStatus = "any"
  Key <- TwoKeys
  Worker = {w1, w2}
  MayFail = TRUE
  None = None
CHECK_DEADLOCK FALSE
SPECIFICATION FairListSpec
INVARIANTS
  ListTypeOK
  SerialUnique
  WalkSeesAll
  StaleExcused
PROPERTIES
  PagesSettle
