\* A list request and a write, without failures.
CONSTANTS
  MaxAssets = 2
  MaxWrites = 2
  Serial = {s1}
  NoSerial = NoSerial
  Statuses <- InService
  AnyStatus = "any"
  Key <- TwoKeys
  Worker = {w1, w2}
  MayFail = FALSE
  None = None
CHECK_DEADLOCK FALSE
SPECIFICATION ListSpec
INVARIANT
  PurgedMeansFresh
