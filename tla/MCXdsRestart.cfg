SPECIFICATION RestartSpec
CONSTANTS
  Keys = {k1}
  Workers = {w1}
  NoKey = NoKey
  Inconsistent = {}
  MaxChanges = 2
  MaxVersion = 2
INVARIANTS
  UpToDateMeansSame
CHECK_DEADLOCK FALSE
