SPECIFICATION XdsSpec
CONSTANTS
  Keys = {k1, k2}
  Workers = {w1, w2}
  NoKey = NoKey
  Inconsistent = {1}
  MaxChanges = 2
  MaxVersion = 3
SYMMETRY Symmetry
INVARIANTS
  XdsInv
  VersionsDistinct
  UpToDateMeansSame
PROPERTIES
  VersionsIncrease
  EnvoyNeverRegresses
CHECK_DEADLOCK FALSE
