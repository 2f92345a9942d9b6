SPECIFICATION FairSpec
CONSTANTS
  Absent = Absent
  Kinds = {"Deployment", "Service"}
  ManifestOrder <- Order
  Awaited = {"Service"}
  Polled = {"Deployment", "Service"}
  MaxUids = 2
  MaxOthers = 2
  MaxRestarts = 1
INVARIANTS
  TypeOK
  NoTakeoverOfAwaited
  DeployedMeansOwned
PROPERTIES
  EventuallyDeployed
  EventuallyCollected
CHECK_DEADLOCK FALSE
