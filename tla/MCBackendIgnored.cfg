SPECIFICATION FairSpec
CONSTANTS
  Keys = {g1}
  Routes = {r1}
  Workers = {w1}
  NoKey = NoKey
  Absent = Absent
  Tombstone = Tombstone
  Edits = {"EditBackend"}
  Faults = {}
  BrokenBackends = {}
  MaxEdits = 1
  MaxFaults = 0
  MaxRestarts = 0
PROPERTY
  SnapshotConverges
CHECK_DEADLOCK FALSE
