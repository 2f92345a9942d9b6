SPECIFICATION Spec
CONSTANTS
  Keys = {g1}
  Routes = {r1}
  Workers = {w1}
  NoKey = NoKey
  Absent = Absent
  Tombstone = Tombstone
  Edits = {"CreateForeign"}
  Faults = {}
  BrokenBackends = {}
  MaxEdits = 1
  MaxFaults = 0
  MaxRestarts = 0
INVARIANT
  OnlyOurClassConfigured
CHECK_DEADLOCK FALSE
