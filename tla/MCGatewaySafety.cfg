SPECIFICATION Spec
CONSTANTS
  Keys = {g1}
  Routes = {r1}
  Workers = {w1, w2}
  NoKey = NoKey
  Absent = Absent
  Tombstone = Tombstone
  Edits = {"CreateGateway", "CreateForeign", "EditGateway", "ReclassGateway", "DeleteGateway", "CreateRoute", "EditRoute", "MoveRoute", "DeleteRoute", "EditBackend", "Relist"}
  Faults = {"deploy", "push", "status"}
  BrokenBackends = {1}
  MaxEdits = 2
  MaxFaults = 1
  MaxRestarts = 1
SYMMETRY Symmetry
INVARIANTS
  TypeOK
  NoCleanupOfSteadyGateway
PROPERTIES
  SnapshotNeverRegresses
  StatusAfterPush
CHECK_DEADLOCK FALSE
