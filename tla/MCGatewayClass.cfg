SPECIFICATION Spec
CONSTANTS
  Classes = {c1, c2}
  Absent = Absent
  Pending = Pending
  MaxEdits = 2
  MaxFaults = 1
  MaxRestarts = 1
INVARIANTS
  TypeOK
  AcceptanceIsDue
PROPERTIES
  NothingOverwritten
  AcceptanceConverges
  HandlerRests
CHECK_DEADLOCK FALSE
