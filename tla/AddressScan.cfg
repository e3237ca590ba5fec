SPECIFICATION Spec
CONSTANTS
  Base = 2
  ServerAddress = 14
  MinAddress = 2
  MaxAddress = 5
  NullId = NullId
  EmptyId = EmptyId
  Tables <- AllTables
INVARIANTS
  TypeOK
  ScanIsAssignAddress
PROPERTIES
  ScanReturns
CHECK_DEADLOCK FALSE
