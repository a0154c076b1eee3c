SPECIFICATION Spec
CONSTANTS
  Row <- Rows
  Operation <- Operations
  NewName = "cafe"
  MaxRows = 2
  MaxRecorded = 2
  MaxImports = 1
  NULL = NULL
INVARIANT AdoptedIsFound
CHECK_DEADLOCK FALSE
