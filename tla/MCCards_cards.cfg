SPECIFICATION Spec
CONSTANTS
  CardRows = 3
  CardCols = 4
  NumbersPerRow = 3
  TotalNumbers = 9
  MaxPerColumn = 3
  ColumnRange <- Ranges
CHECK_DEADLOCK FALSE
INVARIANTS
  TypeOK
  ReturnedIsValid
  FailsLate
