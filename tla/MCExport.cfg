CONSTANTS
  Rows <- MCRows
  Names <- MCNames
  Requests <- MCRequests
  BatchSize = 2
  AllRows = AllRows
  MaxTime = 2
  MaxRuns = 2
SPECIFICATION Spec
INVARIANTS TypeOK ReadableFilesAreWhole
PROPERTIES SuccessMeansWritten OthersFilesStay
CHECK_DEADLOCK FALSE
