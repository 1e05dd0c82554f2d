SPECIFICATION Spec
CONSTANTS
  Documents <- MCDocuments
  MaxRuns = 2
CHECK_DEADLOCK FALSE
INVARIANT
  OnlyStagingIsRefused
  RerunLoadsOnce
  UsesItsOwnObjects
  ColumnsHoldTheirValues
PROPERTY
  TheirRowsStay
