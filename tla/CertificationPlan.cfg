SPECIFICATION Spec
CONSTANTS
  Plans <- MCPlans
  Prohibited <- MCProhibited
CHECK_DEADLOCK FALSE
INVARIANT
  ReadyCellsRun
  OnlyOwnObjects
  OnlyTheControlIsBlocked
