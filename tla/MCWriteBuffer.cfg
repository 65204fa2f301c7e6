SPECIFICATION Spec
CONSTANTS
  Key = {counter, row}
  Settable = {counter, row}
  Deletable = {row}
  Mergeable = {counter}
  Amount = {1, 2}
  MaxValue = 4
  Saturating = FALSE
  Absent = Absent
  MaxOperands = 3
INVARIANTS ReadsOwnWrites StoreIsSequential
CHECK_DEADLOCK FALSE
