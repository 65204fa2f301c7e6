SPECIFICATION Spec
CONSTANTS
  Hash = {h1, h2}
  DataKey = {k}
  Absent = Absent
  LogicalSpan = 8
  ClockStepsBack = FALSE
  InstantRestart = FALSE
  MaxNow = 1
  MaxCommits = 4
SYMMETRY TipSymmetry
INVARIANTS IndexReadsLast ServedConsistent ServedFresh
PROPERTY CommitsIncrease
CHECK_DEADLOCK FALSE
