SPECIFICATION Spec
CONSTANTS
  Hash = {h1, h2}
  DataKey = {k}
  Absent = Absent
  LogicalSpan = 8
  ClockStepsBack = TRUE
  InstantRestart = FALSE
  MaxNow = 2
  MaxCommits = 4
SYMMETRY TipSymmetry
INVARIANT IndexReadsLast
CHECK_DEADLOCK FALSE
