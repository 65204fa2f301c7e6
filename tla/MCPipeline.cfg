SPECIFICATION PSpec
CONSTANTS
  g = g  a1 = a1  a2 = a2  a3 = a3  b3 = b3  b4 = b4
  zero = zero  u = u  v1 = v1  v2 = v2  s1 = s1
  DataKey = {u}
  DataVal = {v1, v2}
  Absent = Absent
  Block <- MCBlock
  Genesis = g
  Prev <- MCPrev
  Height <- MCHeight
  Snapshot = {s1}
  Indexed <- MCIndexed
  MempoolIndexed <- MCMempoolIndexed
  MaxRollback = 2
  StopAfter = 9
  MaxU64 = 99
  PageSize = 2
  CursorLen = 2
  QueueSize = 3
  MaxReorg = 1
  MaxFaults = 1
  MaxFlushes = 1
INVARIANTS
  CursorIsDestination
  TemplatesNotBelow
  AlignedReorgHandled
PROPERTIES
  Converges
