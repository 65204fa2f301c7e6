SPECIFICATION RSpec
CONSTANTS
  g = g  a1 = a1  a2 = a2  a3 = a3  a4 = a4  a5 = a5  b2 = b2  b3 = b3  zero = zero
  u = u  c = c  v1 = v1  v2 = v2  v3 = v3  s1 = s1  s2 = s2
  DataKey = {u, c}
  DataVal = {v1, v2, v3}
  Absent = Absent
  Block <- MCBlock
  Genesis = g
  Prev <- MCPrev
  Height <- MCHeight
  Snapshot = {s1, s2}
  Indexed <- MCIndexed
  MempoolIndexed <- MCMempoolIndexed
  MaxRollback = 1
  StopAfter = 4
  MaxU64 = 99
INVARIANTS
  ConsistentAcrossCrashes
  TableMirrorsBuffer
  CanReopen
  MempoolRecoverable
