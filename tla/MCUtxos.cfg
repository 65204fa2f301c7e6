SPECIFICATION Spec
CONSTANTS
  g = g  a1 = a1  a2 = a2  a3 = a3  a4 = a4  b2 = b2  b3 = b3  e2 = e2  e3 = e3  e4 = e4
  k1 = k1  o = o  x = x  p = p  q = q  mt = mt  mtu = mtu  mu = mu  mw = mw
  Ref = {k1, o, x, p, q}
  Unspendable = {x}
  Block <- MCBlock
  Genesis = g
  Prev <- MCPrev
  Height <- MCHeight
  Txs <- MCTxs
  Snapshot = {mt, mtu, mu, mw}
  SnapshotTip <- MCSnapshotTip
  Absent = Absent
INVARIANTS
  TableIsUtxoSet
  CacheCoherent
  InputsResolved
