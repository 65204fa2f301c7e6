SPECIFICATION Spec
CONSTANTS
  s = s  t = t  op = op  n = n
  Script = {s, t, op}
  OpReturn = {op}
  P2tr = {t}
  Name = {n}
  Unlocked <- MCUnlocked
  Template <- MCTemplate
  CommitConfirmations = 2
  StartHeight = 2
  index_activity = TRUE
  BlockSize <- MCBlockSize
  Coinbase <- MCCoinbase
  None = None
INVARIANTS
  Conserved
  SupplyBounded
  NamesAgree
  RowsMatchUtxos
  ActivityExplainsBalances
  RoutesAgree
CHECK_DEADLOCK FALSE
