SPECIFICATION Spec
CONSTANTS
  s = s  t = t  op = op  a = a  b = b
  Script = {s, t, op}
  OpReturn = {op}
  App = {a, b}
  Template <- MCTemplate
  StartHeight = 2
  MaxTxs = 3
  MaxHeight = 3
  None = None
INVARIANTS
  AddressRowsExact
  TxCountExact
  CharmsTablesAgree
  RoutesAgree
CHECK_DEADLOCK FALSE
