SPECIFICATION Spec
CONSTANTS
  Base = 5
  MaxDigits = 4
  Prefix <- MCPrefix
  Fields <- MCFields
  Keys <- MCKeys
INVARIANTS
  TableReadsExact
  RouteScansExact
