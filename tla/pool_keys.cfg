SPECIFICATION Spec
CONSTANTS
  a = a
  b = b
  c = c
  Assets = {a, b, c}
  Natives = {a}
  Byte <- Bytes
  Name <- Names
  Leq <- InOrder
  Lists <- AssetLists
  Amounts = {0, 1}
  MaxReserve = 2
INVARIANT TypeOK
PROPERTIES ImplementsPairMap RequestsActByName
CHECK_DEADLOCK FALSE
