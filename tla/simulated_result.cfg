SPECIFICATION Spec
CONSTANTS
  a = a
  b = b
  c = c
  ab = ab
  bc = bc
  Pools <- TwoPools
  InitialScale = 1
  Scales <- TwoScales
  Curve <- FlatCurve
  Xcp <- FlatXcp
  ONE = 4
  FRACTIONAL = 1000000
  MINIMUM_LIQUIDITY_AMOUNT = 2
  MAX_SWAP_OPERATIONS = 2
  MIN_TRADE_SIZE = 2
  MaxReserve = 18
  Deposits <- DepositPairs
  Fees = {0, 1}
  Withdrawals <- LpAmounts
  Paths <- TradePaths
  Offers = {5}
PROPERTY EndResultSimulated
CHECK_DEADLOCK FALSE
