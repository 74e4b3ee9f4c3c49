SPECIFICATION Spec
CONSTANTS
  alice = alice
  pool_manager = pool_manager
  aarch = aarch
  ibc = ibc
  x = x
  y = y
  l1 = l1
  l2 = l2
  NoAddr = NoAddr
  Users = {alice}
  PoolManager = pool_manager
  Denoms = {aarch, ibc}
  Cw20s = {x}
  LpTokens = {l1, l2}
  DENOM = aarch
  MaxUint = 5
  MINIMUM_LIQUIDITY_AMOUNT = 1
  MAX_SWAP_OPERATIONS = 2
  FRACTIONAL = 1000000
  InitialFunds = 4
  PairRequests <- ForeignPairs
  Paths <- ForeignPaths
  Amounts = {1, 2}
  Receivers = {alice}
  CurveOutputs = {1, 2}
  MaxShortfall = 2
INVARIANTS Backed ProvideTakesWhatItBooks
CHECK_DEADLOCK FALSE
