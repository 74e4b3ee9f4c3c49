SPECIFICATION Spec
CONSTANTS
  alice = alice
  pool_manager = pool_manager
  aarch = aarch
  ibc = ibc
  x = x
  y = y
  l1 = l1
  l2 = l2
  NoAddr = NoAddr
  Users = {alice}
  PoolManager = pool_manager
  Denoms = {aarch}
  Cw20s = {x, y}
  LpTokens = {l1, l2}
  DENOM = aarch
  MaxUint = 9
  MINIMUM_LIQUIDITY_AMOUNT = 1
  MAX_SWAP_OPERATIONS = 2
  FRACTIONAL = 1000000
  InitialFunds = 4
  PairRequests <- SharedPairs
  Paths <- SharedPaths
  Amounts = {2}
  Receivers = {alice}
  CurveOutputs = {1, 2}
  MaxShortfall = 4
INVARIANTS Backed HopsConserve
PROPERTY ImplementsLedger
CHECK_DEADLOCK FALSE
