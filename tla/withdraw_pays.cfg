SPECIFICATION Spec
CONSTANTS
  alice = alice
  pool_manager = pool_manager
  aarch = aarch
  ibc = ibc
  x = x
  y = y
  l1 = l1
  l2 = l2
  NoAddr = NoAddr
  Users = {alice}
  PoolManager = pool_manager
  Denoms = {aarch}
  Cw20s = {x}
  LpTokens = {l1}
  DENOM = aarch
  MaxUint = 9
  MINIMUM_LIQUIDITY_AMOUNT = 1
  MAX_SWAP_OPERATIONS = 2
  FRACTIONAL = 1000000
  InitialFunds = 9
  PairRequests <- NativePair
  Paths <- NativePaths
  Amounts = {2, 9}
  Receivers = {alice}
  CurveOutputs = {2, 6}
  MaxShortfall = 4
INVARIANT WithdrawPaysUser
CHECK_DEADLOCK FALSE
