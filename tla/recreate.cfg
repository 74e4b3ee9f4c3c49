SPECIFICATION FairSpec
CONSTANTS
  alice = alice
  pool_manager = pool_manager
  aarch = aarch
  ibc = ibc
  x = x
  y = y
  l1 = l1
  l2 = l2
  NoAddr = NoAddr
  Users = {alice}
  PoolManager = pool_manager
  Denoms = {aarch}
  Cw20s = {x}
  LpTokens = {l1, l2}
  DENOM = aarch
  MaxUint = 6
  MINIMUM_LIQUIDITY_AMOUNT = 1
  MAX_SWAP_OPERATIONS = 2
  FRACTIONAL = 1000000
  InitialFunds = 5
  PairRequests <- NativePair
  Paths <- NativePaths
  Amounts = {2, 3}
  Receivers = {alice}
  CurveOutputs = {1, 3}
  MaxShortfall = 4
INVARIANT LpBinding
PROPERTIES SupplyStaysPositive QueuedMintServed
CHECK_DEADLOCK FALSE
