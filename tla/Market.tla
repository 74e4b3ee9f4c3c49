------------------------------- MODULE Market -------------------------------
(***************************************************************************)
(* What the pools charge and pay: LP shares, the profit state kept in      *)
(* POOLS, quotes, and the swaps users send after having asked for one.     *)
(* A transaction is one step here; how it is executed message by message   *)
(* and who holds the assets is the subject of PinaColada.                  *)
(*                                                                         *)
(* The curve is a library (astroport-pcl-common): what compute_swap        *)
(* returns and the xcp it assigns to reserves are operators given as       *)
(* constants.  They depend on the pool, whose amp, gamma and fees never    *)
(* change, and on its price scale, which update_price may move.            *)
(*                                                                         *)
(* A definition marked "slip" is no part of the model (see PinaColada).    *)
(***************************************************************************)
EXTENDS Integers, Sequences, FiniteSets

CONSTANTS
  Pools,            \* bound: pool -> its two assets; created, with LP tokens
  InitialScale,     \* the price_scale CreatePair asks for
  Scales,           \* bound: the values price_scale takes
  Curve(_, _, _, _, _),  \* compute_swap: pool, scale, reserves, ask_ind, amount -> dy
  Xcp(_, _, _),     \* get_xcp(calc_d(xs), scale): pool, scale, reserves above zero
  ONE,              \* Decimal256::one()
  FRACTIONAL,       \* 10^18: decimals are multiples of its inverse, rounded down
  MINIMUM_LIQUIDITY_AMOUNT,
  MAX_SWAP_OPERATIONS,
  MIN_TRADE_SIZE,
  MaxReserve,       \* Uint128::MAX, for reserves and LP tokens
  Deposits,         \* bound: pool -> the pairs of amounts clients deposit
  Fees,             \* bound: the provide fees, in LP units
  Withdrawals,      \* bound: pool -> the numbers of LP tokens withdrawn or burnt
  Paths,            \* bound: the operation lists clients send
  Offers            \* bound: the amounts clients swap

ASSUME MarketAssumption ==
  /\ ONE \in Nat \ {0} /\ MINIMUM_LIQUIDITY_AMOUNT \in Nat \ {0}
  /\ MAX_SWAP_OPERATIONS \in Nat /\ MIN_TRADE_SIZE \in Nat /\ MaxReserve \in Nat
  /\ \A k, l \in DOMAIN Pools : Pools[k][1] # Pools[k][2]
       /\ ({Pools[k][1], Pools[k][2]} = {Pools[l][1], Pools[l][2]} => k = l)
  /\ \A k \in DOMAIN Pools : Deposits[k] \subseteq Nat \X Nat /\ Withdrawals[k] \subseteq Nat
  /\ Fees \subseteq Nat /\ Offers \subseteq 0..MaxReserve
  /\ \A ops \in Paths : Len(ops) \in Nat
  /\ FRACTIONAL \in Nat \ {0} /\ InitialScale \in Scales
  /\ \A k \in DOMAIN Pools, s \in Scales :
       /\ \A x, y \in 0..MaxReserve : Xcp(k, s, <<x, y>>) \in Nat
       /\ \A x, y, n \in 1..MaxReserve, ask \in {1, 2} :
            Curve(k, s, <<x, y>>, ask, n) \in 0..MaxReserve

PoolIds == DOMAIN Pools

VARIABLES
  book,      \* PAIR_BALANCES: pool -> its two reserves
  supply,    \* pool -> total supply of its LP token
  profit,    \* pool -> price_state.xcp_profit_real
  scale,     \* pool -> price_state.price_scale
  request,   \* the swap a user has signed after a quote, not yet executed
  paid,      \* what the step just taken paid a trader
  withdrawn  \* history: the pools that have had a withdrawal

state == <<book, supply, profit, scale>>
vars == <<book, supply, profit, scale, request, paid, withdrawn>>

NoRequest == <<>>
Nothing == -1

Init ==
  /\ book = [k \in PoolIds |-> <<0, 0>>]
  /\ supply = [k \in PoolIds |-> 0]
  /\ profit = [k \in PoolIds |-> 0]
  /\ scale = [k \in PoolIds |-> InitialScale]
  /\ request = NoRequest
  /\ paid = Nothing
  /\ withdrawn = {}
-----------------------------------------------------------------------------
(* Operations name their pool by its assets, the offered one first. *)
Connects(k, op) ==
  {Pools[k][1], Pools[k][2]} = {op.offer_asset_info, op.ask_asset_info}
HasPool(op) == \E k \in PoolIds : Connects(k, op)
PoolOf(op) == CHOOSE k \in PoolIds : Connects(k, op)
OfferIndex(op) == IF Pools[PoolOf(op)][1] = op.offer_asset_info THEN 1 ELSE 2
Other(i) == 3 - i

(* assert_operations *)
ValidOperations(ops) ==
  /\ Len(ops) \in 1..MAX_SWAP_OPERATIONS
  /\ \A i \in 1..Len(ops) : ops[i].offer_asset_info # ops[i].ask_asset_info
  /\ \A i \in 2..Len(ops) : ops[i].offer_asset_info = ops[i - 1].ask_asset_info

(* before_swap_check *)
Tradable(reserves, n) == reserves[1] > 0 /\ reserves[2] > 0 /\ n > 0

(* query_lp_price: xcp per LP token, in units of 1 / ONE *)
PriceOf(k, s, reserves, lps) == (Xcp(k, s, reserves) * ONE) \div lps

(* update_price refuses an action that lowers the profit it has stored,    *)
(* at the scale the pool still has.                                        *)
MakesLoss(k, s, old, reserves, lps) == old > 0 /\ PriceOf(k, s, reserves, lps) < old

(* Otherwise it stores the profit of the action and may move the scale;    *)
(* the profit it leaves is the one at the new scale, peg.                  *)
Moves(priced, old) == priced /\ old > 0
-----------------------------------------------------------------------------
(* query_simulation: every hop is computed from the stored reserves and    *)
(* the stored price scale.                                                 *)
SimulateHop(n, op) ==
  LET i == OfferIndex(op)
      reserves == book[PoolOf(op)]
  IN IF n = Nothing \/ ~HasPool(op) THEN Nothing
     ELSE IF ~Tradable(reserves, n) THEN Nothing
     ELSE Curve(PoolOf(op), scale[PoolOf(op)], reserves, Other(i), n)

(* simulate_swap_operations *)
Simulate(ops, n) ==
  LET amount[i \in 0..Len(ops)] == IF i = 0 THEN n ELSE SimulateHop(amount[i - 1], ops[i])
  IN amount[Len(ops)]
-----------------------------------------------------------------------------
(* swap_internal reads the reserves after it has booked the offered amount *)
(* and takes that amount off again before it asks the curve.               *)
ReadAsBooked(raised, i, n) == raised  \* slip
BeforeOffer(raised, i, n) == [raised EXCEPT ![i] = @ - n]

(* swap_internal, on the storage earlier hops of the same call have left.  *)
(* Both the profit check and the storage see dy, fees staying in the pool. *)
Hop(st, op, peg) ==
  LET k == PoolOf(op)
      i == OfferIndex(op)
      s == st.scale[k]
      raised == [st.book[k] EXCEPT ![i] = @ + st.amount]
      xs == BeforeOffer(raised, i, st.amount)
      dy == Curve(k, s, xs, Other(i), st.amount)
      after == [raised EXCEPT ![Other(i)] = @ - dy]
      priced == st.amount >= MIN_TRADE_SIZE /\ dy >= MIN_TRADE_SIZE
      moves == Moves(priced, st.profit[k])
  IN IF ~st.ok \/ ~HasPool(op) THEN [st EXCEPT !.ok = FALSE]
     ELSE IF \/ raised[i] > MaxReserve \/ ~Tradable(xs, st.amount) \/ dy > xs[Other(i)]
             \/ priced /\ (after[Other(i)] = 0 \/ supply[k] = 0
                           \/ MakesLoss(k, s, st.profit[k], after, supply[k]))
     THEN [st EXCEPT !.ok = FALSE]
     ELSE [book |-> [st.book EXCEPT ![k] = after],
           scale |-> IF moves THEN [st.scale EXCEPT ![k] = peg] ELSE st.scale,
           profit |-> IF moves THEN [st.profit EXCEPT ![k] = PriceOf(k, peg, after, supply[k])]
                      ELSE st.profit,
           amount |-> dy, ok |-> TRUE]

(* The loop of execute_swap_operations. *)
AfterHops(ops, n, pegs) ==
  LET st[i \in 0..Len(ops)] ==
        IF i = 0
        THEN [book |-> book, scale |-> scale, profit |-> profit, amount |-> n, ok |-> TRUE]
        ELSE Hop(st[i - 1], ops[i], pegs[i])
  IN st[Len(ops)]

(* Where update_price may take the scale at each hop. *)
Pegs(ops) == [1..Len(ops) -> Scales]

(* What of a pool the curve reads and a transaction may change. *)
PoolState(k) == [reserves |-> book[k], price_scale |-> scale[k]]

(* A user asks for a quote and signs a swap that is to pay at least that.  *)
Quote(ops, n) ==
  /\ request = NoRequest
  /\ Simulate(ops, n) # Nothing
  /\ request' = [operations |-> ops, amount |-> n, minimum_receive |-> Simulate(ops, n),
                 seen |-> [k \in {PoolOf(ops[i]) : i \in 1..Len(ops)} |-> PoolState(k)]]
  /\ paid' = Nothing
  /\ UNCHANGED <<state, withdrawn>>

(* execute_swap_operations.  An empty payout is refused by the token; the  *)
(* minimum_receive of the message is not looked at.                        *)
Swap(ops, n, pegs) ==
  LET end == AfterHops(ops, n, pegs)
      done == ValidOperations(ops) /\ end.ok /\ end.amount > 0
  IN /\ paid' = IF done THEN end.amount ELSE Nothing
     /\ book' = IF done THEN end.book ELSE book
     /\ profit' = IF done THEN end.profit ELSE profit
     /\ scale' = IF done THEN end.scale ELSE scale
     /\ UNCHANGED <<supply, withdrawn>>

(* The signed swap is executed, now or when others have come first. *)
ExecuteRequest ==
  /\ request # NoRequest
  /\ \E pegs \in Pegs(request.operations) : Swap(request.operations, request.amount, pegs)
  /\ request' = NoRequest

(* Another user swaps. *)
SwapByOthers(ops, n) ==
  /\ \E pegs \in Pegs(ops) : Swap(ops, n, pegs)
  /\ paid' # Nothing
  /\ UNCHANGED request
-----------------------------------------------------------------------------
(* execute_provide_liquidity *)

FirstShareWhole(k, reserves) == Xcp(k, scale[k], reserves)  \* slip
FirstShare(k, reserves) == Xcp(k, scale[k], reserves) - MINIMUM_LIQUIDITY_AMOUNT

Lock(first) == IF first THEN MINIMUM_LIQUIDITY_AMOUNT ELSE 0

ShareOfFirstAsset(k, old, new, lps) == (lps * (new[1] - old[1])) \div old[1]  \* slip

(* What the pool's invariant has grown by, in LP tokens, rounded down. *)
AccruedShare(k, old, new, lps) ==
  (lps * Xcp(k, scale[k], new)) \div Xcp(k, scale[k], old) - lps

Distance(a, b) == IF a > b THEN a - b ELSE b - a

(* A deposit that is close to what the share stands for leaves the scale   *)
(* and the profit alone.                                                   *)
Balanced(deposit, new, share, lps) ==
  \E i \in 1..2 :
    Distance(deposit[i] * (lps + share), new[i] * share) < MIN_TRADE_SIZE * (lps + share)

ProvideLiquidity(k, deposit, fee, peg) ==
  LET old == book[k]
      new == <<old[1] + deposit[1], old[2] + deposit[2]>>
      first == supply[k] = 0
      share == IF first THEN FirstShare(k, new) ELSE AccruedShare(k, old, new, supply[k]) - fee
      total == supply[k] + share
      priced == ~Balanced(deposit, new, share, supply[k])
      moves == ~first /\ Moves(priced, profit[k])
  IN /\ deposit[1] + deposit[2] > 0
     /\ IF first THEN deposit[1] > 0 /\ deposit[2] > 0 /\ fee = 0 ELSE Xcp(k, scale[k], old) > 0
     /\ new[1] \in 1..MaxReserve /\ new[2] \in 1..MaxReserve
     /\ share > 0 /\ total + Lock(first) <= MaxReserve
     /\ priced => ~MakesLoss(k, scale[k], IF first THEN ONE ELSE profit[k], new, total)
     /\ book' = [book EXCEPT ![k] = new]
     /\ supply' = [supply EXCEPT ![k] = total + Lock(first)]
     /\ scale' = IF moves THEN [scale EXCEPT ![k] = peg] ELSE scale
     /\ profit' = [profit EXCEPT ![k] = IF first THEN ONE
                                        ELSE IF moves THEN PriceOf(k, peg, new, total) ELSE @]
     /\ paid' = Nothing /\ UNCHANGED <<request, withdrawn>>

AllOf(k) == supply[k]  \* slip

(* The LP tokens of a pool that are not locked in the contract. *)
Circulating(k) ==
  IF supply[k] > MINIMUM_LIQUIDITY_AMOUNT THEN supply[k] - MINIMUM_LIQUIDITY_AMOUNT ELSE 0

(* get_share_in_assets, of one LP unit less than was sent *)
ShareInAssets(reserve, n, total) ==
  (reserve * (((n - 1) * FRACTIONAL) \div total)) \div FRACTIONAL

(* execute_withdraw_liquidity.  It computes the profit anew and does not   *)
(* save it: POOLS keeps the old one.                                       *)
WithdrawLiquidity(k, n) ==
  LET refund == [i \in 1..2 |-> ShareInAssets(book[k][i], n, supply[k])]
      rest == [i \in 1..2 |-> book[k][i] - refund[i]]
  IN /\ n \in 1..Circulating(k)
     /\ \A i \in 1..2 : n <= book[k][i] /\ refund[i] > 0 /\ rest[i] > 0
     /\ book' = [book EXCEPT ![k] = <<@[1] - n, @[2] - n>>]
     /\ supply' = [supply EXCEPT ![k] = @ - n]
     /\ withdrawn' = withdrawn \cup {k}
     /\ paid' = Nothing /\ UNCHANGED <<profit, scale, request>>

(* A holder burns LP tokens on the token contract. *)
BurnLp(k, n) ==
  /\ n \in 1..Circulating(k)
  /\ supply' = [supply EXCEPT ![k] = @ - n]
  /\ paid' = Nothing /\ UNCHANGED <<book, profit, scale, request, withdrawn>>
-----------------------------------------------------------------------------
Next ==
  \/ \E ops \in Paths, n \in Offers : Quote(ops, n) \/ SwapByOthers(ops, n)
  \/ ExecuteRequest
  \/ \E k \in PoolIds : \E deposit \in Deposits[k], fee \in Fees, peg \in Scales :
       ProvideLiquidity(k, deposit, fee, peg)
  \/ \E k \in PoolIds : \E n \in Withdrawals[k] : WithdrawLiquidity(k, n) \/ BurnLp(k, n)

Spec == Init /\ [][Next]_vars
=============================================================================
