--------------------------- MODULE MarketProperties ---------------------------
(***************************************************************************)
(* What users may rely on when they trade and hold LP tokens.              *)
(***************************************************************************)
EXTENDS Market

InBounds(books) == books \in [PoolIds -> (0..MaxReserve) \X (0..MaxReserve)]

(* Type invariant.  Reserves stay within their bounds, and a pool that has *)
(* any always has the locked minimum of LP tokens against them.            *)
TypeOK ==
  /\ InBounds(book)
  /\ supply \in [PoolIds -> Nat]
  /\ \A k \in PoolIds :
       supply[k] >= MINIMUM_LIQUIDITY_AMOUNT \/ (supply[k] = 0 /\ book[k] = <<0, 0>>)
  /\ profit \in [PoolIds -> Nat] /\ scale \in [PoolIds -> Scales]
  /\ request # NoRequest =>
       /\ request.operations \in Paths /\ request.amount \in Offers
       /\ request.minimum_receive \in Nat
  /\ paid \in Nat \cup {Nothing}
  /\ withdrawn \subseteq PoolIds
-----------------------------------------------------------------------------
(* Quotes *)

RequestPays == request # NoRequest /\ request' = NoRequest /\ paid' # Nothing

VisitsOnce(ops) ==
  \A i, j \in 1..Len(ops) : PoolOf(ops[i]) = PoolOf(ops[j]) => i = j

Unchanged(req) == \A k \in DOMAIN req.seen : PoolState(k) = req.seen[k]

(* A swap pays what simulate_swap_operations answered, if no pool on its   *)
(* path has other reserves or another price scale by then, and it goes     *)
(* through each pool once: query_simulation on what is stored and          *)
(* swap_internal on reserves it has already changed agree.                 *)
QuoteHolds ==
  [][RequestPays /\ VisitsOnce(request.operations) /\ Unchanged(request)
       => paid' = request.minimum_receive]_vars

(* Shares and profit *)

(* The profit stored for a pool is not above what its LP token is worth at *)
(* the pool's price scale, as long as nobody has withdrawn from the pool:  *)
(* otherwise update_price takes the next swap or deposit for a loss and    *)
(* refuses it.  The first deposit sets it to one, the minimum liquidity    *)
(* being part of the supply.                                               *)
ProfitCovered ==
  \A k \in PoolIds \ withdrawn : supply[k] > 0 => profit[k] <= PriceOf(k, scale[k], book[k], supply[k])

(* The reserves after n of asset i has been swapped for dy of the other. *)
Traded(reserves, i, n, dy) ==
  IF i = 1 THEN <<reserves[1] + n, reserves[2] - dy>>
  ELSE <<reserves[1] - dy, reserves[2] + n>>

(* What the handlers expect of the library without checking it: a swap too *)
(* small for update_price does not lower the pool's invariant.             *)
SmallSwapsKeepValue ==
  \A k \in PoolIds, s \in Scales, m, n, offer \in 1..MaxReserve, i \in {1, 2} :
    LET reserves == <<m, n>>
        dy == Curve(k, s, reserves, Other(i), offer)
    IN /\ reserves[i] + offer <= MaxReserve /\ dy <= reserves[Other(i)]
       /\ offer < MIN_TRADE_SIZE \/ dy < MIN_TRADE_SIZE
       => Xcp(k, s, Traded(reserves, i, offer, dy)) >= Xcp(k, s, reserves)

(* A deposit, balanced or not, does not lower what an LP token is worth to *)
(* those who already hold it: the share is rounded down and computed from  *)
(* the reserves before the deposit, at the scale before update_price.      *)
DepositDilutesNobody ==
  [][\A k \in PoolIds : supply[k] > 0 /\ supply'[k] > supply[k] =>
       Xcp(k, scale[k], book'[k]) * supply[k] >= Xcp(k, scale[k], book[k]) * supply'[k]]_vars
-----------------------------------------------------------------------------
(* What comments of the code say and the code does not do *)

(* msg.rs, ExecuteSwapOperations: "mentioning the minimum amount of tokens *)
(* to receive for the last swap operation".  A swap that pays, pays it.    *)
MinimumReceived ==
  [][RequestPays => paid' >= request.minimum_receive]_vars

(* contract.rs, SimulateSwapOperations: "returns the end result".  A swap  *)
(* of pools that are as they were when it was simulated pays that result.  *)
EndResultSimulated ==
  [][RequestPays /\ Unchanged(request) => paid' = request.minimum_receive]_vars
=============================================================================
