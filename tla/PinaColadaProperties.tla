------------------------ MODULE PinaColadaProperties ------------------------
(***************************************************************************)
(* What the pool manager promises about its books, its LP tokens and the   *)
(* account that holds the assets of all pools.                             *)
(***************************************************************************)
EXTENDS PinaColada

(* Type invariant *)

StorageType(st) ==
  /\ DOMAIN st.pools \subseteq PairKeys
  /\ \A k \in DOMAIN st.pools : st.pools[k] \in Config
  /\ DOMAIN st.pair_balances = DOMAIN st.pools
  /\ \A k \in DOMAIN st.pair_balances : st.pair_balances[k] \in Asset \X Asset
  /\ st.balances \in [Assets -> Uint128]
  /\ st.precisions \subseteq Assets
  /\ st.queued_mint \in PairKeys \cup {NoKey}
  /\ st.deployed \subseteq LpTokens
  /\ st.supply \in [LpTokens -> Uint128]
  /\ st.bal \in [Accounts -> [Assets -> Nat]]
  /\ st.shortfall \in [Assets -> 0..MaxShortfall]

(* Every variable stays in its range, in storage and in what a rollback    *)
(* would restore: checked 128-bit arithmetic never wraps, the reserves     *)
(* never go below zero, and every pool in POOLS has its PAIR_BALANCES.     *)
TypeOK ==
  /\ StorageType(Snapshot)
  /\ kind \in {"none", "create", "provide", "swap", "withdraw"}
  /\ IF Idle THEN saved = NoSnapshot ELSE StorageType(saved)
  /\ path \in Seq(SwapOperation) /\ hop \in 0..Len(path)
  /\ amount \in Uint128 /\ recipient \in Accounts
  /\ msgs \in Seq(Messages) /\ next \in 0..Len(msgs)
-----------------------------------------------------------------------------
(* Safety *)

(* An LP token belongs to one pool.  A pool is without one exactly while   *)
(* its creation is under way, when it is the pool QUEUED_MINT names; the   *)
(* queue's single slot is never left over for a later reply to pick up     *)
(* (execute_create_pair, reply).                                           *)
LpBinding ==
  /\ \A k \in DOMAIN pools :
       IF k = queued_mint THEN pools[k].liquidity_token = NoAddr
       ELSE pools[k].liquidity_token \in deployed
  /\ \A j, k \in DOMAIN pools :
       pools[j].liquidity_token = pools[k].liquidity_token => j = k
  /\ queued_mint # NoKey => kind = "create" /\ queued_mint \in DOMAIN pools

(* What PAIR_BALANCES records of asset a over all pools. *)
Book(pb, a) ==
  Total([c \in PairKeys \X {1, 2} |->
           IF c[1] \in DOMAIN pb /\ pb[c[1]][c[2]].info = a
           THEN pb[c[1]][c[2]].amount ELSE 0])

(* What the undispatched messages with these operations move of a. *)
Pending(ops, a) ==
  Total([m \in 1..Len(msgs) |->
           IF m > next /\ msgs[m].op \in ops /\ msgs[m].asset = a
           THEN msgs[m].amount ELSE 0])

InHop(a) == IF InSwapLoop /\ path[hop + 1].offer_asset_info = a THEN amount ELSE 0

(* The minimum liquidity the first deposit locks in the contract. *)
Locked(a) ==
  IF a \in LpTokens /\ supply[a] > 0 THEN MINIMUM_LIQUIDITY_AMOUNT ELSE 0

(* Solvency of the shared account.  What the contract holds of an asset,   *)
(* with the deposits still to be pulled in, covers what the books of all   *)
(* pools say together, the locked minimum liquidity, the payouts and burns *)
(* still to be dispatched and the amount a swap carries between two pools, *)
(* at every step of every transaction.  What may be missing is no more     *)
(* than three operations have booked without moving it: a swap whose hook  *)
(* token is not the asset offered, a native ask other than DENOM, and a    *)
(* withdrawal that pays out more than it takes from the book.              *)
Backed ==
  \A a \in Assets :
    bal[PoolManager][a] + Pending({"transfer_from"}, a) + shortfall[a]
      >= Book(pair_balances, a) + Locked(a) + Pending({"transfer", "burn"}, a) + InHop(a)

(* A deposit that has dispatched its messages moved into the contract's    *)
(* account exactly what it added to the pool's book, whatever the order of *)
(* the assets in the request and whether they are native or cw20.          *)
ProvideTakesWhatItBooks ==
  kind = "provide" /\ next = Len(msgs) =>
    \A a \in Assets \ LpTokens :
      bal[PoolManager][a] - saved.bal[PoolManager][a]
        = Book(pair_balances, a) - Book(saved.pair_balances, a)

(* When the loop of a swap has ended, the books together have neither lost *)
(* nor gained any asset that the swap only passed through, and of the last *)
(* asset they lost what is paid out, also when the path visits a pool more *)
(* than once.                                                              *)
HopsConserve ==
  kind = "swap" /\ hop = Len(path) =>
    \A a \in Assets \ {path[1].offer_asset_info} :
      Book(pair_balances, a)
        + (IF a = path[Len(path)].ask_asset_info THEN amount ELSE 0)
        = Book(saved.pair_balances, a)

(* A deposit into a pool that tracks its balances leaves BALANCES equal to *)
(* the pool's book, although the two are written from different reads.     *)
ProvideTracksBook ==
  kind = "provide" =>
    \A k \in DOMAIN pools :
      pools[k].track_asset_balances /\ pair_balances[k] # saved.pair_balances[k] =>
        \A i \in 1..2 : balances[pair_balances[k][i].info] = pair_balances[k][i].amount

(* Once minted, an LP token's supply returns to zero only by rollback, so  *)
(* that the branch of execute_provide_liquidity for the first deposit runs *)
(* once per LP token: withdrawals, burns by holders and swaps leave the    *)
(* locked minimum in place.                                                *)
SupplyStaysPositive ==
  [][\A l \in LpTokens :
       shortfall[l] = 0 /\ supply[l] > 0 /\ supply'[l] = 0 => ~Idle /\ supply' = saved.supply]_vars

(* Liveness: the pool named by QUEUED_MINT gets its LP token or its        *)
(* creation is undone; no pool is left waiting for a reply.                *)
QueuedMintServed ==
  \A k \in PairKeys :
    k \in DOMAIN pools /\ pools[k].liquidity_token = NoAddr
      ~> k \notin DOMAIN pools \/ pools[k].liquidity_token # NoAddr
-----------------------------------------------------------------------------
(* What comments of the code say and the code does not do *)

(* msg.rs, WithdrawLiquidity: "Withdraw liquidity from the pool".  Some    *)
(* user holds more of each asset paid out when the messages are through.   *)
WithdrawPaysUser ==
  kind = "withdraw" /\ next = Len(msgs) =>
    \A m \in 1..Len(msgs) : msgs[m].op = "transfer" =>
      \E u \in Users : bal[u][msgs[m].asset] > saved.bal[u][msgs[m].asset]

(* state.rs, BALANCES: "Stores asset balances to query them later at any   *)
(* block height".  For a pool that tracks them they are the pool's.        *)
TrackedBalancesCurrent ==
  Idle => \A k \in DOMAIN pools : pools[k].track_asset_balances =>
            \A i \in 1..2 : balances[pair_balances[k][i].info] = pair_balances[k][i].amount

(* The same comment, of a withdrawal all of whose messages succeed: it     *)
(* leaves BALANCES of a pool that tracks them equal to the pool's book, as *)
(* a deposit does.                                                         *)
WithdrawTracksBook ==
  kind = "withdraw" /\ next = Len(msgs) =>
    \A k \in DOMAIN pools :
      pools[k].track_asset_balances /\ pair_balances[k] # saved.pair_balances[k] =>
        \A i \in 1..2 : balances[pair_balances[k][i].info] = pair_balances[k][i].amount
=============================================================================
