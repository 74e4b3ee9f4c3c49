------------------------------ MODULE PoolKeys ------------------------------
(***************************************************************************)
(* How the pool manager finds a pool: POOLS and PAIR_BALANCES are keyed by *)
(* the names of two assets, sorted and joined without a separator, and the *)
(* asset of a request is looked up by name in the entry that is found.     *)
(*                                                                         *)
(* A request is one step here, and so is one hop of a swap.  What is paid, *)
(* and when a request is refused for its amounts or its funds, is the      *)
(* subject of Market and PinaColada: any amounts may come here.            *)
(*                                                                         *)
(* Nothing is assumed of the names: a denom is whatever CreatePair is sent *)
(* (only its letter case is checked), and two pairs may have one key.      *)
(*                                                                         *)
(* A definition marked "slip" is no part of the model (see PinaColada).    *)
(***************************************************************************)
EXTENDS Integers, Sequences

CONSTANTS
  Assets,
  Natives,     \* the assets that are native coins, the others being cw20 tokens
  Byte,
  Name,        \* AssetInfo::as_bytes: asset -> its denom or address
  Leq(_, _),   \* the order of byte strings
  Lists,       \* bound: the lists of assets clients send
  Amounts,     \* bound: the amounts that come in or go out
  MaxReserve   \* bound: what a reserve may grow to

ASSUME NameAssumption == Name \in [Assets -> Seq(Byte)]

ASSUME LeqAssumption ==
  \A s, t \in Assets :
    /\ Leq(Name[s], Name[t]) \in BOOLEAN
    /\ Leq(Name[s], Name[t]) \/ Leq(Name[t], Name[s])
    /\ Leq(Name[s], Name[t]) /\ Leq(Name[t], Name[s]) => Name[s] = Name[t]

ASSUME BoundAssumption ==
  /\ MaxReserve \in Nat /\ Amounts \subseteq Nat
  /\ \A assets \in Lists : assets \in Seq(Assets)

VARIABLES
  pools,     \* POOLS: key -> pair_info.asset_infos
  balances,  \* PAIR_BALANCES: key -> the amounts, in the order of asset_infos
  precise    \* PRECISIONS: the names with a stored precision

vars == <<pools, balances, precise>>

Init ==
  /\ pools = <<>>
  /\ balances = <<>>
  /\ precise = {}
-----------------------------------------------------------------------------
KeyAsNamed(s, t) == Name[s] \o Name[t]  \* slip

(* pair_key *)
PairKey(s, t) ==
  IF Leq(Name[s], Name[t]) THEN Name[s] \o Name[t] ELSE Name[t] \o Name[s]

(* generate_key_from_assets takes the first two: a shorter list panics,    *)
(* before execute_provide_liquidity gets to the asset it would append.     *)
HasKey(assets) == Len(assets) >= 2
KeyOf(assets) == PairKey(assets[1], assets[2])

Put(f, k, v) == [j \in DOMAIN f \cup {k} |-> IF j = k THEN v ELSE f[j]]

(* find_asset_index *)
HasAsset(k, s) == pools[k][1] = s \/ pools[k][2] = s
Index(k, s) == IF pools[k][1] = s THEN 1 ELSE 2

(* query_pools: the reserves, under the key of the pool's own assets *)
QueryPools(k) == balances[PairKey(pools[k][1], pools[k][2])]

AddAsSent(i, m, n, amounts) == <<amounts[1] + m, amounts[2] + n>>  \* slip

(* m to the asset at index i, n to the other one *)
Add(i, m, n, amounts) == IF i = 1 THEN <<amounts[1] + m, amounts[2] + n>>
                         ELSE <<amounts[1] + n, amounts[2] + m>>

Fits(amounts) == amounts[1] \in 0..MaxReserve /\ amounts[2] \in 0..MaxReserve
-----------------------------------------------------------------------------
(* execute_create_pair: a pool that exists is overwritten. *)
CreatePair(assets) ==
  /\ Len(assets) = 2
  /\ assets[1] # assets[2]
  /\ pools' = Put(pools, KeyOf(assets), assets)
  /\ balances' = Put(balances, KeyOf(assets), <<0, 0>>)
  /\ precise' = precise \cup {Name[assets[1]], Name[assets[2]]}

(* assert_coins_properly_sent *)
CoinsInPool(k, assets) == \A i \in 1..2 : assets[i] \in Natives => HasAsset(k, assets[i])

(* execute_provide_liquidity: the amounts are exchanged if the second      *)
(* asset of the request is the first of the pool.  A second asset that is  *)
(* a token need not be in the pool.                                        *)
ProvideLiquidity(assets, m, n) ==
  LET k == KeyOf(assets)
      new == Add(IF pools[k][1] = assets[2] THEN 2 ELSE 1, m, n, balances[k])
  IN /\ HasKey(assets) /\ k \in DOMAIN pools
     /\ Len(assets) = 2
     /\ HasAsset(k, assets[1])
     /\ assets[1] # assets[2] /\ CoinsInPool(k, assets)
     /\ Name[assets[1]] \in precise /\ Name[assets[2]] \in precise
     /\ Fits(new)
     /\ balances' = [balances EXCEPT ![k] = new]
     /\ UNCHANGED <<pools, precise>>

(* swap_internal: m of the offered asset comes in; what is asked for is    *)
(* taken from the other side of the entry, whatever its name is.           *)
SwapInternal(assets, m, n) ==
  LET k == KeyOf(assets)
      new == Add(Index(k, assets[1]), m, -n, balances[k])
  IN /\ Len(assets) = 2 /\ assets[1] # assets[2]
     /\ k \in DOMAIN pools
     /\ HasAsset(k, assets[1])
     /\ Name[assets[1]] \in precise
     /\ m > 0 /\ QueryPools(k)[1] > 0 /\ QueryPools(k)[2] > 0  \* before_swap_check
     /\ Fits(new)
     /\ balances' = [balances EXCEPT ![k] = new]
     /\ UNCHANGED <<pools, precise>>

(* execute_withdraw_liquidity: both sides fall by the LP tokens; assets    *)
(* beyond the first two are ignored.                                       *)
WithdrawLiquidity(assets, n) ==
  LET k == KeyOf(assets)
      new == Add(1, -n, -n, balances[k])
  IN /\ HasKey(assets) /\ k \in DOMAIN pools
     /\ Fits(new)
     /\ balances' = [balances EXCEPT ![k] = new]
     /\ UNCHANGED <<pools, precise>>

Next ==
  \E assets \in Lists :
    \/ CreatePair(assets)
    \/ \E m, n \in Amounts : ProvideLiquidity(assets, m, n) \/ SwapInternal(assets, m, n)
    \/ \E n \in Amounts : WithdrawLiquidity(assets, n)

Spec == Init /\ [][Next]_vars
-----------------------------------------------------------------------------
(* Type invariant.  The tables have the same keys; each pool is stored     *)
(* under the key of its own assets, as query_pools relies on when it looks *)
(* up the balances by the pool's assets and not by the request's; and no   *)
(* two entries are about the same two assets.                              *)
TypeOK ==
  /\ DOMAIN balances = DOMAIN pools
  /\ \A k \in DOMAIN pools :
       /\ pools[k] \in Assets \X Assets
       /\ pools[k][1] # pools[k][2]
       /\ k = PairKey(pools[k][1], pools[k][2])
       /\ Name[pools[k][1]] \in precise /\ Name[pools[k][2]] \in precise
       /\ balances[k] \in (0..MaxReserve) \X (0..MaxReserve)
       /\ \A j \in DOMAIN pools : pools[j] # <<pools[k][2], pools[k][1]>>
  /\ precise \subseteq {Name[s] : s \in Assets}

(* What the tables say about assets, by name. *)
HasPool(s, t) ==
  LET k == PairKey(s, t)
  IN s # t /\ k \in DOMAIN pools /\ {pools[k][1], pools[k][2]} = {s, t}
open == {p \in Assets \X Assets : HasPool(p[1], p[2])}
held == [s \in Assets |-> [t \in Assets |->
           IF HasPool(s, t) THEN balances[PairKey(s, t)][Index(PairKey(s, t), s)] ELSE 0]]

(* Two pairs with one key: ("aba", "ba") and ("ab", "aba"). *)
Clash(p, q) ==
  PairKey(p[1], p[2]) = PairKey(q[1], q[2]) /\ {p[1], p[2]} # {q[1], q[2]}

Map == INSTANCE PairMap

(* The tables keyed by byte strings are a map from two assets to a pool:   *)
(* pair_key gives a pool the same key whichever asset is named first, and  *)
(* no step touches the pool of other assets than those of its key.  Pairs  *)
(* that clash share one place in it: to create one removes the other.      *)
ImplementsPairMap == Map!Spec

(* The pools a request for s and t may be carried out on: theirs, and only *)
(* if they have none, the one that has taken its place.                    *)
Addressed(s, t) ==
  IF <<s, t>> \in open THEN {<<s, t>>} ELSE {p \in open : Clash(p, <<s, t>>)}

(* And each request does to the pool of the assets it names what its       *)
(* amounts say, asset by asset, in whichever order the request and the     *)
(* creator of the pool named them.  If another pair has taken the place of *)
(* theirs, a swap still brings in the asset it offers, and a deposit and a *)
(* withdrawal change that other pool by the same amounts.                  *)
RequestsActByName ==
  [][\A assets \in Lists :
       LET s == assets[1]
           t == assets[2]
       IN /\ CreatePair(assets) => Map!Open(s, t)
          /\ \A m, n \in Amounts :
               /\ ProvideLiquidity(assets, m, n) =>
                    \E p \in Addressed(s, t) : Map!Deposit(p[1], p[2], m, n)
               /\ SwapInternal(assets, m, n) =>
                    \E p \in Addressed(s, t) : p[1] = s /\ Map!Exchange(p[1], p[2], m, n)
               /\ WithdrawLiquidity(assets, n) =>
                    \E p \in Addressed(s, t) : Map!Withdraw(p[1], p[2], n)]_vars
=============================================================================
