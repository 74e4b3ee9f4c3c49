----------------------------- MODULE PinaColada -----------------------------
(***************************************************************************)
(* The pool manager contract and the chain it runs on.  One contract       *)
(* account holds the assets of every pool; PAIR_BALANCES is its book of    *)
(* what it holds for which pool.  A call is a transaction: the handler     *)
(* updates the contract's storage at once and answers with messages (token *)
(* transfers, mints, burns, an instantiation) that the chain dispatches    *)
(* one by one; if any of them fails, everything is rolled back.            *)
(*                                                                         *)
(* The pool curve (calc_d, compute_swap, update_price) is a library: what  *)
(* it returns is chosen from CurveOutputs, within the range the handlers   *)
(* accept.                                                                 *)
(*                                                                         *)
(* A definition marked "slip" is no part of the model: it is a mistake the *)
(* code could contain, put in the place of the definition that follows it  *)
(* to confirm that a property notices.                                     *)
(***************************************************************************)
EXTENDS Integers, Sequences, FiniteSets, Totals

CONSTANTS
  Users,          \* accounts that call the contract
  PoolManager,    \* the contract's own address
  Denoms,         \* native coins
  Cw20s,          \* cw20 tokens that exist from the start
  LpTokens,       \* addresses the LP tokens are instantiated at
  DENOM,          \* the native coin swaps are paid in
  NoAddr,         \* Addr::unchecked("")
  MaxUint,        \* Uint128::MAX: checked arithmetic aborts beyond it
  MINIMUM_LIQUIDITY_AMOUNT,
  MAX_SWAP_OPERATIONS,
  FRACTIONAL,     \* 10^18: decimals are multiples of its inverse, rounded down
  InitialFunds,   \* what each user holds of every asset that exists at first
  PairRequests,   \* bound: the pairs clients ask to create
  Paths,          \* bound: the operation lists clients send
  Amounts,        \* bound: the amounts clients send
  Receivers,      \* bound: the addresses clients name as receiver
  CurveOutputs,   \* bound: the amounts the pool curve may return
  MaxShortfall    \* bound: how far any book may outgrow what is held for it

Assets == Denoms \cup Cw20s \cup LpTokens
Accounts == Users \cup {PoolManager} \cup LpTokens
Uint128 == 0..MaxUint
SwapOperation == [offer_asset_info : Assets, ask_asset_info : Assets]

(* pair_key: the two assets, in no order. *)
PairKey(a, b) == {a, b}
PairKeys == {PairKey(pr[1], pr[2]) : pr \in {q \in Assets \X Assets : q[1] # q[2]}}
NoKey == {}

Config == [asset_infos : Assets \X Assets,
           liquidity_token : LpTokens \cup {NoAddr},
           track_asset_balances : BOOLEAN]
Asset == [info : Assets, amount : Uint128]

ASSUME PinaColadaAssumption ==
  /\ IsFiniteSet(Assets) /\ IsFiniteSet(Accounts)
  /\ PoolManager \notin Users \cup LpTokens
  /\ Users \cap LpTokens = {}
  /\ (Denoms \cup Cw20s) \cap LpTokens = {} /\ Denoms \cap Cw20s = {}
  /\ DENOM \in Denoms
  /\ NoAddr \notin LpTokens
  /\ MaxUint \in Nat /\ MAX_SWAP_OPERATIONS \in Nat /\ FRACTIONAL \in Nat \ {0}
  /\ MINIMUM_LIQUIDITY_AMOUNT \in 1..MaxUint
  /\ InitialFunds \in Uint128
  /\ PairRequests \subseteq [asset_infos : Assets \X Assets, track : BOOLEAN]
  /\ Paths \subseteq Seq(SwapOperation)
  /\ Amounts \subseteq Uint128 /\ CurveOutputs \subseteq Uint128
  /\ Receivers \subseteq Accounts
  /\ MaxShortfall \in Nat

VARIABLES
  \* contract storage
  pools,          \* POOLS: key -> configuration
  pair_balances,  \* PAIR_BALANCES: key -> the two assets with their amounts
  balances,       \* BALANCES: asset -> the amount last tracked
  precisions,     \* PRECISIONS: the assets whose decimals are stored
  queued_mint,    \* QUEUED_MINT: the key of the pool awaiting its LP token
  \* tokens
  deployed,       \* LP tokens that have been instantiated
  supply,         \* total supply of each LP token
  bal,            \* account -> asset -> amount
  \* the running transaction
  kind,           \* "none" between transactions
  path, hop,      \* a swap's operations and how many have been executed
  amount,         \* return_amount of the swap loop
  recipient,      \* receiver of a swap
  msgs, next,     \* the handler's messages and how many were dispatched
  saved,          \* what a rollback restores
  \* history
  shortfall       \* asset -> how much was booked but not moved

storage == <<pools, pair_balances, balances, precisions, queued_mint>>
tokens == <<deployed, supply, bal>>
txn == <<kind, path, hop, amount, recipient, msgs, next, saved>>
vars == <<storage, tokens, txn, shortfall>>
-----------------------------------------------------------------------------
(* Token ledgers: the bank and the cw20 contracts. *)

Credit(b, acct, a, n) == [b EXCEPT ![acct][a] = @ + n]
Debit(b, acct, a, n) == [b EXCEPT ![acct][a] = @ - n]
Move(b, from, to, a, n) == Credit(Debit(b, from, a, n), to, a, n)

Message(op, asset, from, to, n) ==
  [op |-> op, asset |-> asset, from |-> from, to |-> to, amount |-> n]

Messages ==
  [op : {"instantiate"}, asset : {NoAddr}, from : {PoolManager}, to : {PoolManager},
   amount : Uint128]
  \cup [op : {"reply"}, asset : LpTokens, from : {PoolManager}, to : {PoolManager},
        amount : Uint128]
  \cup [op : {"mint", "burn"}, asset : LpTokens, from : {PoolManager}, to : Accounts,
        amount : Uint128]
  \cup [op : {"transfer"}, asset : Assets, from : {PoolManager}, to : Accounts,
        amount : Uint128]
  \cup [op : {"transfer_from"}, asset : Assets, from : Users, to : {PoolManager},
        amount : Uint128]
-----------------------------------------------------------------------------
(* Contract storage. *)

PutIfAbsent(m, k, v) ==  \* slip
  [x \in DOMAIN m \cup {k} |-> IF x \in DOMAIN m THEN m[x] ELSE v]

(* Map.save *)
Put(m, k, v) == [x \in DOMAIN m \cup {k} |-> IF x = k THEN v ELSE m[x]]

AlwaysFirstIndex(k, a) == 1  \* slip

(* find_asset_index *)
FindAssetIndex(k, a) == IF pair_balances[k][1].info = a THEN 1 ELSE 2
Other(i) == 3 - i

AfterSwapFeeLeaves(pb, k, i, offered, returned) ==  \* slip
  [pb EXCEPT ![k][i].amount = @ + offered, ![k][Other(i)].amount = @ - returned - 1]
AfterSwapAskKept(pb, k, i, offered, returned) ==  \* slip
  [pb EXCEPT ![k][i].amount = @ + offered]

(* increment_asset_balance followed by decrease_asset_balance *)
AfterSwap(pb, k, i, offered, returned) ==
  [pb EXCEPT ![k][i].amount = @ + offered, ![k][Other(i)].amount = @ - returned]

(* increment_pair_balances, decrease_pair_balances: amounts in stored order *)
IncrementPair(pb, k, amounts) ==
  [pb EXCEPT ![k][1].amount = @ + amounts[1], ![k][2].amount = @ + amounts[2]]
DecreasePair(pb, k, amounts) ==
  [pb EXCEPT ![k][1].amount = @ - amounts[1], ![k][2].amount = @ - amounts[2]]

TrackFirst(k, amounts) ==  \* slip
  IF pools[k].track_asset_balances
  THEN [balances EXCEPT ![pair_balances[k][1].info] = amounts[1]]
  ELSE balances

(* BALANCES.save for both assets of a pool that tracks them *)
Track(k, amounts) ==
  IF pools[k].track_asset_balances
  THEN [a \in Assets |-> CASE a = pair_balances[k][1].info -> amounts[1]
                           [] a = pair_balances[k][2].info -> amounts[2]
                           [] OTHER -> balances[a]]
  ELSE balances

(* POOLS.load, Precisions::get_precision for both assets, and query_supply, *)
(* which no token answers at the address a pool starts with                *)
Loadable(k) ==
  /\ k \in DOMAIN pools /\ k \subseteq precisions
  /\ pools[k].liquidity_token # NoAddr
-----------------------------------------------------------------------------
(* Transactions.  The chain runs one at a time. *)

Snapshot == [pools |-> pools, pair_balances |-> pair_balances,
             balances |-> balances, precisions |-> precisions,
             queued_mint |-> queued_mint,
             deployed |-> deployed, supply |-> supply, bal |-> bal,
             shortfall |-> shortfall]
NoSnapshot == <<>>

Idle == kind = "none"

(* History: n of asset a enters or stays in a book and is not held. *)
FallsShort(a, n) ==
  /\ shortfall[a] + n <= MaxShortfall
  /\ shortfall' = [shortfall EXCEPT ![a] = @ + n]

Begin(k, response) ==
  /\ Idle
  /\ kind' = k
  /\ saved' = Snapshot
  /\ msgs' = response
  /\ next' = 0

NoSwap == path' = <<>> /\ hop' = 0 /\ amount' = 0

End ==
  /\ kind' = "none" /\ saved' = NoSnapshot
  /\ msgs' = <<>> /\ next' = 0 /\ recipient' = PoolManager
  /\ NoSwap

Init ==
  /\ pools = <<>> /\ pair_balances = <<>>
  /\ balances = [a \in Assets |-> 0]
  /\ precisions = {} /\ queued_mint = NoKey
  /\ deployed = {} /\ supply = [l \in LpTokens |-> 0]
  /\ bal = [acct \in Accounts |-> [a \in Assets |->
              IF acct \in Users /\ a \notin LpTokens THEN InitialFunds ELSE 0]]
  /\ kind = "none" /\ saved = NoSnapshot
  /\ path = <<>> /\ hop = 0 /\ amount = 0 /\ recipient = PoolManager
  /\ msgs = <<>> /\ next = 0
  /\ shortfall = [a \in Assets |-> 0]
-----------------------------------------------------------------------------
(* execute_create_pair.  The pool starts empty and without an LP token; an *)
(* existing entry under the same key is overwritten.                       *)
NoInstantiation == <<>>  \* slip
InstantiateLpToken == <<Message("instantiate", NoAddr, PoolManager, PoolManager, 0)>>

CreatePair(req) ==
  LET infos == req.asset_infos
      k == PairKey(infos[1], infos[2])
      empty == <<[info |-> infos[1], amount |-> 0], [info |-> infos[2], amount |-> 0]>>
  IN /\ infos[1] # infos[2]
     /\ k \cap LpTokens \subseteq deployed   \* TokenInfo must answer
     /\ Begin("create", InstantiateLpToken)
     /\ precisions' = precisions \cup k
     /\ balances' = IF req.track THEN [a \in Assets |-> IF a \in k THEN 0 ELSE balances[a]]
                    ELSE balances
     /\ pools' = Put(pools, k, [asset_infos |-> infos, liquidity_token |-> NoAddr,
                                track_asset_balances |-> req.track])
     /\ pair_balances' = Put(pair_balances, k, empty)
     /\ queued_mint' = k
     /\ NoSwap /\ UNCHANGED <<recipient, tokens, shortfall>>

(* The chain instantiates the LP token at a fresh address and hands the    *)
(* response to the contract's reply entry point.                           *)
Instantiate(l) ==
  /\ next < Len(msgs) /\ msgs[next + 1].op = "instantiate"
  /\ l \notin deployed
  /\ deployed' = deployed \cup {l}
  /\ msgs' = Append(msgs, Message("reply", l, PoolManager, PoolManager, 0))
  /\ next' = next + 1
  /\ UNCHANGED <<storage, supply, bal, kind, path, hop, amount, recipient, saved, shortfall>>

(* reply: bind the LP token to the queued pool. *)
Reply ==
  /\ next < Len(msgs) /\ msgs[next + 1].op = "reply"
  /\ queued_mint \in DOMAIN pools
  /\ pools' = [pools EXCEPT ![queued_mint].liquidity_token = msgs[next + 1].asset]
  /\ queued_mint' = NoKey
  /\ next' = next + 1
  /\ UNCHANGED <<pair_balances, balances, precisions, tokens,
                 kind, path, hop, amount, recipient, msgs, saved, shortfall>>
-----------------------------------------------------------------------------
(* execute_provide_liquidity *)

NativePartOfFirst(assets, a) ==  \* slip
  IF a \in Denoms /\ a = assets[1].info THEN assets[1].amount ELSE 0

(* The native coins of the deposit travel with the call. *)
NativePart(assets, a) ==
  IF a \notin Denoms THEN 0
  ELSE CASE a = assets[1].info -> assets[1].amount
         [] a = assets[2].info -> assets[2].amount
         [] OTHER -> 0

FundsSent(b, u, assets) ==
  [acct \in Accounts |-> [a \in Assets |->
     CASE acct = u           -> b[acct][a] - NativePart(assets, a)
       [] acct = PoolManager -> b[acct][a] + NativePart(assets, a)
       [] OTHER              -> b[acct][a]]]

(* TransferFrom for a cw20 deposit that is not zero *)
Pull(u, asset) ==
  IF asset.info \in Denoms \/ asset.amount = 0 THEN <<>>
  ELSE <<Message("transfer_from", asset.info, u, PoolManager, asset.amount)>>

AsSent(k, assets) == assets  \* slip
InPoolOrder(k, assets) ==
  IF pair_balances[k][1].info = assets[2].info THEN <<assets[2], assets[1]>> ELSE assets

MintsAllToProvider(lp, first, to, share) ==  \* slip
  (IF first THEN <<Message("mint", lp, PoolManager, to, MINIMUM_LIQUIDITY_AMOUNT)>> ELSE <<>>)
  \o <<Message("mint", lp, PoolManager, to, share)>>

(* The first deposit also mints MINIMUM_LIQUIDITY_AMOUNT to the contract. *)
Mints(lp, first, to, share) ==
  (IF first
   THEN <<Message("mint", lp, PoolManager, PoolManager, MINIMUM_LIQUIDITY_AMOUNT)>>
   ELSE <<>>)
  \o <<Message("mint", lp, PoolManager, to, share)>>

ProvideLiquidity(u, sent, to, share) ==
  LET k == PairKey(sent[1].info, sent[2].info)
      assets == InPoolOrder(k, sent)
      deposits == <<assets[1].amount, assets[2].amount>>
      lp == pools[k].liquidity_token
      first == supply[lp] = 0
  IN /\ Loadable(k)
     /\ \A a \in Denoms : NativePart(sent, a) <= bal[u][a]
     /\ deposits[1] + deposits[2] > 0        \* calc_provide_fee divides by the sum
     /\ first => deposits[1] > 0 /\ deposits[2] > 0 /\ share > 0
     /\ \A i \in 1..2 : pair_balances[k][i].amount + deposits[i] <= MaxUint
     /\ Begin("provide",
              Pull(u, assets[1]) \o Pull(u, assets[2]) \o Mints(lp, first, to, share))
     /\ bal' = FundsSent(bal, u, sent)
     /\ pair_balances' = IncrementPair(pair_balances, k, deposits)
     /\ balances' = Track(k, [i \in 1..2 |-> pair_balances[k][i].amount + deposits[i]])
     /\ NoSwap
     /\ UNCHANGED <<pools, precisions, queued_mint, deployed, supply,
                    recipient, shortfall>>
-----------------------------------------------------------------------------
(* Swaps *)

(* assert_operations *)
ValidOperations(ops) ==
  /\ Len(ops) \in 1..MAX_SWAP_OPERATIONS
  /\ \A i \in 1..Len(ops) : ops[i].offer_asset_info # ops[i].ask_asset_info
  /\ \A i \in 2..Len(ops) : ops[i].offer_asset_info = ops[i - 1].ask_asset_info

StartSwap(ops, n, to) ==
  /\ ValidOperations(ops)
  /\ Begin("swap", <<>>)
  /\ path' = ops /\ hop' = 0 /\ amount' = n /\ recipient' = to
  /\ UNCHANGED <<storage, deployed, supply>>

(* ExecuteMsg::ExecuteSwapOperations: DENOM coins travel with the call. *)
ExecuteSwapOperations(u, ops, n, to) ==
  /\ Len(ops) > 0 /\ ops[1].offer_asset_info = DENOM
  /\ n > 0 /\ n <= bal[u][DENOM]
  /\ StartSwap(ops, n, to)
  /\ bal' = Move(bal, u, PoolManager, DENOM, n)
  /\ UNCHANGED shortfall

(* Cw20HookMsg::ExecuteSwapOperations: the cw20 contract t has moved n of  *)
(* its tokens before it calls receive_cw20.  check_cw20_in_pool accepts t  *)
(* when it is either asset of the first pool; the amount is then booked as *)
(* the first operation's offer asset.                                      *)
ReceiveSwap(u, t, ops, n, to) ==
  /\ n > 0 /\ n <= bal[u][t]
  /\ Len(ops) > 0
  /\ LET k == PairKey(ops[1].offer_asset_info, ops[1].ask_asset_info)
     IN k \in DOMAIN pools /\ t \in k
  /\ StartSwap(ops, n, to)
  /\ bal' = Move(bal, u, PoolManager, t, n)
  /\ IF t # ops[1].offer_asset_info THEN FallsShort(ops[1].offer_asset_info, n)
     ELSE UNCHANGED shortfall

InSwapLoop == kind = "swap" /\ hop < Len(path)

(* What the last operation pays out: a native ask is paid by send_native,  *)
(* which always sends DENOM.                                               *)
Paid(ask) == IF ask \in Denoms THEN DENOM ELSE ask

(* One iteration of the loop of execute_swap_operations: swap_internal on  *)
(* the operation's pool, and after the last one the payout message.  The   *)
(* fees stay in the pool, so the book falls by what is returned.           *)
SwapHop(returned) ==
  LET op == path[hop + 1]
      k == PairKey(op.offer_asset_info, op.ask_asset_info)
      i == FindAssetIndex(k, op.offer_asset_info)
      last == hop + 1 = Len(path)
      paid == Paid(op.ask_asset_info)
  IN /\ InSwapLoop
     /\ Loadable(k)
     /\ amount > 0
     /\ \A j \in 1..2 : pair_balances[k][j].amount > 0
     /\ pair_balances[k][i].amount + amount <= MaxUint
     /\ returned <= pair_balances[k][Other(i)].amount
     /\ pair_balances' = AfterSwap(pair_balances, k, i, amount, returned)
     /\ hop' = hop + 1
     /\ amount' = returned
     /\ msgs' = IF last THEN <<Message("transfer", paid, PoolManager, recipient, returned)>>
                ELSE <<>>
     /\ IF last /\ paid # op.ask_asset_info THEN FallsShort(paid, returned)
        ELSE UNCHANGED shortfall
     /\ UNCHANGED <<pools, balances, precisions, queued_mint, tokens,
                    kind, path, recipient, next, saved>>
-----------------------------------------------------------------------------
ShareOfAllSent(reserve, n, total) ==  \* slip
  (reserve * ((n * FRACTIONAL) \div total)) \div FRACTIONAL

(* Cw20HookMsg::WithdrawLiquidity, execute_withdraw_liquidity.  The refund *)
(* is the pool's share for one LP unit less than was sent, and goes to the *)
(* caller of the hook, the LP token contract; the book falls by the number *)
(* of LP units on both sides.  get_share_in_assets rounds the share of the *)
(* supply to a decimal before it takes that part of the reserve.           *)
ShareInAssets(reserve, n, total) ==
  (reserve * (((n - 1) * FRACTIONAL) \div total)) \div FRACTIONAL

Excess(paid, booked) == IF paid > booked THEN paid - booked ELSE 0

WithdrawLiquidity(u, t, k, n) ==
  LET pb == pair_balances[k]
      refund == [i \in 1..2 |-> ShareInAssets(pb[i].amount, n, supply[t])]
  IN /\ t \in LpTokens /\ n > 0 /\ n <= bal[u][t]
     /\ Loadable(k) /\ t = pools[k].liquidity_token
     /\ \A i \in 1..2 : n <= pb[i].amount
     /\ n < supply[t]                        \* the new virtual price divides by the rest
     /\ Begin("withdraw",
              <<Message("transfer", pb[1].info, PoolManager, t, refund[1]),
                Message("transfer", pb[2].info, PoolManager, t, refund[2]),
                Message("burn", t, PoolManager, PoolManager, n)>>)
     /\ bal' = Move(bal, u, PoolManager, t, n)
     /\ pair_balances' = DecreasePair(pair_balances, k, <<n, n>>)
     /\ balances' = Track(k, [i \in 1..2 |-> pb[i].amount - refund[i]])
     /\ shortfall' = [a \in Assets |-> shortfall[a]
                        + (CASE a = pb[1].info -> Excess(refund[1], n)
                             [] a = pb[2].info -> Excess(refund[2], n)
                             [] OTHER -> 0)]
     /\ \A i \in 1..2 : shortfall[pb[i].info] + Excess(refund[i], n) <= MaxShortfall
     /\ NoSwap
     /\ UNCHANGED <<pools, precisions, queued_mint, deployed, supply, recipient>>
-----------------------------------------------------------------------------
(* Message dispatch.  The token contracts refuse an amount of zero and     *)
(* what the payer does not have.                                           *)

Current == msgs[next + 1]
Dispatching(ops) == next < Len(msgs) /\ Current.op \in ops
Dispatched ==
  /\ next' = next + 1
  /\ UNCHANGED <<storage, deployed, kind, path, hop, amount, recipient, msgs, saved, shortfall>>

DispatchTransfer ==
  /\ Dispatching({"transfer", "transfer_from"})
  /\ Current.amount > 0 /\ Current.amount <= bal[Current.from][Current.asset]
  /\ bal' = Move(bal, Current.from, Current.to, Current.asset, Current.amount)
  /\ Dispatched /\ UNCHANGED supply

DispatchMint ==
  /\ Dispatching({"mint"})
  /\ Current.amount > 0 /\ supply[Current.asset] + Current.amount <= MaxUint
  /\ supply' = [supply EXCEPT ![Current.asset] = @ + Current.amount]
  /\ bal' = Credit(bal, Current.to, Current.asset, Current.amount)
  /\ Dispatched

DispatchBurn ==
  /\ Dispatching({"burn"})
  /\ Current.amount > 0 /\ Current.amount <= bal[PoolManager][Current.asset]
  /\ supply' = [supply EXCEPT ![Current.asset] = @ - Current.amount]
  /\ bal' = Debit(bal, PoolManager, Current.asset, Current.amount)
  /\ Dispatched

(* All messages succeeded. *)
Commit ==
  /\ ~Idle /\ ~InSwapLoop /\ next = Len(msgs)
  /\ End
  /\ UNCHANGED <<storage, tokens, shortfall>>

(* A message failed, a handler aborted in mid-loop, the allowance of a     *)
(* TransferFrom was missing, or the gas ran out.                           *)
Revert ==
  /\ ~Idle
  /\ End
  /\ pools' = saved.pools /\ pair_balances' = saved.pair_balances
  /\ balances' = saved.balances /\ precisions' = saved.precisions
  /\ queued_mint' = saved.queued_mint
  /\ deployed' = saved.deployed /\ supply' = saved.supply /\ bal' = saved.bal
  /\ shortfall' = saved.shortfall
-----------------------------------------------------------------------------
(* Between transactions users move their tokens freely, to the contract's  *)
(* own account too, and may burn the LP tokens they hold.                  *)

UserTransfer(u, to, a, n) ==
  /\ Idle /\ u # to /\ n > 0 /\ n <= bal[u][a]
  /\ bal' = Move(bal, u, to, a, n)
  /\ UNCHANGED <<storage, deployed, supply, txn, shortfall>>

UserBurn(u, l, n) ==
  /\ Idle /\ n > 0 /\ n <= bal[u][l]
  /\ bal' = Debit(bal, u, l, n)
  /\ supply' = [supply EXCEPT ![l] = @ - n]
  /\ UNCHANGED <<storage, deployed, txn, shortfall>>
-----------------------------------------------------------------------------
Call ==
  /\ Idle
  /\ \/ \E req \in PairRequests : CreatePair(req)
     \/ \E u \in Users, k \in DOMAIN pools, n1, n2 \in Amounts,
           to \in Receivers, share \in CurveOutputs :
          \E a, b \in k :
            /\ a # b
            /\ ProvideLiquidity(u, <<[info |-> a, amount |-> n1], [info |-> b, amount |-> n2]>>,
                                to, share)
     \/ \E u \in Users, ops \in Paths, n \in Amounts, to \in Receivers :
          ExecuteSwapOperations(u, ops, n, to)
     \/ \E u \in Users, t \in Cw20s \cup LpTokens, ops \in Paths, n \in Amounts, to \in Receivers :
          ReceiveSwap(u, t, ops, n, to)
     \/ \E u \in Users, t \in LpTokens, k \in DOMAIN pools, n \in Amounts :
          WithdrawLiquidity(u, t, k, n)

Run ==
  \/ \E returned \in CurveOutputs : SwapHop(returned)
  \/ \E l \in LpTokens : Instantiate(l)
  \/ Reply
  \/ DispatchTransfer
  \/ DispatchMint
  \/ DispatchBurn
  \/ Commit
  \/ Revert

Environment ==
  \/ \E u \in Users, to \in Receivers, a \in Assets, n \in Amounts : UserTransfer(u, to, a, n)
  \/ \E u \in Users, l \in LpTokens, n \in Amounts : UserBurn(u, l, n)

Next == Call \/ Run \/ Environment

Spec == Init /\ [][Next]_vars

(* The chain executes a transaction it has started to its end. *)
FairSpec == Spec /\ WF_vars(Run)
=============================================================================
