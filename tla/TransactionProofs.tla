-------------------------- MODULE TransactionProofs --------------------------
(***************************************************************************)
(* What a running deposit or swap has done to the books since it began:    *)
(* proofs of ProvideTracksBook, HopsConserve and ProvideTakesWhatItBooks.  *)
(* Each relates the state to what a rollback would restore, and is the end *)
(* of an invariant that follows the transaction step by step.              *)
(***************************************************************************)
EXTENDS SolvencyProofs

(* What a deposit starts with and does to the storage. *)
DepositBooked(k, assets) ==
  /\ k \in DOMAIN pools /\ k \in DOMAIN pair_balances /\ k \in PairKeys
  /\ IsBook(pair_balances) /\ pools' = pools
  /\ assets \in Asset \X Asset
  /\ \A i \in {1, 2} : assets[i].info = pair_balances[k][i].info
  /\ pair_balances[k][1].info # pair_balances[k][2].info
  /\ \A i \in {1, 2} : assets[i].amount \in Nat
  /\ IsBook(pair_balances') /\ SameButAmounts(pair_balances, pair_balances', k)
  /\ \A i \in {1, 2} : pair_balances'[k][i].amount
                         = pair_balances[k][i].amount + assets[i].amount
  /\ Idle /\ kind' = "provide" /\ saved' = Snapshot

LEMMA ProvideBooks ==
  ASSUME Inv2, NEW u \in Users, NEW sent \in Asset \X Asset, NEW to, NEW share,
         NEW k, k = PairKey(sent[1].info, sent[2].info),
         ProvideLiquidity(u, sent, to, share)
  PROVE  /\ DepositBooked(k, InPoolOrder(k, sent))
         /\ \A a : NativePart(sent, a) = NativePart(InPoolOrder(k, sent), a)
<1> DEFINE assets == InPoolOrder(k, sent)
           deposits == <<assets[1].amount, assets[2].amount>>
<1>1. StorageTypes
  BY TypeOKIff DEF Inv2, Inv1
<1>2. Idle /\ kind' = "provide" /\ saved' = Snapshot /\ pools' = pools
  BY DEF ProvideLiquidity, Begin
<1>3. /\ Loadable(k)
      /\ \A i \in 1..2 : pair_balances[k][i].amount + deposits[i] <= MaxUint
      /\ pair_balances' = IncrementPair(pair_balances, k, deposits)
  BY DEF ProvideLiquidity
<1>4. k \in DOMAIN pools /\ k \in DOMAIN pair_balances /\ k \in PairKeys
      /\ IsBook(pair_balances)
  BY <1>1, <1>3 DEF Loadable, StorageTypes
<1>5. /\ assets \in Asset \X Asset
      /\ \A i \in {1, 2} : assets[i].info = pair_balances[k][i].info
      /\ pair_balances[k][1].info # pair_balances[k][2].info
      /\ \A a : NativePart(sent, a) = NativePart(assets, a)
  BY <1>4, DepositOrder DEF Inv2
<1> HIDE DEF assets
<1>6. \A i \in {1, 2} : assets[i].amount \in Nat
  <2>1. assets[1] \in Asset /\ assets[2] \in Asset
    BY <1>5
  <2>2. QED
    BY <2>1, PinaColadaAssumption DEF Asset, Uint128
<1>7. deposits \in Nat \X Nat /\ deposits[1] = assets[1].amount
      /\ deposits[2] = assets[2].amount
  BY <1>6
<1> HIDE DEF deposits
<1>8. /\ IsBook(pair_balances') /\ SameButAmounts(pair_balances, pair_balances', k)
      /\ \A i \in {1, 2} : pair_balances'[k][i].amount
                             = pair_balances[k][i].amount + assets[i].amount
  BY <1>3, <1>4, <1>7, IncrementFacts
<1>9. QED
  BY <1>2, <1>4, <1>5, <1>6, <1>8 DEF DepositBooked, assets

(* An instantiation and its reply are steps of a creation, a burn is one   *)
(* of a withdrawal, and a mint one of a deposit.                           *)
LEMMA MessageTells ==
  ASSUME Inv2, next < Len(msgs)
  PROVE  /\ Current.op \in {"instantiate", "reply"} => kind = "create"
         /\ Current.op = "burn" => kind = "withdraw"
         /\ kind = "provide" => Current.op \in {"transfer_from", "mint"}
<1>1. next + 1 \in 1..Len(msgs)
  BY TypeOKIff DEF Inv2, Inv1, TxnTypes
<1>2. Current.op \in Kinds(kind)
  BY <1>1 DEF Inv2, MessageKinds, Current
<1>3. kind \in {"none", "create", "provide", "swap", "withdraw"} /\ ~Idle
  <2>1. Idle => msgs = <<>>
    BY DEF Inv2, Inv1
  <2>2. msgs # <<>>
    BY <1>1
  <2>3. QED
    BY <2>1, <2>2, TypeOKIff DEF Inv2, Inv1, TxnTypes
<1>4. QED
  BY <1>2, <1>3 DEF Kinds, Idle

(* The call that deposits, by name. *)
LEMMA DepositArguments ==
  ASSUME Inv2, NEW u \in Users, NEW k \in DOMAIN pools, NEW n1 \in Amounts, NEW n2 \in Amounts,
         NEW a \in k, NEW b \in k
  PROVE  <<[info |-> a, amount |-> n1], [info |-> b, amount |-> n2]>> \in Asset \X Asset
<1>1. k \in PairKeys
  BY TypeOKIff DEF Inv2, Inv1, StorageTypes
<1>2. a \in Assets /\ b \in Assets
  BY <1>1, KeyShape
<1>3. QED
  BY <1>2, PinaColadaAssumption DEF Asset

DepositCall ==
  \E u \in Users, sent \in Asset \X Asset, to \in Receivers, share \in CurveOutputs :
    ProvideLiquidity(u, sent, to, share)
SwapCall == \E ops \in Paths, n \in Amounts, to \in Receivers : StartSwap(ops, n, to)

(* Every step is one of these; only the first two start or lengthen what   *)
(* is followed here.                                                       *)
LEMMA StepKinds ==
  ASSUME Inv2, [Next]_vars
  PROVE  \/ DepositCall
         \/ SwapCall
         \/ \E returned \in CurveOutputs : SwapHop(returned)
         \/ kind' \in {"none", "create", "withdraw"}
         \/ kind # "create" /\ (DispatchTransfer \/ DispatchMint)
         \/ UNCHANGED vars
<1>1. ASSUME NEW req \in PairRequests, CreatePair(req) PROVE kind' = "create"
  BY <1>1 DEF CreatePair, Begin
<1>2. ASSUME NEW u \in Users, NEW t \in LpTokens, NEW k \in DOMAIN pools, NEW n \in Amounts,
             WithdrawLiquidity(u, t, k, n)
      PROVE  kind' = "withdraw"
  BY <1>2 DEF WithdrawLiquidity, Begin
<1>3. CASE Call
  <2>1. CASE \E u \in Users, k \in DOMAIN pools, n1, n2 \in Amounts,
                to \in Receivers, share \in CurveOutputs :
               \E a, b \in k :
                 /\ a # b
                 /\ ProvideLiquidity(u, <<[info |-> a, amount |-> n1],
                                          [info |-> b, amount |-> n2]>>, to, share)
    <3>1. PICK u \in Users, k \in DOMAIN pools, n1 \in Amounts, n2 \in Amounts,
               to \in Receivers, share \in CurveOutputs :
                 \E a, b \in k :
                   ProvideLiquidity(u, <<[info |-> a, amount |-> n1],
                                         [info |-> b, amount |-> n2]>>, to, share)
      BY <2>1
    <3>2. PICK a \in k, b \in k :
                 ProvideLiquidity(u, <<[info |-> a, amount |-> n1],
                                       [info |-> b, amount |-> n2]>>, to, share)
      BY <3>1
    <3>3. <<[info |-> a, amount |-> n1], [info |-> b, amount |-> n2]>> \in Asset \X Asset
      BY DepositArguments
    <3>4. QED
      BY <3>2, <3>3 DEF DepositCall
  <2>2. CASE \E u \in Users, ops \in Paths, n \in Amounts, to \in Receivers :
               ExecuteSwapOperations(u, ops, n, to)
    BY <2>2 DEF ExecuteSwapOperations, SwapCall
  <2>3. CASE \E u \in Users, t \in Cw20s \cup LpTokens, ops \in Paths, n \in Amounts,
                to \in Receivers : ReceiveSwap(u, t, ops, n, to)
    BY <2>3 DEF ReceiveSwap, SwapCall
  <2>4. QED
    BY <1>1, <1>2, <1>3, <2>1, <2>2, <2>3 DEF Call
<1>4. CASE Run
  <2>1. ASSUME NEW l \in LpTokens, Instantiate(l) PROVE kind' = "create"
    BY <2>1, MessageTells DEF Instantiate, Current
  <2>2. ASSUME Reply PROVE kind' = "create"
    BY <2>2, MessageTells DEF Reply, Current
  <2>3. ASSUME DispatchBurn PROVE kind' = "withdraw"
    BY <2>3, MessageTells DEF DispatchBurn, Dispatching, Dispatched
  <2>4. ASSUME Commit \/ Revert PROVE kind' = "none"
    BY <2>4 DEF Commit, Revert, End
  <2>5. ASSUME DispatchTransfer \/ DispatchMint, kind = "create" PROVE kind' = "create"
    BY <2>5 DEF DispatchTransfer, DispatchMint, Dispatched
  <2>6. QED
    BY <1>4, <2>1, <2>2, <2>3, <2>4, <2>5 DEF Run
<1>5. CASE Environment
  <2>1. ASSUME NEW u \in Users, NEW to \in Receivers, NEW a \in Assets, NEW n \in Amounts,
               UserTransfer(u, to, a, n)
        PROVE  kind' = "none"
    BY <2>1 DEF UserTransfer, Idle, txn
  <2>2. ASSUME NEW u \in Users, NEW l \in LpTokens, NEW n \in Amounts, UserBurn(u, l, n)
        PROVE  kind' = "none"
    BY <2>2 DEF UserBurn, Idle, txn
  <2>3. QED
    BY <1>5, <2>1, <2>2 DEF Environment
<1>6. QED
  BY <1>3, <1>4, <1>5 DEF Next
-----------------------------------------------------------------------------
(* BALANCES after a deposit. *)

LEMMA DepositTracks ==
  ASSUME Inv2, NEW u \in Users, NEW sent \in Asset \X Asset, NEW to, NEW share,
         ProvideLiquidity(u, sent, to, share)
  PROVE  ProvideTracksBook'
<1> DEFINE k == PairKey(sent[1].info, sent[2].info)
           assets == InPoolOrder(k, sent)
           deposits == <<assets[1].amount, assets[2].amount>>
           pb == pair_balances
           x == [i \in 1..2 |-> pb[k][i].amount + deposits[i]]
<1>1. DepositBooked(k, assets)
  BY ProvideBooks
<1>2. balances' = Track(k, x)
  BY DEF ProvideLiquidity
<1>3. x[1] = pb[k][1].amount + assets[1].amount /\ x[2] = pb[k][2].amount + assets[2].amount
  OBVIOUS
<1> HIDE DEF k, assets, deposits, x
<1>4. /\ \A i \in {1, 2} : pair_balances'[k][i].info = pb[k][i].info
      /\ \A j \in DOMAIN pb \ {k} : pair_balances'[j] = pb[j]
      /\ DOMAIN pb = DOMAIN pools
  <2>1. StorageTypes
    BY TypeOKIff DEF Inv2, Inv1
  <2>2. QED
    BY <1>1, <2>1 DEF DepositBooked, SameButAmounts, StorageTypes
<1>5. pb[k][1].info \in Assets /\ pb[k][2].info \in Assets
  <2>1. pb[k] \in Asset \X Asset
    BY <1>1 DEF DepositBooked, IsBook
  <2>2. pb[k][1] \in Asset /\ pb[k][2] \in Asset
    BY <2>1
  <2>3. QED
    BY <2>2 DEF Asset
<1>6. pools[k].track_asset_balances =>
        /\ balances'[pb[k][1].info] = x[1]
        /\ balances'[pb[k][2].info] = x[2]
  BY <1>1, <1>2, <1>5 DEF Track, DepositBooked
<1>7. pools[k].track_asset_balances =>
        \A i \in {1, 2} : balances'[pair_balances'[k][i].info] = pair_balances'[k][i].amount
  BY <1>1, <1>3, <1>4, <1>6 DEF DepositBooked
<1>8. pools' = pools /\ saved'.pair_balances = pb
  BY <1>1 DEF DepositBooked, Snapshot
<1>9. \A j \in DOMAIN pools : pair_balances'[j] # pb[j] => j = k
  BY <1>4
<1>10. 1..2 = {1, 2}
  OBVIOUS
<1>11. QED
  BY <1>7, <1>8, <1>9, <1>10 DEF ProvideTracksBook

LEMMA NextTracks == Inv2 /\ ProvideTracksBook /\ [Next]_vars => ProvideTracksBook'
<1> SUFFICES ASSUME Inv2, ProvideTracksBook, [Next]_vars PROVE ProvideTracksBook'
  OBVIOUS
<1>1. CASE DepositCall
  BY <1>1, DepositTracks DEF DepositCall
<1>2. kind' # "provide" => ProvideTracksBook'
  BY DEF ProvideTracksBook
<1>3. UNCHANGED <<pools, pair_balances, balances, kind, saved>> => ProvideTracksBook'
  BY DEF ProvideTracksBook
<1>4. CASE SwapCall
  BY <1>2, <1>4 DEF SwapCall, StartSwap, Begin
<1>5. CASE \E returned \in CurveOutputs : SwapHop(returned)
  BY <1>2, <1>5 DEF SwapHop, InSwapLoop
<1>6. CASE DispatchTransfer \/ DispatchMint
  BY <1>3, <1>6 DEF DispatchTransfer, DispatchMint, Dispatched, storage
<1>7. CASE UNCHANGED vars
  BY <1>3, <1>7 DEF vars, storage, txn
<1>8. QED
  BY <1>1, <1>2, <1>4, <1>5, <1>6, <1>7, StepKinds

(* A deposit into a pool that tracks its balances leaves BALANCES equal to *)
(* the pool's book, in whatever order its assets were sent.                *)
THEOREM DepositIsTracked == Spec => []ProvideTracksBook
<1>1. Init => ProvideTracksBook
  BY DEF Init, ProvideTracksBook
<1>2. Inv2 /\ ProvideTracksBook /\ [Next]_vars => ProvideTracksBook'
  BY NextTracks
<1>3. QED
  BY <1>1, <1>2, Inv2Holds, PTL DEF Spec
-----------------------------------------------------------------------------
(* The books during a swap: what the last hop returned is out of all of    *)
(* them, on its way to the next.                                           *)
InFlight(a) == IF hop > 0 /\ path[hop].ask_asset_info = a THEN amount ELSE 0
HopsSoFar ==
  kind = "swap" =>
    \A a \in Assets \ {path[1].offer_asset_info} :
      Book(pair_balances, a) + InFlight(a) = Book(saved.pair_balances, a)

LEMMA SwapStarts ==
  ASSUME Inv2, NEW ops, NEW n, NEW to, StartSwap(ops, n, to)
  PROVE  HopsSoFar'
<1>1. /\ saved' = Snapshot /\ hop' = 0 /\ pair_balances' = pair_balances
  BY DEF StartSwap, Begin, storage
<1>2. \A a \in Assets : Book(pair_balances, a) \in Nat
  BY PartTypes DEF Inv2, Parts
<1>3. \A a : InFlight(a)' = 0
  BY <1>1 DEF InFlight
<1>4. \A a : /\ Book(pair_balances, a)' = Book(pair_balances, a)
             /\ Book(saved.pair_balances, a)' = Book(pair_balances, a)
  BY <1>1 DEF Book, Snapshot
<1>5. QED
  BY <1>2, <1>3, <1>4 DEF HopsSoFar

LEMMA SwapGoesOn ==
  ASSUME Inv2, HopsSoFar, NEW returned \in CurveOutputs, SwapHop(returned)
  PROVE  HopsSoFar'
<1> DEFINE op == path[hop + 1]
           o == op.offer_asset_info
           s == op.ask_asset_info
           k == PairKey(o, s)
           i == FindAssetIndex(k, o)
<1>1. StorageTypes /\ TxnTypes
  BY TypeOKIff DEF Inv1, Inv2
<1>2. /\ InSwapLoop /\ Loadable(k) /\ hop' = hop + 1 /\ amount' = returned
      /\ pair_balances[k][i].amount + amount <= MaxUint
      /\ returned <= pair_balances[k][Other(i)].amount
      /\ pair_balances' = AfterSwap(pair_balances, k, i, amount, returned)
      /\ kind' = kind /\ path' = path /\ saved' = saved
  BY DEF SwapHop
<1>3. /\ kind = "swap" /\ hop \in Nat /\ Len(path) \in Nat /\ hop + 1 \in 1..Len(path)
  BY <1>1, <1>2 DEF InSwapLoop, TxnTypes
<1>4. ValidOperations(path) /\ o # s
  BY <1>3 DEF Inv2, PathOK, ValidOperations
<1>5. k \in DOMAIN pair_balances /\ k \in PairKeys /\ IsBook(pair_balances)
  BY <1>1, <1>2 DEF Loadable, StorageTypes
<1>6. amount \in Nat /\ returned \in Nat
  BY <1>1, PinaColadaAssumption DEF TxnTypes, Uint128
<1>7. i \in {1, 2} /\ pair_balances[k][i].info = o /\ pair_balances[k][Other(i)].info = s
  <2> HIDE DEF op
  <2>1. QED
    BY <1>4, <1>5, HopSides DEF Inv2
<1>8. \A a : InFlight(a)' = IF s = a THEN returned ELSE 0
  BY <1>2, <1>3 DEF InFlight
<1>9. \A a : a # path[1].offer_asset_info =>
               InFlight(a) = IF o = a THEN amount ELSE 0
  <2>1. CASE hop = 0
    BY <2>1 DEF InFlight
  <2>2. CASE hop > 0
    <3> DEFINE j == hop + 1
    <3>1. j \in 2..Len(path) /\ j - 1 = hop
      BY <1>3, <2>2
    <3> HIDE DEF j
    <3>2. path[j].offer_asset_info = path[j - 1].ask_asset_info
      BY <1>4, <3>1 DEF ValidOperations
    <3>3. path[hop].ask_asset_info = o
      BY <3>1, <3>2 DEF j
    <3>4. QED
      BY <2>2, <3>3 DEF InFlight
  <2>3. QED
    BY <1>3, <2>1, <2>2
<1> HIDE DEF op, o, s, k, i
<1>10. ASSUME NEW a \in Assets \ {path[1].offer_asset_info}
       PROVE  Book(pair_balances', a) + InFlight(a)' = Book(saved.pair_balances, a)
  <2> DEFINE f == InFlight(a)'
             b == Book(pair_balances', a)
  <2>1. b = Book(pair_balances, a) + (IF a = o THEN amount ELSE 0)
                                   - (IF a = s THEN returned ELSE 0)
    BY <1>2, <1>4, <1>5, <1>6, <1>7, HopBook
  <2>2. Book(pair_balances, a) + InFlight(a) = Book(saved.pair_balances, a)
    BY <1>3 DEF HopsSoFar
  <2>3. Book(pair_balances, a) \in Nat
    BY PartTypes DEF Inv2, Parts
  <2>4. f = (IF s = a THEN returned ELSE 0) /\ InFlight(a) = (IF o = a THEN amount ELSE 0)
    BY <1>8, <1>9
  <2> HIDE DEF f, b
  <2>5. b + f = Book(saved.pair_balances, a)
    BY <1>6, <2>1, <2>2, <2>3, <2>4
  <2>6. QED
    BY <2>5 DEF f, b
<1>11. \A a : /\ Book(pair_balances, a)' = Book(pair_balances', a)
              /\ Book(saved.pair_balances, a)' = Book(saved.pair_balances, a)
  BY <1>2 DEF Book
<1>12. QED
  BY <1>2, <1>10, <1>11 DEF HopsSoFar

LEMMA NextHops == Inv2 /\ HopsSoFar /\ [Next]_vars => HopsSoFar'
<1> SUFFICES ASSUME Inv2, HopsSoFar, [Next]_vars PROVE HopsSoFar'
  OBVIOUS
<1>1. kind' # "swap" => HopsSoFar'
  BY DEF HopsSoFar
<1>2. ASSUME UNCHANGED <<pair_balances, kind, path, hop, amount, saved>> PROVE HopsSoFar'
  <2>1. \A a : /\ Book(pair_balances, a)' = Book(pair_balances, a)
              /\ Book(saved.pair_balances, a)' = Book(saved.pair_balances, a)
              /\ InFlight(a)' = InFlight(a)
    BY <1>2 DEF Book, InFlight
  <2>2. QED
    BY <1>2, <2>1 DEF HopsSoFar
<1>3. CASE DepositCall
  <2>1. ASSUME NEW u, NEW sent, NEW to, NEW share, ProvideLiquidity(u, sent, to, share)
        PROVE  kind' = "provide"
    BY <2>1 DEF ProvideLiquidity, Begin
  <2>2. QED
    BY <1>1, <1>3, <2>1 DEF DepositCall
<1>4. CASE SwapCall
  BY <1>4, SwapStarts DEF SwapCall
<1>5. CASE \E returned \in CurveOutputs : SwapHop(returned)
  BY <1>5, SwapGoesOn
<1>6. CASE DispatchTransfer \/ DispatchMint
  BY <1>2, <1>6 DEF DispatchTransfer, DispatchMint, Dispatched, storage
<1>7. CASE UNCHANGED vars
  BY <1>2, <1>7 DEF vars, storage, txn
<1>8. QED
  BY <1>1, <1>3, <1>4, <1>5, <1>6, <1>7, StepKinds

(* The hops of a swap, however many and through whatever pools, take of    *)
(* all books together nothing but what is paid out, and of the asset paid  *)
(* out exactly the amount.                                                 *)
THEOREM SwapsConserve == Spec => []HopsConserve
<1>1. Init => HopsSoFar
  BY DEF Init, HopsSoFar
<1>2. Inv2 /\ HopsSoFar /\ [Next]_vars => HopsSoFar'
  BY NextHops
<1>3. Inv2 /\ HopsSoFar => HopsConserve
  <2> SUFFICES ASSUME Inv2, HopsSoFar, kind = "swap", hop = Len(path),
                      NEW a \in Assets \ {path[1].offer_asset_info}
               PROVE  Book(pair_balances, a)
                        + (IF a = path[Len(path)].ask_asset_info THEN amount ELSE 0)
                        = Book(saved.pair_balances, a)
    BY DEF HopsConserve
  <2>1. hop > 0
    BY DEF Inv2, PathOK, ValidOperations
  <2>2. InFlight(a) = IF a = path[Len(path)].ask_asset_info THEN amount ELSE 0
    BY <2>1 DEF InFlight
  <2>3. QED
    BY <2>2 DEF HopsSoFar
<1>4. QED
  BY <1>1, <1>2, <1>3, Inv2Holds, PTL DEF Spec
-----------------------------------------------------------------------------
(* What the messages of a deposit pull in. *)

(* The first message of q after n, when p has length l and holds it. *)
LEMMA FirstToCome ==
  ASSUME NEW q \in Seq(Messages), NEW n \in Nat, NEW p, NEW l \in {0, 1},
         l = 1 => n < Len(q) /\ q[n + 1] = p[1], NEW ops, NEW a
  PROVE  Total(ToCome(q, n, ops, a))
           = (IF l = 1 THEN Counted(p[1], ops, a) ELSE 0)
             + Total(ToCome(q, n + l, ops, a))
<1>1. Total(ToCome(q, n, ops, a)) \in Nat
  BY ToComeType
<1>2. CASE l = 0
  <2>1. n + l = n
    BY <1>2
  <2>2. QED
    BY <1>1, <1>2, <2>1
<1>3. CASE l = 1
  <2>1. /\ Total(ToCome(q, n + 1, ops, a))
             = Total(ToCome(q, n, ops, a)) - Counted(q[n + 1], ops, a)
        /\ Counted(q[n + 1], ops, a) \in Nat
    BY <1>3, Dispatching1
  <2>2. QED
    BY <1>1, <1>3, <2>1
<1>4. QED
  BY <1>2, <1>3

PulledIn(asset, a) == IF asset.info = a /\ a \notin Denoms THEN asset.amount ELSE 0

LEMMA PullCounts ==
  ASSUME NEW u \in Users, NEW asset \in Asset, NEW a
  PROVE  /\ Pull(u, asset) \in Seq(Messages) /\ Len(Pull(u, asset)) \in {0, 1}
         /\ PulledIn(asset, a)
              = IF Len(Pull(u, asset)) = 1
                THEN Counted(Pull(u, asset)[1], {"transfer_from"}, a) ELSE 0
<1> DEFINE m == Message("transfer_from", asset.info, u, PoolManager, asset.amount)
<1>1. m \in Messages /\ m.op = "transfer_from" /\ m.asset = asset.info /\ m.amount = asset.amount
  BY MessageTypes DEF Asset, Message
<1>2. Pull(u, asset) = IF asset.info \in Denoms \/ asset.amount = 0 THEN <<>> ELSE <<m>>
  BY DEF Pull
<1> HIDE DEF m
<1>3. CASE asset.info \in Denoms \/ asset.amount = 0
  <2>1. Pull(u, asset) = <<>>
    BY <1>2, <1>3
  <2>2. QED
    BY <1>3, <2>1 DEF PulledIn
<1>4. CASE ~(asset.info \in Denoms \/ asset.amount = 0)
  <2>1. Pull(u, asset) = <<m>>
    BY <1>2, <1>4
  <2>2. Counted(m, {"transfer_from"}, a) = IF asset.info = a THEN asset.amount ELSE 0
    BY <1>1 DEF Counted
  <2>3. QED
    BY <1>1, <1>4, <2>1, <2>2 DEF PulledIn
<1>5. QED
  BY <1>3, <1>4

LEMMA MintsAreMints ==
  ASSUME NEW lp \in LpTokens, NEW first \in BOOLEAN, NEW to \in Accounts, NEW share \in Uint128
  PROVE  /\ Mints(lp, first, to, share) \in Seq(Messages)
         /\ \A m \in 1..Len(Mints(lp, first, to, share)) :
              Mints(lp, first, to, share)[m].op = "mint"
<1> DEFINE lock == Message("mint", lp, PoolManager, PoolManager, MINIMUM_LIQUIDITY_AMOUNT)
           one == Message("mint", lp, PoolManager, to, share)
           T == {m \in Messages : m.op = "mint"}
<1>1. lock \in T /\ one \in T
  <2>1. PoolManager \in Accounts /\ MINIMUM_LIQUIDITY_AMOUNT \in Uint128
    BY PinaColadaAssumption DEF Accounts, Uint128
  <2>2. lock \in Messages /\ one \in Messages
    BY <2>1, MessageTypes
  <2>3. QED
    BY <2>2 DEF Message
<1>2. Mints(lp, first, to, share) = (IF first THEN <<lock>> ELSE <<>>) \o <<one>>
  BY DEF Mints
<1>3. T \subseteq Messages /\ \A m \in T : m.op = "mint"
  OBVIOUS
<1> HIDE DEF lock, one, T
<1>4. Mints(lp, first, to, share) \in Seq(T)
  BY <1>1, <1>2
<1>5. QED
  BY <1>3, <1>4

(* Each cw20 deposit is pulled in once, and nothing else is. *)
LEMMA DepositPulls ==
  ASSUME NEW u \in Users, NEW assets \in Asset \X Asset, NEW lp \in LpTokens,
         NEW first \in BOOLEAN, NEW to \in Accounts, NEW share \in Uint128,
         NEW q, q = DepositOf(u, assets, lp, first, to, share), NEW a
  PROVE  Total(ToCome(q, 0, {"transfer_from"}, a))
           = PulledIn(assets[1], a) + PulledIn(assets[2], a)
<1> DEFINE p1 == Pull(u, assets[1])
           p2 == Pull(u, assets[2])
           p3 == Mints(lp, first, to, share)
           n1 == Len(p1)
           n2 == Len(p2)
           ops == {"transfer_from"}
<1>1. assets[1] \in Asset /\ assets[2] \in Asset
  OBVIOUS
<1>2. /\ p1 \in Seq(Messages) /\ n1 \in {0, 1}
      /\ p2 \in Seq(Messages) /\ n2 \in {0, 1}
      /\ PulledIn(assets[1], a) = IF n1 = 1 THEN Counted(p1[1], ops, a) ELSE 0
      /\ PulledIn(assets[2], a) = IF n2 = 1 THEN Counted(p2[1], ops, a) ELSE 0
  BY <1>1, PullCounts
<1>3. p3 \in Seq(Messages) /\ \A m \in 1..Len(p3) : p3[m].op = "mint"
  BY MintsAreMints
<1>4. q = (p1 \o p2) \o p3
  BY DEF DepositOf
<1> HIDE DEF p1, p2, p3
<1>5. q \in Seq(Messages)
  BY <1>2, <1>3, <1>4
<1>6. /\ Len(q) = n1 + n2 + Len(p3)
      /\ \A m \in 1..Len(q) : q[m] = IF m <= n1 THEN p1[m]
                                    ELSE IF m <= n1 + n2 THEN p2[m - n1]
                                    ELSE p3[m - (n1 + n2)]
  BY <1>2, <1>3, <1>4, Concat3
<1>7. n1 \in Nat /\ n2 \in Nat /\ Len(p3) \in Nat
  BY <1>2, <1>3
<1> HIDE DEF n1, n2, ops
<1>9. n1 = 1 => 0 < Len(q) /\ q[0 + 1] = p1[1]
  <2> SUFFICES ASSUME n1 = 1 PROVE 0 < Len(q) /\ q[1] = p1[1]
    OBVIOUS
  <2>1. 1 \in 1..Len(q) /\ 1 <= n1
    BY <1>6, <1>7
  <2>2. QED
    BY <1>6, <2>1
<1>10. n2 = 1 => n1 < Len(q) /\ q[n1 + 1] = p2[1]
  <2> SUFFICES ASSUME n2 = 1 PROVE n1 < Len(q) /\ q[n1 + 1] = p2[1]
    OBVIOUS
  <2>1. n1 + 1 \in 1..Len(q) /\ ~(n1 + 1 <= n1) /\ n1 + 1 <= n1 + n2 /\ (n1 + 1) - n1 = 1
    BY <1>6, <1>7
  <2>2. QED
    BY <1>6, <1>7, <2>1
<1>11. Total(ToCome(q, 0, ops, a)) = PulledIn(assets[1], a) + Total(ToCome(q, n1, ops, a))
  <2>1. Total(ToCome(q, 0, ops, a))
          = (IF n1 = 1 THEN Counted(p1[1], ops, a) ELSE 0) + Total(ToCome(q, 0 + n1, ops, a))
    BY <1>2, <1>5, <1>9, FirstToCome
  <2>2. 0 + n1 = n1
    BY <1>7
  <2>3. QED
    BY <1>2, <2>1, <2>2
<1>12. Total(ToCome(q, n1, ops, a))
         = PulledIn(assets[2], a) + Total(ToCome(q, n1 + n2, ops, a))
  <2>1. Total(ToCome(q, n1, ops, a))
          = (IF n2 = 1 THEN Counted(p2[1], ops, a) ELSE 0)
            + Total(ToCome(q, n1 + n2, ops, a))
    BY <1>2, <1>5, <1>7, <1>10, FirstToCome
  <2>2. QED
    BY <1>2, <2>1
<1>13. Total(ToCome(q, n1 + n2, ops, a)) = 0
  <2>1. ASSUME NEW m \in 1..Len(q), m > n1 + n2 PROVE q[m].op \notin ops
    <3>1. ~(m <= n1) /\ ~(m <= n1 + n2) /\ m - (n1 + n2) \in 1..Len(p3)
      BY <1>6, <1>7, <2>1
    <3>2. q[m] = p3[m - (n1 + n2)]
      BY <1>6, <3>1
    <3>3. QED
      BY <1>3, <3>1, <3>2 DEF ops
  <2>2. n1 + n2 \in Nat
    BY <1>7
  <2>3. QED
    BY <1>5, <2>1, <2>2, NothingToCome
<1>14. PulledIn(assets[1], a) \in Nat /\ PulledIn(assets[2], a) \in Nat
  BY <1>1, PinaColadaAssumption DEF PulledIn, Asset, Uint128
<1>15. QED
  BY <1>11, <1>12, <1>13, <1>14 DEF ops
-----------------------------------------------------------------------------
(* The account and the books during a deposit: what has arrived and what   *)
(* is still to be pulled in make up what was booked.                       *)
TakenSoFar ==
  kind = "provide" =>
    \A a \in Assets \ LpTokens :
      bal[PoolManager][a] + In(a) - saved.bal[PoolManager][a]
        = Book(pair_balances, a) - Book(saved.pair_balances, a)

(* What a rollback restores are holdings and books too. *)
LEMMA SavedTypes ==
  ASSUME Inv1, ~Idle, NEW a \in Assets
  PROVE  saved.bal[PoolManager][a] \in Nat /\ Book(saved.pair_balances, a) \in Nat
<1>1. StorageType(saved)
  BY TypeOKIff DEF Inv1
<1>2. IsBook(saved.pair_balances) /\ saved.bal \in Holdings /\ PoolManager \in Accounts
  BY <1>1 DEF StorageType, IsBook, Holdings, Accounts
<1>3. QED
  BY <1>2, BookType DEF Holdings

(* What has arrived with the call and what is to be pulled in make up what *)
(* the call books, of every asset.                                         *)
LEMMA DepositArrives ==
  ASSUME Inv2, Inv2', NEW u \in Users, NEW sent \in Asset \X Asset, NEW to \in Receivers,
         NEW share \in CurveOutputs, ProvideLiquidity(u, sent, to, share)
  PROVE  \A a \in Assets :
           bal'[PoolManager][a] + In(a)' - bal[PoolManager][a]
             = Book(pair_balances', a) - Book(pair_balances, a)
<1> DEFINE k == PairKey(sent[1].info, sent[2].info)
           assets == InPoolOrder(k, sent)
           lp == pools[k].liquidity_token
           first == supply[lp] = 0
           ms == DepositOf(u, assets, lp, first, to, share)
<1>1. DepositBooked(k, assets) /\ \A a : NativePart(sent, a) = NativePart(assets, a)
  BY ProvideBooks
<1>2. msgs' = ms /\ next' = 0 /\ bal' = FundsSent(bal, u, sent)
  BY DEF ProvideLiquidity, Begin, DepositOf
<1>3. lp \in LpTokens
  <2>1. StorageTypes /\ LpBinding
    BY TypeOKIff DEF Inv2, Inv1
  <2>2. queued_mint = NoKey /\ k # NoKey
    BY <1>1, <2>1, KeyShape DEF DepositBooked, LpBinding, Idle
  <2>3. QED
    BY <1>1, <2>1, <2>2 DEF DepositBooked, LpBinding, StorageTypes
<1>4. to \in Accounts /\ share \in Uint128 /\ first \in BOOLEAN
  BY PinaColadaAssumption
<1> HIDE DEF k, assets, lp, first
<1>5. \A a : In(a)' = PulledIn(assets[1], a) + PulledIn(assets[2], a)
  <2> HIDE DEF ms
  <2>1. assets \in Asset \X Asset
    BY <1>1 DEF DepositBooked
  <2>2. ms = DepositOf(u, assets, lp, first, to, share)
    BY DEF ms
  <2>3. \A a : Total(ToCome(ms, 0, {"transfer_from"}, a))
                 = PulledIn(assets[1], a) + PulledIn(assets[2], a)
    BY <1>3, <1>4, <2>1, <2>2, DepositPulls
  <2>4. QED
    BY <1>2, <2>3, PendingIs DEF In
<1> HIDE DEF ms
<1>6. ASSUME NEW a \in Assets
      PROVE  bal'[PoolManager][a] + In(a)' - bal[PoolManager][a]
               = Book(pair_balances', a) - Book(pair_balances, a)
  <2> DEFINE g1 == IF assets[1].info = a THEN assets[1].amount ELSE 0
             g2 == IF assets[2].info = a THEN assets[2].amount ELSE 0
             np == NativePart(assets, a)
             x1 == PulledIn(assets[1], a)
             x2 == PulledIn(assets[2], a)
             b == bal'[PoolManager][a]
             i == In(a)'
             c == Book(pair_balances', a)
  <2>1. b = bal[PoolManager][a] + np
    <3>1. u # PoolManager /\ PoolManager \in Accounts
      BY PinaColadaAssumption DEF Accounts
    <3>2. QED
      BY <1>1, <1>2, <3>1 DEF FundsSent
  <2>2. c = Book(pair_balances, a) + g1 + g2
    <3>1. \A j \in {1, 2} : pair_balances[k][j].amount \in Nat
      <4>1. pair_balances[k] \in Asset \X Asset
        BY <1>1 DEF DepositBooked, IsBook
      <4>2. pair_balances[k][1] \in Asset /\ pair_balances[k][2] \in Asset
        BY <4>1
      <4>3. QED
        BY <4>2, PinaColadaAssumption DEF Asset, Uint128
    <3>2. Gain(pair_balances, pair_balances', k, 1, a) = g1
          /\ Gain(pair_balances, pair_balances', k, 2, a) = g2
      BY <1>1, <3>1 DEF Gain, DepositBooked
    <3>3. QED
      BY <1>1, <3>2, BookChange DEF DepositBooked
  <2>3. np + x1 + x2 = g1 + g2
    <3>1. assets[1].info # assets[2].info
          /\ assets[1].amount \in Nat /\ assets[2].amount \in Nat
      BY <1>1 DEF DepositBooked
    <3>2. QED
      BY <3>1 DEF NativePart, PulledIn
  <2>4. /\ bal[PoolManager][a] \in Nat /\ Book(pair_balances, a) \in Nat
    BY PartTypes DEF Inv2, Parts
  <2>5. np \in Nat /\ g1 \in Nat /\ g2 \in Nat /\ x1 \in Nat /\ x2 \in Nat
    BY <1>1 DEF DepositBooked, NativePart, PulledIn
  <2>6. i = x1 + x2
    BY <1>5
  <2> HIDE DEF g1, g2, np, x1, x2, b, i, c
  <2>7. b + i - bal[PoolManager][a] = c - Book(pair_balances, a)
    BY <2>1, <2>2, <2>3, <2>4, <2>5, <2>6
  <2>8. QED
    BY <2>7 DEF b, i, c
<1>7. QED
  BY <1>6

LEMMA DepositStarts ==
  ASSUME Inv2, Inv2', NEW u \in Users, NEW sent \in Asset \X Asset, NEW to \in Receivers,
         NEW share \in CurveOutputs, ProvideLiquidity(u, sent, to, share)
  PROVE  TakenSoFar'
<1>1. saved'.bal = bal /\ saved'.pair_balances = pair_balances
  BY DEF ProvideLiquidity, Begin, Snapshot
<1>2. QED
  BY <1>1, DepositArrives DEF TakenSoFar, Book

(* A message of a deposit brings what was to come, or mints. *)
LEMMA DepositMoves ==
  ASSUME Inv2, kind = "provide", DispatchTransfer \/ DispatchMint, NEW a \in Assets,
         ~(Current.op = "mint" /\ Current.asset = a)
  PROVE  /\ bal'[PoolManager][a] + In(a)' = bal[PoolManager][a] + In(a)
         /\ bal'[PoolManager][a] \in Nat /\ In(a)' \in Nat
<1> DEFINE m == Current
           ops == {"transfer_from"}
<1>1. StorageTypes /\ msgs \in Seq(Messages) /\ next \in Nat
  BY TypeOKIff DEF Inv2, Inv1, TxnTypes
<1>2. next < Len(msgs) /\ next' = next + 1 /\ msgs' = msgs
  BY DEF DispatchTransfer, DispatchMint, Dispatching, Dispatched
<1>3. m \in Messages /\ m.op \in {"transfer_from", "mint"} /\ PoolManager \in Accounts
  BY <1>2, CurrentType, MessageTells DEF Inv2, Accounts
<1>4. /\ In(a)' = In(a) - Counted(m, ops, a) /\ Counted(m, ops, a) \in Nat
      /\ In(a)' \in Nat
  <2>1. next + 1 \in Nat
    BY <1>1
  <2>2. QED
    BY <1>1, <1>2, <2>1, Dispatching1, PendingIs, ToComeType DEF In, Current
<1>5. bal'[PoolManager][a] = bal[PoolManager][a] + Counted(m, ops, a)
  <2>1. bal \in Holdings /\ bal[PoolManager][a] \in Nat
    BY <1>1, <1>3 DEF StorageTypes, Holdings
  <2>2. CASE m.op = "transfer_from"
    <3>1. /\ m.amount <= bal[m.from][m.asset]
          /\ bal' = Move(bal, m.from, m.to, m.asset, m.amount)
      BY <2>2 DEF DispatchTransfer, DispatchMint, Dispatching
    <3> HIDE DEF m
    <3>2. /\ m.from \in Accounts /\ m.to = PoolManager /\ m.from # PoolManager
          /\ m.asset \in Assets /\ m.amount \in Nat
      BY <1>3, <2>2, PinaColadaAssumption DEF Messages, Accounts, Uint128
    <3>3. bal'[PoolManager][a]
            = bal[PoolManager][a]
              - (IF PoolManager = m.from /\ a = m.asset THEN m.amount ELSE 0)
              + (IF PoolManager = m.to /\ a = m.asset THEN m.amount ELSE 0)
      BY <1>3, <2>1, <3>1, <3>2, MoveEffect
    <3>4. Counted(m, ops, a) = IF m.asset = a THEN m.amount ELSE 0
      BY <2>2 DEF Counted
    <3>5. QED
      BY <2>1, <3>2, <3>3, <3>4
  <2>3. CASE m.op = "mint"
    <3>1. bal' = Credit(bal, m.to, m.asset, m.amount) /\ m.asset # a
      BY <2>3 DEF DispatchTransfer, DispatchMint, Dispatching
    <3> HIDE DEF m
    <3>2. m.to \in Accounts /\ m.asset \in LpTokens
      BY <1>3, <2>3, PinaColadaAssumption DEF Messages
    <3>3. bal'[PoolManager][a] = bal[PoolManager][a]
      BY <1>3, <2>1, <3>1, <3>2 DEF Credit, Holdings
    <3>4. Counted(m, ops, a) = 0
      BY <2>3 DEF Counted
    <3>5. QED
      BY <2>1, <3>3, <3>4
  <2>4. QED
    BY <1>3, <2>2, <2>3
<1>6. bal[PoolManager][a] \in Nat /\ In(a) \in Nat
  BY PartTypes DEF Inv2, Parts
<1> DEFINE x == bal'[PoolManager][a]
           y == In(a)'
           c == Counted(m, ops, a)
<1> HIDE DEF m, ops, x, y, c
<1>7. x = bal[PoolManager][a] + c /\ y = In(a) - c /\ c \in Nat /\ y \in Nat
  BY <1>4, <1>5 DEF x, y, c
<1>8. x + y = bal[PoolManager][a] + In(a) /\ x \in Nat
  BY <1>6, <1>7
<1>9. QED
  BY <1>7, <1>8 DEF x, y

LEMMA DepositGoesOn ==
  ASSUME Inv2, TakenSoFar, kind = "provide", DispatchTransfer \/ DispatchMint
  PROVE  TakenSoFar'
<1>1. next < Len(msgs) /\ UNCHANGED <<pair_balances, kind, msgs, saved>>
  BY DEF DispatchTransfer, DispatchMint, Dispatching, Dispatched, storage
<1>2. Current.op = "mint" => Current.asset \in LpTokens
  BY <1>1, CurrentType, PinaColadaAssumption DEF Inv2, Messages
<1>3. ASSUME NEW a \in Assets \ LpTokens
      PROVE  bal'[PoolManager][a] + In(a)' - saved.bal[PoolManager][a]
               = Book(pair_balances, a) - Book(saved.pair_balances, a)
  <2> DEFINE x == bal'[PoolManager][a]
             y == In(a)'
  <2>1. /\ x + y = bal[PoolManager][a] + In(a) /\ x \in Nat /\ y \in Nat
    BY <1>2, <1>3, DepositMoves
  <2>2. bal[PoolManager][a] + In(a) - saved.bal[PoolManager][a]
          = Book(pair_balances, a) - Book(saved.pair_balances, a)
    BY DEF TakenSoFar
  <2>3. bal[PoolManager][a] \in Nat /\ In(a) \in Nat /\ saved.bal[PoolManager][a] \in Nat
    BY PartTypes, SavedTypes DEF Inv2, Parts, Idle
  <2> HIDE DEF x, y
  <2>4. x + y - saved.bal[PoolManager][a]
          = bal[PoolManager][a] + In(a) - saved.bal[PoolManager][a]
    BY <2>1, <2>3
  <2>5. QED
    BY <2>2, <2>4 DEF x, y
<1>4. QED
  BY <1>1, <1>3 DEF TakenSoFar, Book

LEMMA NextTaken == Inv2 /\ TakenSoFar /\ [Next]_vars => TakenSoFar'
<1> SUFFICES ASSUME Inv2, TakenSoFar, [Next]_vars PROVE TakenSoFar'
  OBVIOUS
<1>1. Inv2'
  BY NextInv2
<1>2. kind' # "provide" => TakenSoFar'
  BY DEF TakenSoFar
<1>3. CASE DepositCall
  BY <1>1, <1>3, DepositStarts DEF DepositCall
<1>4. CASE SwapCall
  BY <1>2, <1>4 DEF SwapCall, StartSwap, Begin
<1>5. CASE \E returned \in CurveOutputs : SwapHop(returned)
  BY <1>2, <1>5 DEF SwapHop, InSwapLoop
<1>6. CASE DispatchTransfer \/ DispatchMint
  <2>1. kind' = kind
    BY <1>6 DEF DispatchTransfer, DispatchMint, Dispatched
  <2>2. QED
    BY <1>2, <1>6, <2>1, DepositGoesOn
<1>7. CASE UNCHANGED vars
  <2>1. UNCHANGED <<pair_balances, bal, kind, msgs, next, saved>>
    BY <1>7 DEF vars, storage, tokens, txn
  <2>2. QED
    BY <2>1 DEF TakenSoFar, Book, In, Pending
<1>8. QED
  BY <1>2, <1>3, <1>4, <1>5, <1>6, <1>7, StepKinds

(* A deposit whose messages are through has moved into the account what it *)
(* has added to the books: native coins with the call, cw20 tokens by the  *)
(* TransferFrom messages, each once.                                       *)
THEOREM DepositTakesItsBooking == Spec => []ProvideTakesWhatItBooks
<1>1. Init => TakenSoFar
  BY DEF Init, TakenSoFar
<1>2. Inv2 /\ TakenSoFar /\ [Next]_vars => TakenSoFar'
  BY NextTaken
<1>3. Inv2 /\ TakenSoFar => ProvideTakesWhatItBooks
  <2> SUFFICES ASSUME Inv2, TakenSoFar, kind = "provide", next = Len(msgs),
                      NEW a \in Assets \ LpTokens
               PROVE  bal[PoolManager][a] - saved.bal[PoolManager][a]
                        = Book(pair_balances, a) - Book(saved.pair_balances, a)
    BY DEF ProvideTakesWhatItBooks
  <2>1. In(a) = 0
    <3>1. msgs \in Seq(Messages) /\ next \in Nat
      BY TypeOKIff DEF Inv2, Inv1, TxnTypes
    <3>2. \A j \in 1..Len(msgs) : ~(j > next)
      BY <3>1
    <3>3. QED
      BY <3>1, <3>2, PendingIs, NothingToCome DEF In
  <2>2. bal[PoolManager][a] + In(a) - saved.bal[PoolManager][a]
          = Book(pair_balances, a) - Book(saved.pair_balances, a)
    BY DEF TakenSoFar
  <2>3. bal[PoolManager][a] \in Nat /\ saved.bal[PoolManager][a] \in Nat
    BY PartTypes, SavedTypes DEF Inv2, Parts, Idle
  <2>4. QED
    BY <2>1, <2>2, <2>3
<1>4. QED
  BY <1>1, <1>2, <1>3, Inv2Holds, PTL DEF Spec
=============================================================================
