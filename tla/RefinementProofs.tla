-------------------------- MODULE RefinementProofs --------------------------
(***************************************************************************)
(* PinaColada implements PoolLedger: proof that every transaction, however *)
(* many steps it takes, is one step of the ledger when it commits and none *)
(* when it is rolled back.                                                 *)
(*                                                                         *)
(* For each kind of transaction an invariant says what it has done so far, *)
(* relative to the storage it began with; when nothing is left to dispatch *)
(* the invariant is the ledger's action.                                   *)
(***************************************************************************)
EXTENDS TransactionProofs, PinaColadaRefinement

Books(a) == Book(pair_balances, a)
BooksBefore(a) == Book(saved.pair_balances, a)
Has(a) == bal[PoolManager][a]
HadBefore(a) == saved.bal[PoolManager][a]

LEMMA NumbersOf ==
  ASSUME Inv2, NEW a \in Assets
  PROVE  /\ Books(a) \in Nat /\ Has(a) \in Nat
         /\ ~Idle => BooksBefore(a) \in Nat /\ HadBefore(a) \in Nat
BY PartTypes, SavedTypes DEF Inv2, Parts, Books, BooksBefore, Has, HadBefore

(* The actions, by what they are to a transaction. *)
CreateCall == \E req \in PairRequests : CreatePair(req)
SwapArrives ==
  \E u \in Users, given \in Assets, ops \in Paths, n \in Amounts, to \in Receivers :
    /\ StartSwap(ops, n, to)
    /\ n > 0 /\ n <= bal[u][given] /\ bal' = Move(bal, u, PoolManager, given, n)
WithdrawCall ==
  \E u \in Users, t \in LpTokens, k \in DOMAIN pools, n \in Amounts :
    WithdrawLiquidity(u, t, k, n)
Creation == Reply \/ \E l \in LpTokens : Instantiate(l)
Dispatch == DispatchTransfer \/ DispatchMint \/ DispatchBurn

LEMMA StepIs ==
  ASSUME Inv2, [Next]_vars
  PROVE  \/ CreateCall \/ DepositCall \/ SwapArrives \/ WithdrawCall
         \/ \E returned \in CurveOutputs : SwapHop(returned)
         \/ Creation \/ Dispatch
         \/ Commit \/ Revert \/ Environment
         \/ UNCHANGED vars
<1>1. CASE Call
  <2>1. CASE \E u \in Users, k \in DOMAIN pools, n1, n2 \in Amounts,
                to \in Receivers, share \in CurveOutputs :
               \E a, b \in k :
                 /\ a # b
                 /\ ProvideLiquidity(u, <<[info |-> a, amount |-> n1],
                                          [info |-> b, amount |-> n2]>>, to, share)
    <3>1. PICK u \in Users, k \in DOMAIN pools, n1 \in Amounts, n2 \in Amounts,
               to \in Receivers, share \in CurveOutputs :
                 \E a, b \in k :
                   ProvideLiquidity(u, <<[info |-> a, amount |-> n1],
                                         [info |-> b, amount |-> n2]>>, to, share)
      BY <2>1
    <3>2. PICK a \in k, b \in k :
                 ProvideLiquidity(u, <<[info |-> a, amount |-> n1],
                                       [info |-> b, amount |-> n2]>>, to, share)
      BY <3>1
    <3>3. <<[info |-> a, amount |-> n1], [info |-> b, amount |-> n2]>> \in Asset \X Asset
      BY DepositArguments
    <3>4. QED
      BY <3>2, <3>3 DEF DepositCall
  <2>2. CASE \E u \in Users, ops \in Paths, n \in Amounts, to \in Receivers :
               ExecuteSwapOperations(u, ops, n, to)
    <3>1. DENOM \in Assets
      BY PinaColadaAssumption DEF Assets
    <3>2. QED
      BY <2>2, <3>1 DEF ExecuteSwapOperations, SwapArrives
  <2>3. CASE \E u \in Users, t \in Cw20s \cup LpTokens, ops \in Paths, n \in Amounts,
                to \in Receivers : ReceiveSwap(u, t, ops, n, to)
    <3>1. Cw20s \cup LpTokens \subseteq Assets
      BY DEF Assets
    <3>2. QED
      BY <2>3, <3>1 DEF ReceiveSwap, SwapArrives
  <2>4. QED
    BY <1>1, <2>1, <2>2, <2>3 DEF Call, CreateCall, WithdrawCall
<1>2. CASE Run
  BY <1>2 DEF Run, Creation, Dispatch
<1>3. QED
  BY <1>1, <1>2 DEF Next

(* Which kind of transaction a step begins, goes on with or ends. *)
LEMMA BeginIs ==
  /\ CreateCall => Idle /\ kind' = "create" /\ saved' = Snapshot
  /\ DepositCall => Idle /\ kind' = "provide" /\ saved' = Snapshot
  /\ SwapArrives => Idle /\ kind' = "swap" /\ saved' = Snapshot
  /\ WithdrawCall => Idle /\ kind' = "withdraw" /\ saved' = Snapshot
<1>1. CreateCall => Idle /\ kind' = "create" /\ saved' = Snapshot
  BY DEF CreateCall, CreatePair, Begin
<1>2. DepositCall => Idle /\ kind' = "provide" /\ saved' = Snapshot
  <2>1. ASSUME NEW u, NEW sent, NEW to, NEW share, ProvideLiquidity(u, sent, to, share)
        PROVE  Idle /\ kind' = "provide" /\ saved' = Snapshot
    BY <2>1 DEF ProvideLiquidity, Begin
  <2>2. QED
    BY <2>1 DEF DepositCall
<1>3. SwapArrives => Idle /\ kind' = "swap" /\ saved' = Snapshot
  BY DEF SwapArrives, StartSwap, Begin
<1>4. WithdrawCall => Idle /\ kind' = "withdraw" /\ saved' = Snapshot
  BY DEF WithdrawCall, WithdrawLiquidity, Begin
<1>5. QED
  BY <1>1, <1>2, <1>3, <1>4

LEMMA GoesOn ==
  ASSUME Inv2
  PROVE  /\ (\E returned \in CurveOutputs : SwapHop(returned)) =>
              kind = "swap" /\ kind' = "swap" /\ saved' = saved
         /\ Creation => kind = "create" /\ kind' = "create" /\ saved' = saved
         /\ Dispatch => /\ kind' = kind /\ saved' = saved /\ ~Idle /\ kind # "create"
                        /\ next < Len(msgs) /\ next' = next + 1
                        /\ UNCHANGED <<pools, pair_balances, deployed, path, hop, amount,
                                       recipient, msgs>>
<1>1. ASSUME NEW returned, SwapHop(returned) PROVE kind = "swap" /\ kind' = "swap" /\ saved' = saved
  BY <1>1 DEF SwapHop, InSwapLoop
<1>2. ASSUME Creation PROVE kind = "create" /\ kind' = "create" /\ saved' = saved
  <2>1. next < Len(msgs) /\ Current.op \in {"instantiate", "reply"} /\ kind' = kind /\ saved' = saved
    BY <1>2 DEF Creation, Instantiate, Reply, Current
  <2>2. QED
    BY <2>1, MessageTells
<1>3. ASSUME Dispatch
      PROVE  /\ kind' = kind /\ saved' = saved /\ ~Idle /\ kind # "create"
             /\ next < Len(msgs) /\ next' = next + 1
             /\ UNCHANGED <<pools, pair_balances, deployed, path, hop, amount, recipient, msgs>>
  <2>1. /\ next < Len(msgs) /\ Current.op \in {"transfer", "transfer_from", "mint", "burn"}
        /\ Dispatched
    BY <1>3 DEF Dispatch, DispatchTransfer, DispatchMint, DispatchBurn, Dispatching
  <2>2. next + 1 \in 1..Len(msgs)
    BY <2>1, TypeOKIff DEF Inv2, Inv1, TxnTypes
  <2>3. Current.op \in Kinds(kind)
    BY <2>2 DEF Inv2, MessageKinds, Current
  <2>4. ~Idle
    <3>1. Idle => msgs = <<>>
      BY DEF Inv2, Inv1
    <3>2. msgs # <<>>
      BY <2>2
    <3>3. QED
      BY <3>1, <3>2
  <2>5. kind # "create"
    BY <2>1, <2>3 DEF Kinds
  <2>6. QED
    BY <2>1, <2>4, <2>5 DEF Dispatched, storage
<1>4. QED
  BY <1>1, <1>2, <1>3

LEMMA EndIs ==
  /\ Commit \/ Revert => ~Idle /\ Idle'
  /\ Environment => Idle /\ Idle'
BY DEF Commit, Revert, End, Environment, UserTransfer, UserBurn, txn, Idle

LEMMA StepOf ==
  ASSUME Inv2, [Next]_vars
  PROVE  /\ kind' = "create" => CreateCall \/ Creation \/ UNCHANGED vars
         /\ kind' = "provide" => DepositCall \/ (Dispatch /\ kind = "provide") \/ UNCHANGED vars
         /\ kind' = "swap" =>
              \/ SwapArrives \/ \E returned \in CurveOutputs : SwapHop(returned)
              \/ Dispatch /\ kind = "swap"
              \/ UNCHANGED vars
         /\ kind' = "withdraw" =>
              WithdrawCall \/ (Dispatch /\ kind = "withdraw") \/ UNCHANGED vars
<1>1. Idle' => kind' = "none"
  BY DEF Idle
<1>2. QED
  BY <1>1, StepIs, BeginIs, GoesOn, EndIs

(* The same operations serve every kind, but not in every kind. *)
LEMMA DispatchIs ==
  ASSUME Inv2, Dispatch
  PROVE  /\ kind = "provide" => /\ DispatchTransfer \/ DispatchMint
                                /\ Current.op \in {"transfer_from", "mint"}
         /\ kind = "swap" => DispatchTransfer /\ Current.op = "transfer"
         /\ kind = "withdraw" => /\ DispatchTransfer \/ DispatchBurn
                                 /\ Current.op \in {"transfer", "burn"}
<1>1. next + 1 \in 1..Len(msgs)
  BY GoesOn, TypeOKIff DEF Inv2, Inv1, TxnTypes
<1>2. Current.op \in Kinds(kind)
  BY <1>1 DEF Inv2, MessageKinds, Current
<1>3. /\ DispatchTransfer => Current.op \in {"transfer", "transfer_from"}
      /\ DispatchMint => Current.op = "mint"
      /\ DispatchBurn => Current.op = "burn"
  BY DEF DispatchTransfer, DispatchMint, DispatchBurn, Dispatching
<1>4. QED
  BY <1>2, <1>3 DEF Dispatch, Kinds
-----------------------------------------------------------------------------
(* A pool's own LP token is neither of the assets it holds: it is          *)
(* instantiated after both of them.                                        *)
OwnApart(ps, dep) ==
  \A k \in DOMAIN ps :
    /\ k \cap LpTokens \subseteq dep
    /\ ps[k].liquidity_token \in LpTokens => ps[k].liquidity_token \notin k

OwnTokens ==
  /\ OwnApart(pools, deployed)
  /\ ~Idle => OwnApart(saved.pools, saved.deployed)
  /\ kind = "create" /\ Len(msgs) = 2 /\ next = 1 => msgs[2].asset \notin queued_mint

LEMMA OwnBegins ==
  ASSUME OwnTokens, saved' = Snapshot
  PROVE  OwnApart(saved'.pools, saved'.deployed)
BY DEF OwnTokens, Snapshot

LEMMA CreateOwn ==
  ASSUME Inv2, OwnTokens, NEW req \in PairRequests, CreatePair(req)
  PROVE  OwnTokens'
<1> DEFINE infos == req.asset_infos
           k == PairKey(infos[1], infos[2])
           config == [asset_infos |-> infos, liquidity_token |-> NoAddr,
                      track_asset_balances |-> req.track]
<1>1. /\ k \cap LpTokens \subseteq deployed
      /\ pools' = Put(pools, k, config)
      /\ deployed' = deployed /\ saved' = Snapshot /\ next' = 0
  BY DEF CreatePair, Begin, tokens
<1>2. config.liquidity_token \notin LpTokens
  BY PinaColadaAssumption
<1> HIDE DEF k, config
<1>3. OwnApart(pools', deployed')
  <2> SUFFICES ASSUME NEW j \in DOMAIN pools'
               PROVE  /\ j \cap LpTokens \subseteq deployed
                      /\ pools'[j].liquidity_token \in LpTokens => pools'[j].liquidity_token \notin j
    BY <1>1 DEF OwnApart
  <2>1. pools'[j] = (IF j = k THEN config ELSE pools[j]) /\ (j = k \/ j \in DOMAIN pools)
    BY <1>1 DEF Put
  <2>2. QED
    BY <1>1, <1>2, <2>1 DEF OwnTokens, OwnApart
<1>4. QED
  BY <1>1, <1>3, OwnBegins DEF OwnTokens

LEMMA InstantiateOwn ==
  ASSUME Inv2, OwnTokens, NEW l \in LpTokens, Instantiate(l)
  PROVE  OwnTokens'
<1> DEFINE m == Message("reply", l, PoolManager, PoolManager, 0)
<1>1. /\ l \notin deployed /\ deployed' = deployed \cup {l} /\ msgs' = Append(msgs, m)
      /\ next' = next + 1
      /\ next < Len(msgs) /\ msgs[next + 1].op = "instantiate"
      /\ UNCHANGED <<pools, queued_mint, kind, saved>>
  BY DEF Instantiate, storage
<1>2. OwnApart(pools', deployed')
  BY <1>1 DEF OwnTokens, OwnApart
<1>3. kind = "create" /\ Len(msgs) = 1 /\ next = 0 /\ queued_mint \in DOMAIN pools
  <2>1. next + 1 \in 1..Len(msgs) /\ CreateProtocol /\ LpBinding
    BY <1>1, TypeOKIff DEF Inv2, Inv1, TxnTypes
  <2>2. kind = "create"
    BY <1>1, <2>1 DEF CreateProtocol
  <2>3. ~(next = 1 /\ msgs[2].op = "reply")
    BY <1>1
  <2>4. Len(msgs) = 1 /\ next = 0 /\ queued_mint # NoKey
    BY <1>1, <2>1, <2>2, <2>3 DEF CreateProtocol
  <2>5. QED
    BY <2>1, <2>2, <2>4 DEF LpBinding
<1>4. m.asset = l
  BY DEF Message
<1> HIDE DEF m
<1>5. msgs'[2] = m
  <2>1. msgs \in Seq(Messages)
    BY TypeOKIff DEF Inv2, Inv1, TxnTypes
  <2>2. msgs'[Len(msgs) + 1] = m
    BY <1>1, <2>1
  <2>3. QED
    BY <1>3, <2>2
<1>6. l \notin queued_mint
  BY <1>1, <1>3 DEF OwnTokens, OwnApart
<1>7. QED
  BY <1>1, <1>2, <1>4, <1>5, <1>6 DEF OwnTokens, Idle

LEMMA ReplyOwn ==
  ASSUME Inv2, OwnTokens, Reply
  PROVE  OwnTokens'
<1> DEFINE l == msgs[next + 1].asset
<1>1. /\ next < Len(msgs) /\ msgs[next + 1].op = "reply" /\ next' = next + 1
      /\ queued_mint \in DOMAIN pools
      /\ pools' = [pools EXCEPT ![queued_mint].liquidity_token = l]
      /\ UNCHANGED <<deployed, kind, msgs, saved>>
  BY DEF Reply, tokens
<1>2. kind = "create" /\ Len(msgs) = 2 /\ next = 1
  <2>1. next + 1 \in 1..Len(msgs) /\ CreateProtocol
    BY <1>1, TypeOKIff DEF Inv2, Inv1, TxnTypes
  <2>2. kind = "create"
    BY <1>1, <2>1 DEF CreateProtocol
  <2>3. ~(next = 0 /\ msgs[1].op = "instantiate")
    BY <1>1
  <2>4. QED
    BY <1>1, <2>1, <2>2, <2>3 DEF CreateProtocol
<1>3. l \notin queued_mint
  BY <1>2 DEF OwnTokens
<1>4. pools[queued_mint] \in Config
  BY <1>1, TypeOKIff DEF Inv2, Inv1, StorageTypes
<1> HIDE DEF l
<1>5. /\ DOMAIN pools' = DOMAIN pools
      /\ \A k \in DOMAIN pools \ {queued_mint} : pools'[k] = pools[k]
      /\ pools'[queued_mint].liquidity_token = l
  BY <1>1, <1>4 DEF Config
<1>6. OwnApart(pools', deployed')
  BY <1>1, <1>3, <1>5 DEF OwnTokens, OwnApart
<1>7. QED
  BY <1>1, <1>2, <1>6 DEF OwnTokens, Idle

LEMMA NextOwn == Inv2 /\ OwnTokens /\ [Next]_vars => OwnTokens'
<1> SUFFICES ASSUME Inv2, OwnTokens, [Next]_vars PROVE OwnTokens'
  OBVIOUS
<1>1. ASSUME UNCHANGED <<pools, deployed>>, saved' = Snapshot, kind' # "create"
      PROVE  OwnTokens'
  BY <1>1, OwnBegins DEF OwnTokens
<1>2. ASSUME UNCHANGED <<pools, deployed, saved>>, ~Idle, kind' # "create"
      PROVE  OwnTokens'
  BY <1>2 DEF OwnTokens
<1>3. ASSUME OwnApart(pools', deployed'), Idle'
      PROVE  OwnTokens'
  BY <1>3 DEF OwnTokens, Idle
<1>4. CASE CreateCall
  BY <1>4, CreateOwn DEF CreateCall
<1>5. CASE DepositCall
  <2>1. ASSUME NEW u, NEW sent, NEW to, NEW share, ProvideLiquidity(u, sent, to, share)
        PROVE  UNCHANGED <<pools, deployed>>
    BY <2>1 DEF ProvideLiquidity
  <2>2. UNCHANGED <<pools, deployed>>
    BY <1>5, <2>1 DEF DepositCall
  <2>3. QED
    BY <1>1, <1>5, <2>2, BeginIs
<1>6. CASE SwapArrives
  <2>1. UNCHANGED <<pools, deployed>>
    BY <1>6 DEF SwapArrives, StartSwap, storage
  <2>2. QED
    BY <1>1, <1>6, <2>1, BeginIs
<1>7. CASE WithdrawCall
  <2>1. ASSUME NEW u, NEW t, NEW k, NEW n, WithdrawLiquidity(u, t, k, n)
        PROVE  UNCHANGED <<pools, deployed>>
    BY <2>1 DEF WithdrawLiquidity
  <2>2. UNCHANGED <<pools, deployed>>
    BY <1>7, <2>1 DEF WithdrawCall
  <2>3. QED
    BY <1>1, <1>7, <2>2, BeginIs
<1>8. CASE \E returned \in CurveOutputs : SwapHop(returned)
  <2>1. UNCHANGED <<pools, deployed>>
    BY <1>8 DEF SwapHop, tokens
  <2>2. QED
    BY <1>2, <1>8, <2>1, GoesOn DEF Idle
<1>9. CASE Dispatch
  <2>1. UNCHANGED <<pools, deployed>>
    BY <1>9 DEF Dispatch, DispatchTransfer, DispatchMint, DispatchBurn, Dispatched, storage
  <2>2. QED
    BY <1>2, <1>9, <2>1, GoesOn
<1>10. CASE Creation
  BY <1>10, InstantiateOwn, ReplyOwn DEF Creation
<1>11. CASE Commit
  <2>1. UNCHANGED <<pools, deployed>>
    BY <1>11 DEF Commit, storage, tokens
  <2>2. QED
    BY <1>3, <1>11, <2>1, EndIs DEF OwnTokens
<1>12. CASE Revert
  <2>1. pools' = saved.pools /\ deployed' = saved.deployed
    BY <1>12 DEF Revert
  <2>2. QED
    BY <1>3, <1>12, <2>1, EndIs DEF OwnTokens
<1>13. CASE Environment
  <2>1. UNCHANGED <<pools, deployed>>
    BY <1>13 DEF Environment, UserTransfer, UserBurn, storage
  <2>2. QED
    BY <1>3, <1>13, <2>1, EndIs DEF OwnTokens
<1>14. CASE UNCHANGED vars
  BY <1>14 DEF vars, storage, tokens, txn, OwnTokens, Idle
<1>15. QED
  BY <1>4, <1>5, <1>6, <1>7, <1>8, <1>9, <1>10, <1>11, <1>12, <1>13, <1>14, StepIs

LEMMA OwnTokensHold == Spec => []OwnTokens
<1>1. Init => OwnTokens
  BY DEF Init, OwnTokens, OwnApart, Idle
<1>2. Inv2 /\ OwnTokens /\ [Next]_vars => OwnTokens'
  BY NextOwn
<1>3. QED
  BY <1>1, <1>2, Inv2Holds, PTL DEF Spec
-----------------------------------------------------------------------------
(* The parts of the state the ledger shows, after a step. *)
LEMMA BooksNext ==
  \A a : /\ Books(a)' = Book(pair_balances', a)
         /\ BooksBefore(a)' = Book(saved'.pair_balances, a)
         /\ Has(a)' = bal'[PoolManager][a]
         /\ HadBefore(a)' = saved'.bal[PoolManager][a]
BY DEF Books, BooksBefore, Has, HadBefore, Book

(* A transaction begins with what it saves. *)
LEMMA BeginsWith ==
  ASSUME saved' = Snapshot
  PROVE  /\ \A a : BooksBefore(a)' = Books(a) /\ HadBefore(a)' = Has(a)
         /\ saved'.supply = supply /\ saved'.bal = bal
BY BooksNext DEF Snapshot, Books, Has
-----------------------------------------------------------------------------
(* The creation of a pool. *)

(* An empty entry leaves the book of other assets than its own alone. *)
LEMMA BookOfOthers ==
  ASSUME NEW pb, PoolsOK(pb), NEW k, NEW e, NEW a, a \notin k,
         \A i \in {1, 2} : e[i].info \in k
  PROVE  Book(Put(pb, k, e), a) = Book(pb, a)
<1> DEFINE qb == Put(pb, k, e)
<1>1. DOMAIN qb = DOMAIN pb \cup {k} /\ \A c \in DOMAIN qb : qb[c] = IF c = k THEN e ELSE pb[c]
  BY DEF Put
<1> HIDE DEF qb
<1>2. k \in DOMAIN pb => \A i \in {1, 2} : pb[k][i].info # a
  BY DEF PoolsOK
<1>3. \A i \in {1, 2} : e[i].info # a
  OBVIOUS
<1>4. ASSUME NEW c \in PairKeys \X {1, 2}
      PROVE  (IF c[1] \in DOMAIN qb /\ qb[c[1]][c[2]].info = a THEN qb[c[1]][c[2]].amount ELSE 0)
               = (IF c[1] \in DOMAIN pb /\ pb[c[1]][c[2]].info = a
                  THEN pb[c[1]][c[2]].amount ELSE 0)
  <2>1. c[2] \in {1, 2}
    OBVIOUS
  <2>2. CASE c[1] = k
    BY <1>1, <1>2, <1>3, <2>1, <2>2
  <2>3. CASE c[1] # k
    <3>1. c[1] \in DOMAIN qb <=> c[1] \in DOMAIN pb
      BY <1>1, <2>3
    <3>2. c[1] \in DOMAIN pb => qb[c[1]] = pb[c[1]]
      BY <1>1, <2>3
    <3>3. QED
      BY <3>1, <3>2
  <2>4. QED
    BY <2>2, <2>3
<1>5. SlotAmounts(qb, a) = SlotAmounts(pb, a)
  BY <1>4 DEF SlotAmounts, Slots
<1>6. Book(qb, a) = Total(SlotAmounts(qb, a)) /\ Book(pb, a) = Total(SlotAmounts(pb, a))
  BY DEF Book, SlotAmounts, Slots
<1>7. QED
  BY <1>5, <1>6 DEF qb

CreateSoFar ==
  kind = "create" =>
    /\ bal = saved.bal /\ supply = saved.supply
    /\ \E a, b \in Assets : \A c \in Assets :
         IF c \in {a, b} THEN Books(c) <= BooksBefore(c) ELSE Books(c) = BooksBefore(c)

LEMMA CreateStarts ==
  ASSUME Inv2, NEW req \in PairRequests, CreatePair(req)
  PROVE  CreateSoFar'
<1> DEFINE infos == req.asset_infos
           x == infos[1]
           y == infos[2]
           k == PairKey(x, y)
           empty == <<[info |-> x, amount |-> 0], [info |-> y, amount |-> 0]>>
<1>1. /\ saved' = Snapshot /\ UNCHANGED <<supply, bal>>
      /\ pair_balances' = Put(pair_balances, k, empty)
  BY DEF CreatePair, Begin, tokens
<1>2. infos \in Assets \X Assets /\ infos[1] # infos[2]
  BY PinaColadaAssumption DEF CreatePair
<1>3. x \in Assets /\ y \in Assets /\ k = {x, y}
  BY <1>2 DEF PairKey
<1>4. k \in PairKeys
  BY <1>2, <1>3, KeyType
<1>5. empty \in Asset \X Asset /\ \A i \in {1, 2} : empty[i].amount = 0 /\ empty[i].info \in k
  BY <1>3, PinaColadaAssumption DEF Asset, Uint128
<1>6. IsBook(pair_balances) /\ PoolsOK(pair_balances)
  BY TypeOKIff DEF Inv2, Inv1, StorageTypes
<1> HIDE DEF infos, x, y, k, empty
<1>7. \A c \in Assets : /\ Books(c)' <= Books(c)
                        /\ c \notin k => Books(c)' = Books(c)
  BY <1>1, <1>4, <1>5, <1>6, BookOfEmpty, BookOfOthers, BooksNext DEF Books
<1>8. \A c \in Assets : IF c \in {x, y} THEN Books(c)' <= BooksBefore(c)'
                        ELSE Books(c)' = BooksBefore(c)'
  BY <1>1, <1>3, <1>7, BeginsWith
<1>9. bal' = saved'.bal /\ supply' = saved'.supply
  BY <1>1, BeginsWith
<1>10. QED
  BY <1>3, <1>8, <1>9 DEF CreateSoFar

LEMMA NextCreate == Inv2 /\ CreateSoFar /\ [Next]_vars => CreateSoFar'
<1> SUFFICES ASSUME Inv2, CreateSoFar, [Next]_vars PROVE CreateSoFar'
  OBVIOUS
<1>1. ASSUME UNCHANGED <<pair_balances, bal, supply, kind, saved>> PROVE CreateSoFar'
  <2>1. \A a : Books(a)' = Books(a) /\ BooksBefore(a)' = BooksBefore(a)
    BY <1>1, BooksNext DEF Books, BooksBefore
  <2>2. QED
    BY <1>1, <2>1, ZenonT(30) DEF CreateSoFar
<1>2. CASE CreateCall
  BY <1>2, CreateStarts DEF CreateCall
<1>3. CASE Creation
  BY <1>1, <1>3 DEF Creation, Instantiate, Reply, storage, tokens
<1>4. CASE UNCHANGED vars
  BY <1>1, <1>4 DEF vars, storage, tokens, txn
<1>5. CASE kind' # "create"
  BY <1>5 DEF CreateSoFar
<1>6. QED
  BY <1>2, <1>3, <1>4, <1>5, StepOf
-----------------------------------------------------------------------------
(* A deposit. *)

(* Its messages pull in the two assets and end with a mint. *)
LEMMA PullOf ==
  ASSUME NEW u, NEW asset
  PROVE  \A m \in 1..Len(Pull(u, asset)) :
           Pull(u, asset)[m].op = "transfer_from" /\ Pull(u, asset)[m].asset = asset.info
<1> DEFINE msg == Message("transfer_from", asset.info, u, PoolManager, asset.amount)
<1>1. msg.op = "transfer_from" /\ msg.asset = asset.info
  BY DEF Message
<1>2. Pull(u, asset) = <<>> \/ Pull(u, asset) = <<msg>>
  BY DEF Pull
<1> HIDE DEF msg
<1>3. QED
  BY <1>1, <1>2

LEMMA MintsNotEmpty ==
  ASSUME NEW lp, NEW first, NEW to, NEW share
  PROVE  Len(Mints(lp, first, to, share)) > 0
<1> DEFINE lock == Message("mint", lp, PoolManager, PoolManager, MINIMUM_LIQUIDITY_AMOUNT)
           one == Message("mint", lp, PoolManager, to, share)
<1>1. Mints(lp, first, to, share) = (IF first THEN <<lock>> ELSE <<>>) \o <<one>>
  BY DEF Mints
<1> HIDE DEF lock, one
<1>2. QED
  BY <1>1

LEMMA DepositEnds ==
  ASSUME NEW u \in Users, NEW assets \in Asset \X Asset, NEW lp \in LpTokens,
         NEW first \in BOOLEAN, NEW to \in Accounts, NEW share \in Uint128,
         NEW q, q = DepositOf(u, assets, lp, first, to, share)
  PROVE  /\ q \in Seq(Messages) /\ Len(q) > 0 /\ q[Len(q)].op = "mint"
         /\ \A m \in 1..Len(q) :
              \/ q[m].op = "mint" /\ q[m].asset = lp
              \/ q[m].op = "transfer_from" /\ q[m].asset \in {assets[1].info, assets[2].info}
<1> DEFINE p1 == Pull(u, assets[1])
           p2 == Pull(u, assets[2])
           p3 == Mints(lp, first, to, share)
           n1 == Len(p1)
           n2 == Len(p2)
           n3 == Len(p3)
<1>1. p1 \in Seq(Messages) /\ p2 \in Seq(Messages)
  BY PullCounts, assets[1] \in Asset, assets[2] \in Asset
<1>2. p3 \in Seq(Messages) /\ n3 > 0 /\ \A m \in 1..n3 : p3[m].op = "mint"
  BY MintsAreMints, MintsNotEmpty
<1>3. /\ \A m \in 1..n1 : p1[m].op = "transfer_from" /\ p1[m].asset = assets[1].info
      /\ \A m \in 1..n2 : p2[m].op = "transfer_from" /\ p2[m].asset = assets[2].info
  BY PullOf
<1>4. \A m \in 1..Len(q) : q[m].op = "mint" => q[m].asset = lp
  BY DepositShape DEF ShapedLike
<1>5. q = (p1 \o p2) \o p3
  BY DEF DepositOf
<1> HIDE DEF p1, p2, p3
<1>6. /\ Len(q) = n1 + n2 + n3
      /\ \A m \in 1..Len(q) : q[m] = IF m <= n1 THEN p1[m]
                                    ELSE IF m <= n1 + n2 THEN p2[m - n1]
                                    ELSE p3[m - (n1 + n2)]
  BY <1>1, <1>2, <1>5, Concat3
<1>7. q \in Seq(Messages) /\ n1 \in Nat /\ n2 \in Nat /\ n3 \in Nat
  BY <1>1, <1>2, <1>5
<1> HIDE DEF n1, n2, n3
<1>8. ASSUME NEW m \in 1..Len(q)
      PROVE  /\ m <= n1 => q[m].op = "transfer_from" /\ q[m].asset = assets[1].info
             /\ m > n1 /\ m <= n1 + n2 =>
                  q[m].op = "transfer_from" /\ q[m].asset = assets[2].info
             /\ m > n1 + n2 => q[m].op = "mint"
  <2>1. CASE m <= n1
    BY <1>3, <1>6, <1>7, <2>1
  <2>2. CASE m > n1 /\ m <= n1 + n2
    <3>1. m - n1 \in 1..n2 /\ ~(m <= n1)
      BY <1>7, <2>2
    <3>2. q[m] = p2[m - n1]
      BY <1>6, <2>2, <3>1
    <3>3. QED
      BY <1>3, <1>7, <2>2, <3>1, <3>2
  <2>3. CASE m > n1 + n2
    <3>1. m - (n1 + n2) \in 1..n3 /\ ~(m <= n1) /\ ~(m <= n1 + n2)
      BY <1>6, <1>7, <2>3
    <3>2. q[m] = p3[m - (n1 + n2)]
      BY <1>6, <3>1
    <3>3. QED
      BY <1>2, <2>3, <3>1, <3>2
  <2>4. QED
    BY <1>7, <2>1, <2>2, <2>3
<1>9. Len(q) > 0 /\ Len(q) \in 1..Len(q) /\ Len(q) > n1 + n2
  BY <1>2, <1>6, <1>7
<1>10. \A m \in 1..Len(q) : m <= n1 \/ (m > n1 /\ m <= n1 + n2) \/ m > n1 + n2
  BY <1>7
<1>11. QED
  BY <1>4, <1>7, <1>8, <1>9, <1>10

(* What a deposit that mints l has done: it books one or two other assets, *)
(* takes what it books, and mints l, of which only the lock and what it    *)
(* names the contract itself to receive stays here.                        *)
MintsAtLast(l) ==
  /\ Len(msgs) > 0 /\ msgs[Len(msgs)].op = "mint"
  /\ \A m \in 1..Len(msgs) : (msgs[m].op = "mint") <=> (msgs[m].asset = l)

BooksOneOrTwo(l) ==
  /\ \E a, b \in Assets : {c \in Assets : Books(c) # BooksBefore(c)} = {a, b}
  /\ Books(l) = BooksBefore(l)
  /\ \A a \in Assets : Books(a) >= BooksBefore(a)

TakesOthers(l) ==
  \A a \in Assets \ {l} : Has(a) + In(a) - HadBefore(a) = Books(a) - BooksBefore(a)

MintsSoFar(l) ==
  /\ \A m \in LpTokens \ {l} : supply[m] = saved.supply[m]
  /\ Has(l) - HadBefore(l) \in 0..(supply[l] - saved.supply[l])
  /\ saved.supply[l] = 0 /\ supply[l] > 0 =>
       Has(l) - HadBefore(l) >= MINIMUM_LIQUIDITY_AMOUNT
  /\ next = Len(msgs) => supply[l] > saved.supply[l]

DepositSoFar ==
  kind = "provide" =>
    \E l \in LpTokens : MintsAtLast(l) /\ BooksOneOrTwo(l) /\ TakesOthers(l) /\ MintsSoFar(l)

LEMMA DepositSoFarStarts ==
  ASSUME Inv2, Inv2', OwnTokens, NEW u \in Users, NEW sent \in Asset \X Asset,
         NEW to \in Receivers, NEW share \in CurveOutputs, ProvideLiquidity(u, sent, to, share)
  PROVE  DepositSoFar'
<1> DEFINE k == PairKey(sent[1].info, sent[2].info)
           assets == InPoolOrder(k, sent)
           lp == pools[k].liquidity_token
           first == supply[lp] = 0
           ms == DepositOf(u, assets, lp, first, to, share)
           deposits == <<assets[1].amount, assets[2].amount>>
<1>1. DepositBooked(k, assets)
  BY ProvideBooks
<1>2. /\ msgs' = ms /\ next' = 0 /\ bal' = FundsSent(bal, u, sent)
      /\ saved' = Snapshot /\ supply' = supply /\ Idle
      /\ deposits[1] + deposits[2] > 0
  BY DEF ProvideLiquidity, Begin, DepositOf
<1>2a. assets[1].amount + assets[2].amount > 0
  BY <1>2
<1>3. lp \in LpTokens
  <2>1. StorageTypes /\ LpBinding
    BY TypeOKIff DEF Inv2, Inv1
  <2>2. queued_mint = NoKey /\ k # NoKey
    BY <1>1, <2>1, KeyShape DEF DepositBooked, LpBinding, Idle
  <2>3. QED
    BY <1>1, <2>1, <2>2 DEF DepositBooked, LpBinding, StorageTypes
<1>4. lp \notin k
  BY <1>1, <1>3 DEF DepositBooked, OwnTokens, OwnApart
<1>5. to \in Accounts /\ share \in Uint128 /\ first \in BOOLEAN
  BY PinaColadaAssumption
<1>6. PICK l \in LpTokens : l = lp
  BY <1>3
<1>6a. PICK x, y : x = assets[1].info /\ y = assets[2].info
  OBVIOUS
<1> HIDE DEF k, assets, lp, first, deposits
<1>7. k = {x, y} /\ x # y
  <2>1. k = {pair_balances[k][1].info, pair_balances[k][2].info}
    BY <1>1 DEF DepositBooked, Inv2, PoolsOK
  <2>2. QED
    BY <1>1, <1>6a, <2>1 DEF DepositBooked
<1>8. MintsAtLast(l)'
  <2> HIDE DEF ms
  <2>1. assets \in Asset \X Asset
    BY <1>1 DEF DepositBooked
  <2>2. ms = DepositOf(u, assets, lp, first, to, share)
    BY DEF ms
  <2>3. /\ Len(ms) > 0 /\ ms[Len(ms)].op = "mint"
        /\ \A m \in 1..Len(ms) : \/ ms[m].op = "mint" /\ ms[m].asset = lp
                                 \/ ms[m].op = "transfer_from" /\ ms[m].asset \in {x, y}
    BY <1>3, <1>5, <1>6a, <2>1, <2>2, DepositEnds, SMTT(30)
  <2>4. \A m \in 1..Len(ms) : (ms[m].op = "mint") <=> (ms[m].asset = l)
    BY <1>4, <1>6, <1>7, <2>3
  <2>5. QED
    BY <1>2, <2>3, <2>4 DEF MintsAtLast
<1> HIDE DEF ms
<1>9. \A a : BooksBefore(a)' = Books(a) /\ HadBefore(a)' = Has(a)
  BY <1>2, BeginsWith
<1>10. ASSUME NEW a \in Assets
       PROVE  /\ Books(a) \in Nat
              /\ Books(a)' = Books(a) + (IF x = a THEN assets[1].amount ELSE 0)
                                      + (IF y = a THEN assets[2].amount ELSE 0)
  <2>1. \A j \in {1, 2} : pair_balances[k][j].amount \in Nat
    <3>1. pair_balances[k] \in Asset \X Asset
      BY <1>1 DEF DepositBooked, IsBook
    <3>2. pair_balances[k][1] \in Asset /\ pair_balances[k][2] \in Asset
      BY <3>1
    <3>3. QED
      BY <3>2, PinaColadaAssumption DEF Asset, Uint128
  <2>2. /\ Gain(pair_balances, pair_balances', k, 1, a) = IF x = a THEN assets[1].amount ELSE 0
        /\ Gain(pair_balances, pair_balances', k, 2, a) = IF y = a THEN assets[2].amount ELSE 0
    BY <1>1, <1>6a, <2>1 DEF Gain, DepositBooked
  <2>3. QED
    BY <1>1, <2>2, BookChange, BooksNext, NumbersOf DEF DepositBooked, Books
<1>11. assets[1].amount \in Nat /\ assets[2].amount \in Nat /\ x \in Assets /\ y \in Assets
  <2>1. assets[1] \in Asset /\ assets[2] \in Asset
    BY <1>1 DEF DepositBooked
  <2>2. QED
    BY <1>6a, <2>1, PinaColadaAssumption DEF Asset, Uint128
<1>12. BooksOneOrTwo(l)'
  <2> DEFINE S == {c \in Assets : Books(c)' # BooksBefore(c)'}
  <2>1. S \subseteq {x, y}
    BY <1>9, <1>10
  <2>2. S # {}
    <3>1. Books(x)' = Books(x) + assets[1].amount /\ Books(y)' = Books(y) + assets[2].amount
          /\ Books(x) \in Nat /\ Books(y) \in Nat
      BY <1>7, <1>10, <1>11
    <3>2. assets[1].amount # 0 \/ assets[2].amount # 0
      BY <1>2a, <1>11
    <3>3. x \in S \/ y \in S
      BY <1>9, <1>11, <3>1, <3>2
    <3>4. QED
      BY <3>3
  <2>3. \E a, b \in Assets : S = {a, b}
    <3>1. S = {x, y} \/ S = {x, x} \/ S = {y, y}
      BY <2>1, <2>2
    <3> HIDE DEF S
    <3>2. QED
      BY <1>11, <3>1
  <2>4. l \in Assets /\ l # x /\ l # y
    BY <1>4, <1>6, <1>7 DEF Assets
  <2>5. Books(l)' = BooksBefore(l)'
    BY <1>9, <1>10, <2>4
  <2>6. \A a \in Assets : Books(a)' >= BooksBefore(a)'
    BY <1>9, <1>10, <1>11
  <2>7. QED
    BY <2>3, <2>5, <2>6 DEF BooksOneOrTwo
<1>13. TakesOthers(l)'
  <2>1. \A a \in Assets : Has(a)' + In(a)' - Has(a) = Books(a)' - Books(a)
    BY DepositArrives, BooksNext DEF Has, Books
  <2>2. QED
    BY <1>9, <2>1 DEF TakesOthers
<1>14. MintsSoFar(l)'
  <2>1. Has(l)' = Has(l) /\ Has(l) \in Nat
    <3>1. l \in Assets /\ u # PoolManager /\ PoolManager \in Accounts
      BY PinaColadaAssumption DEF Assets, Accounts
    <3>2. NativePart(sent, l) = 0
      BY PinaColadaAssumption DEF NativePart
    <3>3. Has(l) \in Nat
      BY <3>1, NumbersOf
    <3>4. bal'[PoolManager][l] = bal[PoolManager][l] + NativePart(sent, l)
      BY <1>2, <3>1 DEF FundsSent
    <3>5. QED
      BY <3>2, <3>3, <3>4, BooksNext DEF Has
  <2>2. saved'.supply = supply /\ supply[l] \in Nat
    BY <1>2, BeginsWith, TypeOKIff, PinaColadaAssumption DEF Inv2, Inv1, StorageTypes, Uint128
  <2>3. ~(next' = Len(msgs'))
    BY <1>2, <1>8 DEF MintsAtLast
  <2>4. QED
    BY <1>2, <1>9, <2>1, <2>2, <2>3 DEF MintsSoFar
<1>15. QED
  BY <1>8, <1>12, <1>13, <1>14 DEF DepositSoFar

(* What a mint does here. *)
LEMMA MintEffect ==
  ASSUME Inv2, DispatchMint, NEW l \in LpTokens, Current.asset = l
  PROVE  /\ Current.amount \in Nat /\ Current.amount > 0
         /\ supply'[l] = supply[l] + Current.amount
         /\ \A m \in LpTokens \ {l} : supply'[m] = supply[m]
         /\ Has(l)' = Has(l) + (IF Current.to = PoolManager THEN Current.amount ELSE 0)
<1>1. /\ next < Len(msgs) /\ Current.amount > 0 /\ Current.op = "mint"
      /\ supply' = [supply EXCEPT ![Current.asset] = @ + Current.amount]
      /\ bal' = Credit(bal, Current.to, Current.asset, Current.amount)
  BY DEF DispatchMint, Dispatching
<1>2. Current \in Messages
  BY <1>1, CurrentType DEF Inv2
<1>3. bal \in Holdings /\ supply \in [LpTokens -> Uint128]
  BY TypeOKIff DEF Inv2, Inv1, StorageTypes
<1> DEFINE m == Current
<1> HIDE DEF m
<1>4. m.amount \in Nat /\ m.to \in Accounts /\ PoolManager \in Accounts /\ l \in Assets
  BY <1>1, <1>2, PinaColadaAssumption DEF m, Messages, Accounts, Uint128, Assets
<1>5. Credit(bal, m.to, l, m.amount)[PoolManager][l]
        = bal[PoolManager][l] + (IF m.to = PoolManager THEN m.amount ELSE 0)
  <2>1. bal[PoolManager][l] \in Nat
    BY <1>3, <1>4 DEF Holdings
  <2>2. QED
    BY <1>3, <1>4, <2>1 DEF Credit, Holdings
<1>6. QED
  BY <1>1, <1>3, <1>4, <1>5, BooksNext DEF m, Has

LEMMA DepositSoFarGoesOn ==
  ASSUME Inv2, DepositSoFar, kind = "provide", Dispatch
  PROVE  DepositSoFar'
<1>1. PICK l \in LpTokens :
        MintsAtLast(l) /\ BooksOneOrTwo(l) /\ TakesOthers(l) /\ MintsSoFar(l)
  BY DEF DepositSoFar
<1>2. /\ saved' = saved /\ ~Idle /\ next < Len(msgs) /\ next' = next + 1
      /\ UNCHANGED <<pair_balances, msgs>>
  BY GoesOn
<1>3. /\ DispatchTransfer \/ DispatchMint
      /\ Current.op \in {"transfer_from", "mint"}
      /\ Current \in Messages
  BY <1>2, DispatchIs, CurrentType DEF Inv2
<1>4. next \in Nat /\ Len(msgs) \in Nat /\ next + 1 \in 1..Len(msgs)
  BY <1>2, TypeOKIff DEF Inv2, Inv1, TxnTypes
<1>5. (Current.op = "mint") <=> (Current.asset = l)
  BY <1>1, <1>4 DEF MintsAtLast, Current
<1>6. \A a : Books(a)' = Books(a) /\ BooksBefore(a)' = BooksBefore(a)
             /\ HadBefore(a)' = HadBefore(a)
  BY <1>2, BooksNext DEF Books, BooksBefore, HadBefore
<1>7. MintsAtLast(l)' /\ BooksOneOrTwo(l)'
  BY <1>1, <1>2, <1>6 DEF MintsAtLast, BooksOneOrTwo
<1>8. TakesOthers(l)'
  <2> SUFFICES ASSUME NEW a \in Assets \ {l}
               PROVE  Has(a)' + In(a)' - HadBefore(a)' = Books(a)' - BooksBefore(a)'
    BY DEF TakesOthers
  <2> DEFINE x == Has(a)'
             y == In(a)'
  <2>1. x + y = Has(a) + In(a) /\ x \in Nat /\ y \in Nat
    BY <1>3, <1>5, DepositMoves, BooksNext DEF Has
  <2>2. Has(a) + In(a) - HadBefore(a) = Books(a) - BooksBefore(a)
    BY <1>1 DEF TakesOthers
  <2>3. Has(a) \in Nat /\ In(a) \in Nat /\ HadBefore(a) \in Nat
    BY <1>2, NumbersOf, PartTypes DEF Inv2, Parts
  <2> HIDE DEF x, y
  <2>4. x + y - HadBefore(a) = Books(a) - BooksBefore(a)
    BY <2>1, <2>2, <2>3
  <2>5. QED
    BY <1>6, <2>4 DEF x, y
<1>9. /\ l \in Assets /\ Has(l) \in Nat /\ HadBefore(l) \in Nat
      /\ supply[l] \in Nat /\ saved.supply[l] \in Nat
  <2>1. l \in Assets
    BY DEF Assets
  <2>2. supply \in [LpTokens -> Uint128] /\ saved.supply \in [LpTokens -> Uint128]
    BY <1>2, TypeOKIff DEF Inv2, Inv1, StorageTypes, StorageType
  <2>3. QED
    BY <1>2, <2>1, <2>2, NumbersOf, PinaColadaAssumption DEF Uint128
<1>10. CASE Current.op = "transfer_from"
  <2> DEFINE m == Current
  <2>1. /\ m.amount <= bal[m.from][m.asset] /\ supply' = supply
        /\ bal' = Move(bal, m.from, m.to, m.asset, m.amount)
    BY <1>3, <1>10 DEF DispatchTransfer, DispatchMint, Dispatching
  <2>2. /\ m.from \in Accounts /\ m.to \in Accounts /\ m.asset \in Assets /\ m.amount \in Nat
        /\ PoolManager \in Accounts /\ bal \in Holdings /\ m.asset # l
    BY <1>3, <1>5, <1>10, PinaColadaAssumption, TypeOKIff
       DEF Messages, Accounts, Uint128, Inv2, Inv1, StorageTypes
  <2> HIDE DEF m
  <2>3. Has(l)' = Has(l)
    <3>1. Move(bal, m.from, m.to, m.asset, m.amount)[PoolManager][l]
            = bal[PoolManager][l]
              - (IF PoolManager = m.from /\ l = m.asset THEN m.amount ELSE 0)
              + (IF PoolManager = m.to /\ l = m.asset THEN m.amount ELSE 0)
      BY <1>9, <2>1, <2>2, MoveEffect
    <3>2. QED
      BY <1>9, <2>1, <2>2, <3>1, BooksNext DEF Has
  <2>4. ~(next' = Len(msgs'))
    BY <1>1, <1>2, <1>10 DEF MintsAtLast, Current
  <2>5. MintsSoFar(l)'
    BY <1>1, <1>2, <1>6, <2>1, <2>3, <2>4 DEF MintsSoFar
  <2>6. QED
    BY <1>7, <1>8, <2>5 DEF DepositSoFar
<1>11. CASE Current.op = "mint"
  <2> DEFINE n == Current.amount
             here == IF Current.to = PoolManager THEN n ELSE 0
             h == Has(l)'
             s == supply'[l]
  <2>1. DispatchMint /\ Current.asset = l
    BY <1>3, <1>5, <1>11 DEF DispatchTransfer, Dispatching
  <2>2. /\ n \in Nat /\ n > 0
        /\ s = supply[l] + n
        /\ \A m \in LpTokens \ {l} : supply'[m] = supply[m]
        /\ h = Has(l) + here /\ here \in 0..n
    BY <2>1, MintEffect
  <2>3. supply[l] = 0 => here = MINIMUM_LIQUIDITY_AMOUNT
    <3> SUFFICES ASSUME supply[l] = 0 PROVE here = MINIMUM_LIQUIDITY_AMOUNT
      OBVIOUS
    <3>1. PICK j \in 1..(next + 1) : j > next /\ Locks(msgs[j], l)
      <4>1. next + 1 > next /\ msgs[next + 1].op = "mint" /\ msgs[next + 1].asset = l
        BY <1>4, <1>11, <2>1 DEF Current
      <4>2. QED
        BY <1>4, <4>1 DEF Inv2, LockFirst
    <3>2. j = next + 1
      BY <1>4, <3>1
    <3>3. QED
      BY <3>1, <3>2 DEF Locks, Current
  <2>4. /\ Has(l) - HadBefore(l) \in 0..(supply[l] - saved.supply[l])
        /\ saved.supply[l] = 0 /\ supply[l] > 0 =>
             Has(l) - HadBefore(l) >= MINIMUM_LIQUIDITY_AMOUNT
    BY <1>1 DEF MintsSoFar
  <2> HIDE DEF n, here, h, s
  <2>5. /\ h - HadBefore(l) \in 0..(s - saved.supply[l])
        /\ s > saved.supply[l]
        /\ saved.supply[l] = 0 => h - HadBefore(l) >= MINIMUM_LIQUIDITY_AMOUNT
    <3>1. MINIMUM_LIQUIDITY_AMOUNT \in Nat
      BY PinaColadaAssumption
    <3>2. h - HadBefore(l) \in 0..(s - saved.supply[l]) /\ s > saved.supply[l]
      BY <1>9, <2>2, <2>4
    <3>3. ASSUME saved.supply[l] = 0 PROVE h - HadBefore(l) >= MINIMUM_LIQUIDITY_AMOUNT
      <4>1. CASE supply[l] = 0
        BY <1>9, <2>2, <2>3, <2>4, <3>1, <4>1
      <4>2. CASE supply[l] > 0
        BY <1>9, <2>2, <2>4, <3>1, <3>3, <4>2
      <4>3. QED
        BY <1>9, <4>1, <4>2
    <3>4. QED
      BY <3>2, <3>3
  <2>6. MintsSoFar(l)'
    BY <1>1, <1>2, <1>6, <2>2, <2>5 DEF MintsSoFar, h, s
  <2>7. QED
    BY <1>7, <1>8, <2>6 DEF DepositSoFar
<1>12. QED
  BY <1>3, <1>10, <1>11

LEMMA NextDeposit == Inv2 /\ OwnTokens /\ DepositSoFar /\ [Next]_vars => DepositSoFar'
<1> SUFFICES ASSUME Inv2, OwnTokens, DepositSoFar, [Next]_vars PROVE DepositSoFar'
  OBVIOUS
<1>1. CASE kind' # "provide"
  BY <1>1 DEF DepositSoFar
<1>2. CASE DepositCall
  BY <1>2, NextInv2, DepositSoFarStarts DEF DepositCall
<1>3. CASE Dispatch /\ kind = "provide"
  BY <1>3, DepositSoFarGoesOn
<1>4. CASE UNCHANGED vars
  <2>1. UNCHANGED <<pair_balances, bal, supply, kind, msgs, next, saved>>
    BY <1>4 DEF vars, storage, tokens, txn
  <2>2. \A a : /\ Books(a)' = Books(a) /\ BooksBefore(a)' = BooksBefore(a)
               /\ Has(a)' = Has(a) /\ HadBefore(a)' = HadBefore(a) /\ In(a)' = In(a)
    BY <2>1, BooksNext, PendingIs DEF Books, BooksBefore, Has, HadBefore, In
  <2>3. \A l : /\ MintsAtLast(l) => MintsAtLast(l)'
               /\ BooksOneOrTwo(l) => BooksOneOrTwo(l)'
               /\ TakesOthers(l) => TakesOthers(l)'
               /\ MintsSoFar(l) => MintsSoFar(l)'
    BY <2>1, <2>2 DEF MintsAtLast, BooksOneOrTwo, TakesOthers, MintsSoFar
  <2>4. QED
    BY <2>1, <2>3 DEF DepositSoFar
<1>5. QED
  BY <1>1, <1>2, <1>3, <1>4, StepOf
-----------------------------------------------------------------------------
(* A swap. *)

(* n of the first asset have been booked, and what the last hop returned   *)
(* is out of all books.                                                    *)
BooksMidway(n) ==
  /\ hop = 0 => amount = n
  /\ \A a \in Assets :
       Books(a) + InFlight(a)
         = BooksBefore(a) + (IF hop > 0 /\ a = path[1].offer_asset_info THEN n ELSE 0)

PaysOut == Paid(path[Len(path)].ask_asset_info)
Keeps(given, n) == \A a \in Assets : Has(a) = HadBefore(a) + (IF a = given THEN n ELSE 0)
Exchanges(given, n) ==
  \A a \in Assets : Has(a) = HadBefore(a) + (IF a = given THEN n ELSE 0)
                                          - (IF a = PaysOut THEN amount ELSE 0)

SwapSoFar ==
  kind = "swap" =>
    /\ supply = saved.supply
    /\ \E given \in Assets, n \in 1..MaxUint :
         BooksMidway(n) /\ (Keeps(given, n) \/ (next > 0 /\ Exchanges(given, n)))
    /\ hop = Len(path) => msgs = <<Message("transfer", PaysOut, PoolManager, recipient, amount)>>
    /\ next > 0 => amount > 0

LEMMA SwapSoFarStarts ==
  ASSUME Inv2, SwapArrives
  PROVE  SwapSoFar'
<1>1. PICK u \in Users, given \in Assets, ops \in Paths, n \in Amounts, to \in Receivers :
        /\ StartSwap(ops, n, to)
        /\ n > 0 /\ n <= bal[u][given] /\ bal' = Move(bal, u, PoolManager, given, n)
  BY DEF SwapArrives
<1>2. /\ saved' = Snapshot /\ hop' = 0 /\ amount' = n /\ path' = ops /\ next' = 0
      /\ UNCHANGED <<pair_balances, supply>> /\ ValidOperations(ops)
  BY <1>1 DEF StartSwap, Begin, storage
<1>3. n \in Nat /\ n \in 1..MaxUint
  BY <1>1, PinaColadaAssumption DEF Uint128
<1>4. \A a : BooksBefore(a)' = Books(a) /\ HadBefore(a)' = Has(a) /\ Books(a)' = Books(a)
  BY <1>2, BeginsWith, BooksNext DEF Books
<1>5. \A a \in Assets : Has(a)' = Has(a) + (IF a = given THEN n ELSE 0)
  BY <1>1, <1>3, PaidIn, BooksNext DEF Has, Inv2
<1>6. \A a : InFlight(a)' = 0
  BY <1>2 DEF InFlight
<1>7. BooksMidway(n)'
  BY <1>2, <1>4, <1>6, NumbersOf DEF BooksMidway
<1>8. Keeps(given, n)'
  BY <1>4, <1>5 DEF Keeps
<1>9. supply' = saved'.supply
  BY <1>2, BeginsWith
<1>10. ~(hop' = Len(path')) /\ ~(next' > 0)
  BY <1>2 DEF ValidOperations
<1>11. QED
  BY <1>3, <1>7, <1>8, <1>9, <1>10 DEF SwapSoFar

LEMMA SwapSoFarHops ==
  ASSUME Inv2, SwapSoFar, NEW returned \in CurveOutputs, SwapHop(returned)
  PROVE  SwapSoFar'
<1> DEFINE op == path[hop + 1]
           o == op.offer_asset_info
           s == op.ask_asset_info
           k == PairKey(o, s)
           i == FindAssetIndex(k, o)
<1>1. StorageTypes /\ TxnTypes
  BY TypeOKIff DEF Inv1, Inv2
<1>2. /\ InSwapLoop /\ Loadable(k) /\ hop' = hop + 1 /\ amount' = returned
      /\ pair_balances[k][i].amount + amount <= MaxUint
      /\ returned <= pair_balances[k][Other(i)].amount
      /\ pair_balances' = AfterSwap(pair_balances, k, i, amount, returned)
      /\ hop + 1 = Len(path) =>
           msgs' = <<Message("transfer", Paid(s), PoolManager, recipient, returned)>>
      /\ UNCHANGED <<kind, path, saved, next, recipient, supply, bal>>
  BY DEF SwapHop, tokens
<1>3. /\ kind = "swap" /\ hop \in Nat /\ Len(path) \in Nat /\ hop + 1 \in 1..Len(path)
      /\ next = 0
  <2>1. msgs = <<>>
    BY <1>2 DEF Inv2, Inv1
  <2>2. QED
    BY <1>1, <1>2, <2>1 DEF InSwapLoop, TxnTypes
<1>4. ValidOperations(path) /\ o # s
  BY <1>3 DEF Inv2, PathOK, ValidOperations
<1>5. k \in DOMAIN pair_balances /\ k \in PairKeys /\ IsBook(pair_balances)
  BY <1>1, <1>2 DEF Loadable, StorageTypes
<1>6. amount \in Nat /\ returned \in Nat
  BY <1>1, PinaColadaAssumption DEF TxnTypes, Uint128
<1>7. i \in {1, 2} /\ pair_balances[k][i].info = o /\ pair_balances[k][Other(i)].info = s
  <2> HIDE DEF op
  <2>1. QED
    BY <1>4, <1>5, HopSides DEF Inv2
<1>8. \A a : InFlight(a)' = IF a = s THEN returned ELSE 0
  BY <1>2, <1>3 DEF InFlight
<1>9. PICK given \in Assets, n \in 1..MaxUint : BooksMidway(n) /\ Keeps(given, n)
  BY <1>3 DEF SwapSoFar
<1>10. n \in Nat
  OBVIOUS
(* What the hop books in is what was in flight, or what came with the call. *)
<1>11. \A a : InFlight(a) + (IF a = path[1].offer_asset_info THEN n ELSE 0)
                = (IF a = o THEN amount ELSE 0)
                  + (IF hop > 0 /\ a = path[1].offer_asset_info THEN n ELSE 0)
  <2>1. CASE hop = 0
    BY <1>6, <1>9, <1>10, <2>1 DEF InFlight, BooksMidway
  <2>2. CASE hop > 0
    <3> DEFINE j == hop + 1
    <3>1. j \in 2..Len(path) /\ j - 1 = hop
      BY <1>3, <2>2
    <3> HIDE DEF j
    <3>2. path[j].offer_asset_info = path[j - 1].ask_asset_info
      BY <1>4, <3>1 DEF ValidOperations
    <3>3. path[hop].ask_asset_info = o
      BY <3>1, <3>2 DEF j
    <3>4. QED
      BY <2>2, <3>3 DEF InFlight
  <2>3. QED
    BY <1>3, <2>1, <2>2
<1> HIDE DEF op, o, s, k, i
<1>12. ASSUME NEW a \in Assets
       PROVE  Books(a)' + InFlight(a)'
                = BooksBefore(a) + (IF a = path[1].offer_asset_info THEN n ELSE 0)
  <2> DEFINE f == InFlight(a)'
             b == Books(a)'
  <2>1. b = Books(a) + (IF a = o THEN amount ELSE 0) - (IF a = s THEN returned ELSE 0)
    BY <1>2, <1>4, <1>5, <1>6, <1>7, HopBook, BooksNext, SMTT(30) DEF Books
  <2>2. Books(a) + InFlight(a)
          = BooksBefore(a) + (IF hop > 0 /\ a = path[1].offer_asset_info THEN n ELSE 0)
    BY <1>9 DEF BooksMidway
  <2>3. Books(a) \in Nat /\ BooksBefore(a) \in Nat /\ InFlight(a) \in Nat
    BY <1>3, <1>6, NumbersOf DEF InFlight, Idle
  <2>4. f = IF a = s THEN returned ELSE 0
    BY <1>8
  <2>5. InFlight(a) + (IF a = path[1].offer_asset_info THEN n ELSE 0)
          = (IF a = o THEN amount ELSE 0)
            + (IF hop > 0 /\ a = path[1].offer_asset_info THEN n ELSE 0)
    BY <1>11
  <2> HIDE DEF f, b
  <2>6. b + f = BooksBefore(a) + (IF a = path[1].offer_asset_info THEN n ELSE 0)
    BY <1>6, <1>10, <2>1, <2>2, <2>3, <2>4, <2>5
  <2>7. QED
    BY <2>6 DEF f, b
<1>13. \A a : /\ BooksBefore(a)' = BooksBefore(a) /\ HadBefore(a)' = HadBefore(a)
              /\ Has(a)' = Has(a)
  BY <1>2, BooksNext DEF BooksBefore, HadBefore, Has
<1>14. BooksMidway(n)'
  BY <1>2, <1>3, <1>12, <1>13 DEF BooksMidway
<1>15. Keeps(given, n)'
  BY <1>9, <1>13 DEF Keeps
<1>16. supply' = saved'.supply
  BY <1>2, <1>3 DEF SwapSoFar
<1>17. hop' = Len(path') =>
         msgs' = <<Message("transfer", PaysOut', PoolManager, recipient', amount')>>
  BY <1>2 DEF PaysOut, op, s
<1>18. ~(next' > 0)
  BY <1>2, <1>3
<1>19. QED
  BY <1>14, <1>15, <1>16, <1>17, <1>18 DEF SwapSoFar

LEMMA SwapSoFarPays ==
  ASSUME Inv2, SwapSoFar, kind = "swap", Dispatch
  PROVE  SwapSoFar'
<1>1. /\ ~Idle /\ next < Len(msgs) /\ next' = next + 1
      /\ UNCHANGED <<kind, pair_balances, path, hop, amount, recipient, msgs, saved>>
  BY GoesOn
<1>2. StorageTypes /\ TxnTypes
  BY TypeOKIff DEF Inv1, Inv2
<1>3. hop = Len(path)
  <2>1. msgs # <<>>
    BY <1>1, <1>2 DEF TxnTypes
  <2>2. ~InSwapLoop
    BY <2>1 DEF Inv2, Inv1
  <2>3. QED
    BY <1>2, <2>2 DEF InSwapLoop, TxnTypes
<1> DEFINE m == Message("transfer", PaysOut, PoolManager, recipient, amount)
<1>4. m.asset = PaysOut /\ m.from = PoolManager /\ m.to = recipient /\ m.amount = amount
  BY DEF Message
<1>5. msgs = <<m>>
  BY <1>3 DEF SwapSoFar
<1> HIDE DEF m
<1>6. next = 0 /\ Current = m
  BY <1>1, <1>2, <1>5 DEF TxnTypes, Current
<1>7. /\ amount > 0 /\ amount <= bal[PoolManager][PaysOut] /\ supply' = supply
      /\ bal' = Move(bal, PoolManager, recipient, PaysOut, amount)
  BY <1>4, <1>6, DispatchIs DEF DispatchTransfer
<1>8. PICK given \in Assets, n \in 1..MaxUint : BooksMidway(n) /\ Keeps(given, n)
  BY <1>6 DEF SwapSoFar
<1>9. /\ amount \in Nat /\ recipient \in Accounts /\ PoolManager \in Accounts /\ bal \in Holdings
      /\ n \in Nat
  BY <1>2, PinaColadaAssumption DEF TxnTypes, StorageTypes, Accounts, Uint128
<1>10. PaysOut \in Assets
  <2>1. Current \in Messages /\ Current.op = "transfer"
    BY <1>1, CurrentType, DispatchIs DEF Inv2
  <2>2. Current.asset \in Assets
    BY <2>1 DEF Messages
  <2>3. QED
    BY <1>4, <1>6, <2>2
<1>11. \A a : /\ BooksBefore(a)' = BooksBefore(a) /\ HadBefore(a)' = HadBefore(a)
              /\ Books(a)' = Books(a) /\ InFlight(a)' = InFlight(a)
  BY <1>1, BooksNext DEF BooksBefore, HadBefore, Books, InFlight
<1>12. \A a \in Assets :
         Has(a)' = Has(a) - (IF a = PaysOut THEN amount ELSE 0)
                          + (IF PoolManager = recipient /\ a = PaysOut THEN amount ELSE 0)
  <2>1. \A a \in Assets :
          Move(bal, PoolManager, recipient, PaysOut, amount)[PoolManager][a]
            = bal[PoolManager][a]
              - (IF PoolManager = PoolManager /\ a = PaysOut THEN amount ELSE 0)
              + (IF PoolManager = recipient /\ a = PaysOut THEN amount ELSE 0)
    BY <1>7, <1>9, <1>10, MoveEffect
  <2>2. QED
    BY <1>7, <2>1, BooksNext DEF Has
<1>13. PaysOut' = PaysOut
  BY <1>1 DEF PaysOut
<1>14. BooksMidway(n)'
  BY <1>1, <1>8, <1>11 DEF BooksMidway
<1>15. Keeps(given, n)' \/ Exchanges(given, n)'
  <2>1. \A a \in Assets : Has(a) = HadBefore(a) + (IF a = given THEN n ELSE 0)
    BY <1>8 DEF Keeps
  <2>2. \A a \in Assets : Has(a) \in Nat /\ HadBefore(a) \in Nat
    BY <1>1, NumbersOf
  <2>3. ASSUME recipient = PoolManager, NEW a \in Assets
        PROVE  Has(a)' = HadBefore(a) + (IF a = given THEN n ELSE 0)
    BY <1>9, <1>12, <2>1, <2>2, <2>3
  <2>4. ASSUME recipient # PoolManager, NEW a \in Assets
        PROVE  Has(a)' = HadBefore(a) + (IF a = given THEN n ELSE 0)
                                      - (IF a = PaysOut THEN amount ELSE 0)
    BY <1>9, <1>12, <2>1, <2>2, <2>4
  <2>5. CASE recipient = PoolManager
    BY <1>11, <2>3, <2>5 DEF Keeps
  <2>6. CASE recipient # PoolManager
    BY <1>1, <1>11, <1>13, <2>4, <2>6 DEF Exchanges
  <2>7. QED
    BY <2>5, <2>6
<1>16. next' > 0 /\ amount' > 0 /\ supply' = saved'.supply
  BY <1>1, <1>6, <1>7 DEF SwapSoFar
<1>17. msgs' = <<Message("transfer", PaysOut', PoolManager, recipient', amount')>>
  BY <1>1, <1>5, <1>13 DEF m
<1>18. QED
  BY <1>14, <1>15, <1>16, <1>17 DEF SwapSoFar

LEMMA NextSwap == Inv2 /\ SwapSoFar /\ [Next]_vars => SwapSoFar'
<1> SUFFICES ASSUME Inv2, SwapSoFar, [Next]_vars PROVE SwapSoFar'
  OBVIOUS
<1>1. CASE kind' # "swap"
  BY <1>1 DEF SwapSoFar
<1>2. CASE SwapArrives
  BY <1>2, SwapSoFarStarts
<1>3. CASE \E returned \in CurveOutputs : SwapHop(returned)
  BY <1>3, SwapSoFarHops
<1>4. CASE Dispatch /\ kind = "swap"
  BY <1>4, SwapSoFarPays
<1>5. CASE UNCHANGED vars
  <2>1. UNCHANGED <<pair_balances, bal, supply, kind, path, hop, amount, recipient, msgs, next, saved>>
    BY <1>5 DEF vars, storage, tokens, txn
  <2>2. \A a : /\ Books(a)' = Books(a) /\ BooksBefore(a)' = BooksBefore(a)
               /\ Has(a)' = Has(a) /\ HadBefore(a)' = HadBefore(a) /\ InFlight(a)' = InFlight(a)
    BY <2>1, BooksNext DEF Books, BooksBefore, Has, HadBefore, InFlight
  <2>3. PaysOut' = PaysOut
    BY <2>1 DEF PaysOut
  <2>4. \A n : BooksMidway(n) => BooksMidway(n)'
    BY <2>1, <2>2 DEF BooksMidway
  <2>5. \A given, n : /\ Keeps(given, n) => Keeps(given, n)'
                      /\ Exchanges(given, n) => Exchanges(given, n)'
    BY <2>1, <2>2, <2>3 DEF Keeps, Exchanges
  <2>6. QED
    BY <2>1, <2>3, <2>4, <2>5 DEF SwapSoFar
<1>6. QED
  BY <1>1, <1>2, <1>3, <1>4, <1>5, StepOf
-----------------------------------------------------------------------------
(* A withdrawal. *)

(* A pool's reserve is part of the book of its asset. *)
LEMMA ReserveInBook ==
  ASSUME NEW pb, IsBook(pb), NEW k \in DOMAIN pb, k \in PairKeys, NEW i \in {1, 2}
  PROVE  pb[k][i].amount \in Nat /\ pb[k][i].amount <= Book(pb, pb[k][i].info)
<1> DEFINE a == pb[k][i].info
           f == SlotAmounts(pb, a)
           c == <<k, i>>
           g == [f EXCEPT ![c] = 0]
<1>1. pb[k][i] \in Asset
  <2>1. pb[k] \in Asset \X Asset
    BY DEF IsBook
  <2>2. QED
    BY <2>1
<1>2. pb[k][i].amount \in Nat
  BY <1>1, PinaColadaAssumption DEF Asset, Uint128
<1>3. f \in [Slots -> Nat] /\ Book(pb, a) = Total(f) /\ Book(pb, a) \in Nat
  BY BookType
<1>4. c \in Slots /\ c[1] = k /\ c[2] = i
  BY DEF Slots
<1>5. f[c] = pb[k][i].amount
  BY <1>4 DEF SlotAmounts
<1> HIDE DEF f, a
<1>6. g \in [Slots -> Nat] /\ g[c] = 0 /\ \A t \in Slots \ {c} : f[t] = g[t]
  BY <1>3, <1>4
<1> HIDE DEF g, c
<1>7. Total(g) = Total(f) - f[c] + g[c] /\ Total(g) \in Nat
  BY <1>3, <1>4, <1>6, SlotsFinite, TotalUpdate, TotalType
<1>8. QED
  BY <1>2, <1>3, <1>5, <1>6, <1>7 DEF a

(* n of the LP token t are taken in, to be burnt, and r1 of x and r2 of y  *)
(* are paid for them.                                                      *)
RefundMessages(t, n, x, y, r1, r2) ==
  <<Message("transfer", x, PoolManager, t, r1), Message("transfer", y, PoolManager, t, r2),
    Message("burn", t, PoolManager, PoolManager, n)>>

Refunds(t, n, x, y, r1, r2) ==
  /\ n \in 1..(saved.supply[t] - 1) /\ x # y /\ t # x /\ t # y
  /\ r1 * saved.supply[t] <= BooksBefore(x) * (n - 1)
  /\ r2 * saved.supply[t] <= BooksBefore(y) * (n - 1)
  /\ msgs = RefundMessages(t, n, x, y, r1, r2)

PaidSoFar(t, n, x, y, r1, r2) ==
  /\ \A a \in Assets :
       /\ Books(a) = BooksBefore(a) - (IF a = x \/ a = y THEN n ELSE 0)
       /\ Has(a) = HadBefore(a) + (IF a = t /\ next < 3 THEN n ELSE 0)
                                - (IF a = x /\ next >= 1 THEN r1 ELSE 0)
                                - (IF a = y /\ next >= 2 THEN r2 ELSE 0)
  /\ \A l \in LpTokens : supply[l] = saved.supply[l] - (IF l = t /\ next = 3 THEN n ELSE 0)
  /\ next >= 1 => r1 > 0
  /\ next >= 2 => r2 > 0

WithdrawSoFar ==
  kind = "withdraw" =>
    \E t \in LpTokens, n \in Nat, x \in Assets, y \in Assets, r1 \in Nat, r2 \in Nat :
      Refunds(t, n, x, y, r1, r2) /\ PaidSoFar(t, n, x, y, r1, r2)

LEMMA WithdrawStarts ==
  ASSUME Inv2, OwnTokens, NEW u \in Users, NEW t \in LpTokens, NEW k \in DOMAIN pools,
         NEW n \in Amounts, WithdrawLiquidity(u, t, k, n)
  PROVE  WithdrawSoFar'
<1> DEFINE pb == pair_balances[k]
           refund == [i \in 1..2 |-> ShareInAssets(pb[i].amount, n, supply[t])]
<1>1. Inv1 /\ StorageTypes
  BY TypeOKIff DEF Inv1, Inv2
<1>2. /\ Idle /\ saved' = Snapshot /\ next' = 0 /\ supply' = supply
      /\ msgs' = RefundMessages(t, n, pb[1].info, pb[2].info, refund[1], refund[2])
  BY DEF WithdrawLiquidity, Begin, RefundMessages
<1>3. /\ n > 0 /\ n <= bal[u][t] /\ n < supply[t] /\ t = pools[k].liquidity_token
      /\ \A i \in 1..2 : n <= pb[i].amount
      /\ bal' = Move(bal, u, PoolManager, t, n)
      /\ pair_balances' = DecreasePair(pair_balances, k, <<n, n>>)
  BY DEF WithdrawLiquidity
<1>4. k \in DOMAIN pair_balances /\ k \in PairKeys /\ IsBook(pair_balances)
  BY <1>1 DEF StorageTypes
<1>5. n \in Nat /\ t \in Assets /\ supply \in [LpTokens -> Uint128] /\ supply[t] \in Nat
  BY <1>1, PinaColadaAssumption DEF StorageTypes, Uint128, Assets
<1>6. PICK x \in Assets, y \in Assets, z1 \in Nat, z2 \in Nat :
        /\ x = pb[1].info /\ y = pb[2].info /\ z1 = pb[1].amount /\ z2 = pb[2].amount
  <2>1. pb \in Asset \X Asset
    BY <1>4 DEF IsBook
  <2>2. pb[1] \in Asset /\ pb[2] \in Asset
    BY <2>1
  <2>3. QED
    BY <2>2, PinaColadaAssumption DEF Asset, Uint128
<1>7. x # y /\ t # x /\ t # y
  <2>1. k = {x, y} /\ x # y
    BY <1>4, <1>6 DEF Inv2, PoolsOK
  <2>2. t \notin k
    BY <1>3 DEF OwnTokens, OwnApart
  <2>3. QED
    BY <2>1, <2>2
<1>8. z1 <= Books(x) /\ z2 <= Books(y)
  BY <1>4, <1>6, ReserveInBook DEF Books
<1>9. Books(x) \in Nat /\ Books(y) \in Nat
  BY NumbersOf
<1>10. PICK r1 \in Nat, r2 \in Nat :
         /\ r1 = refund[1] /\ r2 = refund[2]
         /\ r1 * supply[t] <= Books(x) * (n - 1) /\ r2 * supply[t] <= Books(y) * (n - 1)
  <2>1. refund[1] = ShareInAssets(z1, n, supply[t]) /\ refund[2] = ShareInAssets(z2, n, supply[t])
    BY <1>6
  <2>2. /\ ShareInAssets(z1, n, supply[t]) \in Nat
        /\ ShareInAssets(z1, n, supply[t]) * supply[t] <= Books(x) * (n - 1)
        /\ ShareInAssets(z2, n, supply[t]) \in Nat
        /\ ShareInAssets(z2, n, supply[t]) * supply[t] <= Books(y) * (n - 1)
    BY <1>3, <1>5, <1>8, <1>9, ShareScaled
  <2>3. QED
    BY <2>1, <2>2
<1> HIDE DEF refund
<1>11. \A a \in Assets : Books(a)' = Books(a) - (IF a = x \/ a = y THEN n ELSE 0)
  BY <1>3, <1>4, <1>5, <1>6, WithdrawBook, BooksNext DEF Inv2, Books
<1>12. \A a \in Assets : Has(a)' = Has(a) + (IF a = t THEN n ELSE 0)
  BY <1>1, <1>3, <1>5, PaidIn, BooksNext DEF Has
<1> HIDE DEF pb
<1>13. /\ \A a : BooksBefore(a)' = Books(a) /\ HadBefore(a)' = Has(a)
       /\ saved'.supply = supply
  BY <1>2, BeginsWith
<1>14. Refunds(t, n, x, y, r1, r2)'
  <2>1. RefundMessages(t, n, x, y, r1, r2)' = RefundMessages(t, n, x, y, r1, r2)
    BY DEF RefundMessages, Message
  <2>2. n \in 1..(supply[t] - 1)
    BY <1>3, <1>5
  <2>3. QED
    BY <1>2, <1>6, <1>7, <1>10, <1>13, <2>1, <2>2 DEF Refunds
<1>15. PaidSoFar(t, n, x, y, r1, r2)'
  <2>1. \A a \in Assets : Has(a) \in Nat
    BY NumbersOf
  <2>2. \A a \in Assets :
          Has(a)' = HadBefore(a)' + (IF a = t /\ next' < 3 THEN n ELSE 0)
                                  - (IF a = x /\ next' >= 1 THEN r1 ELSE 0)
                                  - (IF a = y /\ next' >= 2 THEN r2 ELSE 0)
    BY <1>2, <1>5, <1>12, <1>13, <2>1
  <2>3. \A l \in LpTokens : supply'[l] = saved'.supply[l] - (IF l = t /\ next' = 3 THEN n ELSE 0)
    <3>1. \A l \in LpTokens : supply[l] \in Nat
      BY <1>5, PinaColadaAssumption DEF Uint128
    <3>2. QED
      BY <1>2, <1>13, <3>1
  <2>4. ~(next' >= 1) /\ ~(next' >= 2)
    BY <1>2
  <2>5. QED
    BY <1>11, <1>13, <2>2, <2>3, <2>4 DEF PaidSoFar
<1>16. QED
  BY <1>5, <1>14, <1>15 DEF WithdrawSoFar

(* A message takes what it names from the account. *)
LEMMA PaymentEffect ==
  ASSUME Inv2, Dispatch, Current.from = PoolManager,
         \/ Current.op = "transfer" /\ Current.to # PoolManager
         \/ Current.op = "burn"
  PROVE  /\ Current.amount > 0
         /\ \A a \in Assets :
              Has(a)' = Has(a) - (IF a = Current.asset THEN Current.amount ELSE 0)
         /\ \A l \in LpTokens :
              supply'[l] = supply[l]
                - (IF l = Current.asset /\ Current.op = "burn" THEN Current.amount ELSE 0)
<1> DEFINE m == Current
<1>1. m \in Messages /\ bal \in Holdings /\ supply \in [LpTokens -> Uint128]
  BY GoesOn, CurrentType, TypeOKIff DEF Inv2, Inv1, StorageTypes
<1>2. \A l \in LpTokens : supply[l] \in Nat
  BY <1>1, PinaColadaAssumption DEF Uint128
<1>3. CASE m.op = "transfer"
  <2>1. /\ m.amount > 0 /\ m.amount <= bal[PoolManager][m.asset] /\ supply' = supply
        /\ bal' = Move(bal, PoolManager, m.to, m.asset, m.amount) /\ m.to # PoolManager
    BY <1>3 DEF Dispatch, DispatchTransfer, DispatchMint, DispatchBurn, Dispatching
  <2> HIDE DEF m
  <2>2. m.to \in Accounts /\ PoolManager \in Accounts /\ m.asset \in Assets /\ m.amount \in Nat
    BY <1>1, <1>3, PinaColadaAssumption DEF Messages, Accounts, Uint128
  <2>3. \A a \in Assets :
          Move(bal, PoolManager, m.to, m.asset, m.amount)[PoolManager][a]
            = bal[PoolManager][a]
              - (IF PoolManager = PoolManager /\ a = m.asset THEN m.amount ELSE 0)
              + (IF PoolManager = m.to /\ a = m.asset THEN m.amount ELSE 0)
    BY <1>1, <2>1, <2>2, MoveEffect
  <2>4. \A a \in Assets : bal[PoolManager][a] \in Nat
    BY <1>1, <2>2 DEF Holdings
  <2>5. \A a \in Assets : Has(a)' = Has(a) - (IF a = m.asset THEN m.amount ELSE 0)
    BY <2>1, <2>2, <2>3, <2>4, BooksNext DEF Has
  <2>6. QED
    BY <1>2, <1>3, <2>1, <2>5 DEF m
<1>4. CASE m.op = "burn"
  <2>1. /\ m.amount > 0 /\ m.amount <= bal[PoolManager][m.asset]
        /\ supply' = [supply EXCEPT ![m.asset] = @ - m.amount]
        /\ bal' = Debit(bal, PoolManager, m.asset, m.amount)
    BY <1>4 DEF Dispatch, DispatchTransfer, DispatchMint, DispatchBurn, Dispatching
  <2> HIDE DEF m
  <2>2. /\ PoolManager \in Accounts /\ m.asset \in LpTokens /\ m.asset \in Assets
        /\ m.amount \in Nat
    BY <1>1, <1>4, PinaColadaAssumption DEF Messages, Accounts, Uint128, Assets
  <2>3. \A a \in Assets : bal[PoolManager][a] \in Nat
    BY <1>1, <2>2 DEF Holdings
  <2>4. \A a \in Assets :
          Debit(bal, PoolManager, m.asset, m.amount)[PoolManager][a]
            = bal[PoolManager][a] - (IF a = m.asset THEN m.amount ELSE 0)
    BY <1>1, <2>2, <2>3 DEF Debit, Holdings
  <2>5. \A a \in Assets : Has(a)' = Has(a) - (IF a = m.asset THEN m.amount ELSE 0)
    BY <2>1, <2>4, BooksNext DEF Has
  <2>6. \A l \in LpTokens : supply'[l] = supply[l] - (IF l = m.asset THEN m.amount ELSE 0)
    BY <1>1, <1>2, <2>1, <2>2
  <2>7. QED
    BY <1>4, <2>1, <2>5, <2>6 DEF m
<1>5. QED
  BY <1>3, <1>4

LEMMA WithdrawGoesOn ==
  ASSUME Inv2, WithdrawSoFar, kind = "withdraw", Dispatch
  PROVE  WithdrawSoFar'
<1>1. PICK t \in LpTokens, n \in Nat, x \in Assets, y \in Assets, r1 \in Nat, r2 \in Nat :
        Refunds(t, n, x, y, r1, r2) /\ PaidSoFar(t, n, x, y, r1, r2)
  BY DEF WithdrawSoFar
<1>2. /\ ~Idle /\ next < Len(msgs) /\ next' = next + 1
      /\ UNCHANGED <<kind, pair_balances, msgs, saved>>
  BY GoesOn
<1> DEFINE m1 == Message("transfer", x, PoolManager, t, r1)
           m2 == Message("transfer", y, PoolManager, t, r2)
           m3 == Message("burn", t, PoolManager, PoolManager, n)
<1>3. /\ m1.op = "transfer" /\ m1.asset = x /\ m1.from = PoolManager /\ m1.to = t /\ m1.amount = r1
      /\ m2.op = "transfer" /\ m2.asset = y /\ m2.from = PoolManager /\ m2.to = t /\ m2.amount = r2
      /\ m3.op = "burn" /\ m3.asset = t /\ m3.from = PoolManager /\ m3.amount = n
  BY DEF Message
<1>4. msgs = <<m1, m2, m3>>
  BY <1>1 DEF Refunds, RefundMessages
<1> HIDE DEF m1, m2, m3
<1>5. /\ next \in {0, 1, 2}
      /\ next = 0 => Current = m1
      /\ next = 1 => Current = m2
      /\ next = 2 => Current = m3
  <2>1. next \in Nat /\ next < 3
    BY <1>2, <1>4, TypeOKIff DEF Inv2, Inv1, TxnTypes
  <2>2. msgs[1] = m1 /\ msgs[2] = m2 /\ msgs[3] = m3
    BY <1>4
  <2>3. QED
    BY <2>1, <2>2 DEF Current
<1>6. t # PoolManager /\ t \in Assets
  BY PinaColadaAssumption DEF Assets
<1>7. /\ Current.from = PoolManager
      /\ \/ Current.op = "transfer" /\ Current.to # PoolManager
         \/ Current.op = "burn"
  BY <1>3, <1>5, <1>6
<1>8. /\ Current.amount > 0
      /\ \A a \in Assets : Has(a)' = Has(a) - (IF a = Current.asset THEN Current.amount ELSE 0)
      /\ \A l \in LpTokens :
           supply'[l] = supply[l]
             - (IF l = Current.asset /\ Current.op = "burn" THEN Current.amount ELSE 0)
  BY <1>7, PaymentEffect
<1>9. \A a : /\ Books(a)' = Books(a) /\ BooksBefore(a)' = BooksBefore(a)
             /\ HadBefore(a)' = HadBefore(a)
  BY <1>2, BooksNext DEF Books, BooksBefore, HadBefore
<1>10. Refunds(t, n, x, y, r1, r2)'
  <2>1. RefundMessages(t, n, x, y, r1, r2)' = RefundMessages(t, n, x, y, r1, r2)
    BY DEF RefundMessages, Message
  <2>2. QED
    BY <1>1, <1>2, <1>9, <2>1 DEF Refunds
<1>11. x # y /\ t # x /\ t # y
  BY <1>1 DEF Refunds
<1>12. ASSUME NEW a \in Assets
       PROVE  Has(a)' = HadBefore(a) + (IF a = t /\ next' < 3 THEN n ELSE 0)
                                     - (IF a = x /\ next' >= 1 THEN r1 ELSE 0)
                                     - (IF a = y /\ next' >= 2 THEN r2 ELSE 0)
  <2> DEFINE h == Has(a)'
  <2>1. /\ next = 0 => h = Has(a) - (IF a = x THEN r1 ELSE 0)
        /\ next = 1 => h = Has(a) - (IF a = y THEN r2 ELSE 0)
        /\ next = 2 => h = Has(a) - (IF a = t THEN n ELSE 0)
    BY <1>3, <1>5, <1>8
  <2>2. Has(a) = HadBefore(a) + (IF a = t /\ next < 3 THEN n ELSE 0)
                              - (IF a = x /\ next >= 1 THEN r1 ELSE 0)
                              - (IF a = y /\ next >= 2 THEN r2 ELSE 0)
    BY <1>1 DEF PaidSoFar
  <2>3. Has(a) \in Nat /\ HadBefore(a) \in Nat
    BY <1>2, NumbersOf
  <2> HIDE DEF h
  <2>4. CASE next = 0
    BY <1>2, <2>1, <2>2, <2>3, <2>4 DEF h
  <2>5. CASE next = 1
    BY <1>2, <2>1, <2>2, <2>3, <2>5 DEF h
  <2>6. CASE next = 2
    BY <1>2, <2>1, <2>2, <2>3, <2>6 DEF h
  <2>7. QED
    BY <1>5, <2>4, <2>5, <2>6
<1>13. ASSUME NEW l \in LpTokens
       PROVE  supply'[l] = saved.supply[l] - (IF l = t /\ next' = 3 THEN n ELSE 0)
  <2>1. saved.supply[l] \in Nat
    <3>1. saved.supply \in [LpTokens -> Uint128]
      BY <1>2, TypeOKIff DEF Inv2, Inv1, StorageType
    <3>2. QED
      BY <3>1, PinaColadaAssumption DEF Uint128
  <2>2. supply[l] = saved.supply[l] /\ (next' = 3 <=> next = 2)
    BY <1>1, <1>2, <1>5, <2>1 DEF PaidSoFar
  <2>3. QED
    BY <1>3, <1>5, <1>8, <2>1, <2>2
<1>14. (next' >= 1 => r1 > 0) /\ (next' >= 2 => r2 > 0)
  BY <1>1, <1>2, <1>3, <1>5, <1>8 DEF PaidSoFar
<1>15. PaidSoFar(t, n, x, y, r1, r2)'
  BY <1>1, <1>2, <1>9, <1>12, <1>13, <1>14 DEF PaidSoFar
<1>16. QED
  BY <1>10, <1>15 DEF WithdrawSoFar

LEMMA NextWithdraw == Inv2 /\ OwnTokens /\ WithdrawSoFar /\ [Next]_vars => WithdrawSoFar'
<1> SUFFICES ASSUME Inv2, OwnTokens, WithdrawSoFar, [Next]_vars PROVE WithdrawSoFar'
  OBVIOUS
<1>1. CASE kind' # "withdraw"
  BY <1>1 DEF WithdrawSoFar
<1>2. CASE WithdrawCall
  BY <1>2, WithdrawStarts DEF WithdrawCall
<1>3. CASE Dispatch /\ kind = "withdraw"
  BY <1>3, WithdrawGoesOn
<1>4. CASE UNCHANGED vars
  <2>1. UNCHANGED <<pair_balances, bal, supply, kind, msgs, next, saved>>
    BY <1>4 DEF vars, storage, tokens, txn
  <2>2. \A a : /\ Books(a)' = Books(a) /\ BooksBefore(a)' = BooksBefore(a)
               /\ Has(a)' = Has(a) /\ HadBefore(a)' = HadBefore(a)
    BY <2>1, BooksNext DEF Books, BooksBefore, Has, HadBefore
  <2>3. ASSUME NEW t, NEW n, NEW x, NEW y, NEW r1, NEW r2
        PROVE  /\ Refunds(t, n, x, y, r1, r2) => Refunds(t, n, x, y, r1, r2)'
               /\ PaidSoFar(t, n, x, y, r1, r2) => PaidSoFar(t, n, x, y, r1, r2)'
    <3>1. RefundMessages(t, n, x, y, r1, r2)' = RefundMessages(t, n, x, y, r1, r2)
      BY DEF RefundMessages, Message
    <3>2. QED
      BY <2>1, <2>2, <3>1 DEF Refunds, PaidSoFar
  <2>4. QED
    BY <2>1, <2>3 DEF WithdrawSoFar
<1>5. QED
  BY <1>1, <1>2, <1>3, <1>4, StepOf
-----------------------------------------------------------------------------
(* What each transaction has done so far, together. *)
SoFar ==
  /\ Inv2 /\ OwnTokens
  /\ CreateSoFar /\ DepositSoFar /\ SwapSoFar /\ WithdrawSoFar

LEMMA SoFarHolds == Spec => []SoFar
<1>1. Init => OwnTokens /\ CreateSoFar /\ DepositSoFar /\ SwapSoFar /\ WithdrawSoFar
  BY DEF Init, OwnTokens, OwnApart, Idle, CreateSoFar, DepositSoFar, SwapSoFar, WithdrawSoFar
<1>2. Init => SoFar
  BY <1>1, InitInv2 DEF SoFar
<1>3. SoFar /\ [Next]_vars => SoFar'
  BY NextInv2, NextOwn, NextCreate, NextDeposit, NextSwap, NextWithdraw DEF SoFar
<1>4. QED
  BY <1>2, <1>3, PTL DEF Spec
-----------------------------------------------------------------------------
(* The ledger between transactions, and while one runs. *)
LEMMA LedgerIs ==
  /\ Idle => /\ LedgerBook = [a \in Assets |-> Books(a)]
             /\ LedgerHeld = bal[PoolManager] /\ LedgerSupply = supply
  /\ ~Idle => /\ LedgerBook = [a \in Assets |-> BooksBefore(a)]
              /\ LedgerHeld = saved.bal[PoolManager] /\ LedgerSupply = saved.supply
BY DEF LedgerBook, LedgerHeld, LedgerSupply, Settled, Snapshot, Books, BooksBefore

LEMMA LedgerNext ==
  /\ Idle' => /\ LedgerBook' = [a \in Assets |-> Book(pair_balances', a)]
              /\ LedgerHeld' = bal'[PoolManager] /\ LedgerSupply' = supply'
  /\ ~Idle' => /\ LedgerBook' = [a \in Assets |-> Book(saved'.pair_balances, a)]
               /\ LedgerHeld' = saved'.bal[PoolManager] /\ LedgerSupply' = saved'.supply
BY DEF LedgerBook, LedgerHeld, LedgerSupply, Settled, Snapshot, Book

(* A transaction that begins, goes on or is rolled back is not seen. *)
LEMMA Unseen ==
  ASSUME \/ Idle /\ ~Idle' /\ saved' = Snapshot
         \/ ~Idle /\ ~Idle' /\ saved' = saved
         \/ Revert
  PROVE  UNCHANGED Ledger!vars
<1>1. UNCHANGED <<LedgerBook, LedgerHeld, LedgerSupply>>
  <2>1. CASE Idle /\ ~Idle' /\ saved' = Snapshot
    BY <2>1, LedgerIs, LedgerNext DEF Snapshot, Books
  <2>2. CASE ~Idle /\ ~Idle' /\ saved' = saved
    BY <2>2, LedgerIs, LedgerNext DEF BooksBefore
  <2>3. CASE Revert
    <3>1. /\ ~Idle /\ Idle' /\ pair_balances' = saved.pair_balances
          /\ bal' = saved.bal /\ supply' = saved.supply
      BY <2>3, EndIs DEF Revert
    <3>2. QED
      BY <3>1, LedgerIs, LedgerNext DEF BooksBefore
  <2>4. QED
    BY <2>1, <2>2, <2>3
<1>2. QED
  BY <1>1 DEF Ledger!vars

LEMMA PlusIs ==
  ASSUME NEW S, NEW f \in [S -> Int], NEW g \in [S -> Int], NEW a \in S, NEW n \in Int,
         \A s \in S : g[s] = f[s] + (IF s = a THEN n ELSE 0)
  PROVE  g = Ledger!Plus(f, a, n)
<1> DEFINE h == [f EXCEPT ![a] = f[a] + n]
<1>1. h \in [S -> Int] /\ \A s \in S : h[s] = f[s] + (IF s = a THEN n ELSE 0)
  OBVIOUS
<1>2. h = Ledger!Plus(f, a, n)
  BY DEF Ledger!Plus
<1> HIDE DEF h
<1>3. QED
  BY <1>1, <1>2

(* g is f with n more of a and m more of b. *)
Differ(S, f, g, a, n, b, m) ==
  /\ f \in [S -> Int] /\ g \in [S -> Int]
  /\ a \in S /\ n \in Int /\ b \in S /\ m \in Int
  /\ \A s \in S : g[s] = f[s] + (IF s = a THEN n ELSE 0) + (IF s = b THEN m ELSE 0)

LEMMA PlusTwice ==
  ASSUME NEW S, NEW f, NEW g, NEW a, NEW n, NEW b, NEW m, Differ(S, f, g, a, n, b, m)
  PROVE  g = Ledger!Plus(Ledger!Plus(f, a, n), b, m)
<1> DEFINE h == [f EXCEPT ![a] = f[a] + n]
           e == [h EXCEPT ![b] = h[b] + m]
<1>1. h \in [S -> Int] /\ \A s \in S : h[s] = f[s] + (IF s = a THEN n ELSE 0)
  BY DEF Differ
<1>2. h = Ledger!Plus(f, a, n) /\ e = Ledger!Plus(h, b, m)
  BY DEF Ledger!Plus
<1> HIDE DEF h
<1>3. e \in [S -> Int] /\ \A s \in S : e[s] = h[s] + (IF s = b THEN m ELSE 0)
  BY <1>1 DEF Differ
<1> HIDE DEF e
<1>4. \A s \in S : e[s] = g[s]
  BY <1>1, <1>3 DEF Differ
<1>5. QED
  BY <1>2, <1>3, <1>4 DEF Differ
-----------------------------------------------------------------------------
(* A transaction that commits is one step of the ledger. *)

CommitShows ==
  /\ LedgerBook \in [Assets -> Nat] /\ LedgerBook' \in [Assets -> Nat]
  /\ LedgerHeld \in [Assets -> Nat] /\ LedgerHeld' \in [Assets -> Nat]
  /\ LedgerSupply \in [LpTokens -> Nat] /\ LedgerSupply' \in [LpTokens -> Nat]
  /\ \A a \in Assets : /\ LedgerBook[a] = BooksBefore(a) /\ LedgerBook'[a] = Books(a)
                       /\ LedgerHeld[a] = HadBefore(a) /\ LedgerHeld'[a] = Has(a)
  /\ LedgerSupply = saved.supply /\ LedgerSupply' = supply
  /\ LedgerHeld = saved.bal[PoolManager] /\ LedgerHeld' = bal[PoolManager]

LEMMA CommitIs ==
  ASSUME Inv2, Commit
  PROVE  CommitShows /\ next = Len(msgs) /\ ~InSwapLoop /\ ~Idle
<1>1. /\ ~Idle /\ Idle' /\ next = Len(msgs) /\ ~InSwapLoop
      /\ UNCHANGED <<pair_balances, bal, supply>>
  BY EndIs DEF Commit, storage, tokens
<1>2. PoolManager \in Accounts
  BY DEF Accounts
<1>3. bal[PoolManager] \in [Assets -> Nat] /\ supply \in [LpTokens -> Nat]
  <2>1. bal \in Holdings /\ supply \in [LpTokens -> Uint128]
    BY TypeOKIff DEF Inv2, Inv1, StorageTypes
  <2>2. QED
    BY <1>2, <2>1, PinaColadaAssumption DEF Holdings, Uint128
<1>4. saved.bal[PoolManager] \in [Assets -> Nat] /\ saved.supply \in [LpTokens -> Nat]
  <2>1. saved.bal \in Holdings /\ saved.supply \in [LpTokens -> Uint128]
    BY <1>1, TypeOKIff DEF Inv2, Inv1, StorageType, Holdings
  <2>2. QED
    BY <1>2, <2>1, PinaColadaAssumption DEF Holdings, Uint128
<1>5. /\ LedgerBook = [a \in Assets |-> BooksBefore(a)]
      /\ LedgerHeld = saved.bal[PoolManager] /\ LedgerSupply = saved.supply
  BY <1>1, LedgerIs
<1>6. /\ LedgerBook' = [a \in Assets |-> Books(a)]
      /\ LedgerHeld' = bal[PoolManager] /\ LedgerSupply' = supply
  BY <1>1, LedgerNext DEF Books
<1>7. \A a \in Assets : Books(a) \in Nat /\ BooksBefore(a) \in Nat
  BY <1>1, NumbersOf
<1>8. QED
  BY <1>1, <1>3, <1>4, <1>5, <1>6, <1>7 DEF CommitShows, Has, HadBefore

LEMMA CommitCreates ==
  ASSUME SoFar, Commit, kind = "create"
  PROVE  Ledger!CreatePool
<1>1. CommitShows
  BY CommitIs DEF SoFar
<1>2. bal = saved.bal /\ supply = saved.supply
  BY DEF SoFar, CreateSoFar
<1>3. PICK a \in Assets, b \in Assets :
        \A c \in Assets :
          IF c \in {a, b} THEN Books(c) <= BooksBefore(c) ELSE Books(c) = BooksBefore(c)
  BY DEF SoFar, CreateSoFar
<1>4. LedgerHeld' = LedgerHeld /\ LedgerSupply' = LedgerSupply
  BY <1>1, <1>2 DEF CommitShows
<1>5. \A c \in Assets :
        IF c \in {a, b} THEN LedgerBook'[c] <= LedgerBook[c] ELSE LedgerBook'[c] = LedgerBook[c]
  BY <1>1, <1>3 DEF CommitShows
<1>6. QED
  BY <1>4, <1>5 DEF Ledger!CreatePool

LEMMA CommitDeposits ==
  ASSUME SoFar, Commit, kind = "provide"
  PROVE  Ledger!Deposit
<1>1. CommitShows /\ next = Len(msgs) /\ ~Idle
  BY CommitIs DEF SoFar
<1>2. PICK l \in LpTokens :
        MintsAtLast(l) /\ BooksOneOrTwo(l) /\ TakesOthers(l) /\ MintsSoFar(l)
  BY DEF SoFar, DepositSoFar
<1>3. \A a : In(a) = 0
  <2>1. msgs \in Seq(Messages) /\ next \in Nat
    BY TypeOKIff DEF SoFar, Inv2, Inv1, TxnTypes
  <2>2. \A j \in 1..Len(msgs) : ~(j > next)
    BY <1>1, <2>1
  <2>3. QED
    BY <2>1, <2>2, PendingIs, NothingToCome DEF In
<1>4. l \in Assets
  BY DEF Assets
<1>5. \A a \in Assets : /\ Books(a) \in Nat /\ BooksBefore(a) \in Nat
                        /\ Has(a) \in Nat /\ HadBefore(a) \in Nat
  BY <1>1, NumbersOf DEF SoFar
<1>6. LedgerSupply'[l] > LedgerSupply[l]
      /\ \A m \in LpTokens \ {l} : LedgerSupply'[m] = LedgerSupply[m]
  BY <1>1, <1>2 DEF CommitShows, MintsSoFar
<1>7. \E a, b \in Assets : {c \in Assets : LedgerBook'[c] # LedgerBook[c]} = {a, b}
  <2>1. {c \in Assets : LedgerBook'[c] # LedgerBook[c]} = {c \in Assets : Books(c) # BooksBefore(c)}
    BY <1>1 DEF CommitShows
  <2>2. QED
    BY <1>2, <2>1 DEF BooksOneOrTwo
<1>8. LedgerBook'[l] = LedgerBook[l]
  BY <1>1, <1>2, <1>4 DEF CommitShows, BooksOneOrTwo
<1>9. \A a \in Assets \ {l} : /\ LedgerBook'[a] >= LedgerBook[a]
                              /\ LedgerHeld'[a] - LedgerHeld[a] = LedgerBook'[a] - LedgerBook[a]
  <2>1. \A a \in Assets \ {l} : Has(a) - HadBefore(a) = Books(a) - BooksBefore(a)
    BY <1>2, <1>3, <1>5 DEF TakesOthers
  <2>2. QED
    BY <1>1, <1>2, <2>1 DEF CommitShows, BooksOneOrTwo
<1>10. LedgerHeld'[l] - LedgerHeld[l] \in
         (IF LedgerSupply[l] = 0 THEN MINIMUM_LIQUIDITY_AMOUNT ELSE 0)
           .. (LedgerSupply'[l] - LedgerSupply[l])
  <2>1. /\ Has(l) - HadBefore(l) \in 0..(supply[l] - saved.supply[l])
        /\ saved.supply[l] = 0 /\ supply[l] > 0 =>
             Has(l) - HadBefore(l) >= MINIMUM_LIQUIDITY_AMOUNT
        /\ supply[l] > saved.supply[l]
    BY <1>1, <1>2 DEF MintsSoFar
  <2>2. supply[l] \in Nat /\ saved.supply[l] \in Nat /\ MINIMUM_LIQUIDITY_AMOUNT \in Nat
    BY <1>1, PinaColadaAssumption DEF CommitShows
  <2>3. Has(l) - HadBefore(l) \in
          (IF saved.supply[l] = 0 THEN MINIMUM_LIQUIDITY_AMOUNT ELSE 0)
            .. (supply[l] - saved.supply[l])
    BY <1>4, <1>5, <2>1, <2>2
  <2>4. QED
    BY <1>1, <1>4, <2>3 DEF CommitShows
<1>11. QED
  BY <1>2, <1>6, <1>7, <1>8, <1>9, <1>10 DEF Ledger!Deposit

LEMMA CommitExchanges ==
  ASSUME SoFar, Commit, kind = "swap"
  PROVE  Ledger!Exchange
<1>1. CommitShows /\ next = Len(msgs) /\ ~InSwapLoop /\ ~Idle
  BY CommitIs DEF SoFar
<1>2. ValidOperations(path) /\ TxnTypes
  BY TypeOKIff DEF SoFar, Inv2, Inv1, PathOK
<1>3. hop = Len(path) /\ hop > 0
  BY <1>1, <1>2 DEF InSwapLoop, TxnTypes, ValidOperations
<1>4. msgs = <<Message("transfer", PaysOut, PoolManager, recipient, amount)>>
  BY <1>3 DEF SoFar, SwapSoFar
<1>5. next > 0 /\ amount > 0
  <2> DEFINE m == Message("transfer", PaysOut, PoolManager, recipient, amount)
  <2>1. msgs = <<m>>
    BY <1>4
  <2> HIDE DEF m
  <2>2. next > 0
    BY <1>1, <2>1
  <2>3. QED
    BY <2>2 DEF SoFar, SwapSoFar
<1>6. PICK given \in Assets, n \in 1..MaxUint :
        BooksMidway(n) /\ (Keeps(given, n) \/ Exchanges(given, n))
  BY DEF SoFar, SwapSoFar
<1>7. PICK offer \in Assets, ask \in Assets, m \in 1..MaxUint :
        /\ offer = path[1].offer_asset_info /\ ask = path[Len(path)].ask_asset_info
        /\ m = amount
  <2>1. path[1] \in SwapOperation /\ path[Len(path)] \in SwapOperation
    BY <1>2, <1>3 DEF TxnTypes
  <2>2. amount \in 1..MaxUint
    BY <1>2, <1>5, PinaColadaAssumption DEF TxnTypes, Uint128
  <2>3. QED
    BY <2>1, <2>2 DEF SwapOperation
<1>8. PaysOut = (IF ask \in Denoms THEN DENOM ELSE ask) /\ PaysOut \in Assets
  BY <1>7, PinaColadaAssumption DEF PaysOut, Paid, Assets
<1>9. \A a \in Assets : /\ Books(a) \in Nat /\ BooksBefore(a) \in Nat
                        /\ Has(a) \in Nat /\ HadBefore(a) \in Nat
  BY <1>1, NumbersOf DEF SoFar
<1>10. n \in Int /\ m \in Int /\ -m \in Int /\ n \in Nat /\ m \in Nat
  OBVIOUS
<1>11. LedgerBook' = Ledger!Plus(Ledger!Plus(LedgerBook, offer, n), ask, -m)
  <2>1. ASSUME NEW a \in Assets
        PROVE  Books(a) = BooksBefore(a) + (IF a = offer THEN n ELSE 0)
                                         + (IF a = ask THEN -m ELSE 0)
    <3>1. InFlight(a) = IF a = ask THEN m ELSE 0
      BY <1>3, <1>7 DEF InFlight
    <3>2. Books(a) + InFlight(a) = BooksBefore(a) + (IF a = offer THEN n ELSE 0)
      BY <1>3, <1>6, <1>7 DEF BooksMidway
    <3>3. QED
      BY <1>9, <1>10, <3>1, <3>2
  <2>2. \A a \in Assets : LedgerBook'[a] = LedgerBook[a] + (IF a = offer THEN n ELSE 0)
                                                         + (IF a = ask THEN -m ELSE 0)
    BY <1>1, <2>1 DEF CommitShows
  <2>3. LedgerBook \in [Assets -> Int] /\ LedgerBook' \in [Assets -> Int]
    BY <1>1 DEF CommitShows
  <2>4. Differ(Assets, LedgerBook, LedgerBook', offer, n, ask, -m)
    BY <1>10, <2>2, <2>3 DEF Differ
  <2>5. QED
    BY <2>4, PlusTwice
<1>12. LedgerHeld' \in {Ledger!Plus(LedgerHeld, given, n),
                        Ledger!Plus(Ledger!Plus(LedgerHeld, given, n), PaysOut, -m)}
  <2>1. LedgerHeld \in [Assets -> Int] /\ LedgerHeld' \in [Assets -> Int]
    BY <1>1, SMTT(30) DEF CommitShows
  <2>2. CASE Keeps(given, n)
    <3>1. \A a \in Assets : LedgerHeld'[a] = LedgerHeld[a] + (IF a = given THEN n ELSE 0)
      BY <1>1, <2>2 DEF CommitShows, Keeps
    <3>2. QED
      BY <1>10, <2>1, <3>1, PlusIs
  <2>3. CASE Exchanges(given, n)
    <3>1. ASSUME NEW a \in Assets
          PROVE  Has(a) = HadBefore(a) + (IF a = given THEN n ELSE 0)
                                       + (IF a = PaysOut THEN -m ELSE 0)
      <4>1. Has(a) = HadBefore(a) + (IF a = given THEN n ELSE 0)
                                  - (IF a = PaysOut THEN m ELSE 0)
        BY <1>7, <2>3 DEF Exchanges
      <4>2. QED
        BY <1>9, <1>10, <4>1
    <3>2. \A a \in Assets : LedgerHeld'[a] = LedgerHeld[a] + (IF a = given THEN n ELSE 0)
                                                           + (IF a = PaysOut THEN -m ELSE 0)
      BY <1>1, <3>1 DEF CommitShows
    <3>3. Differ(Assets, LedgerHeld, LedgerHeld', given, n, PaysOut, -m)
      BY <1>8, <1>10, <2>1, <3>2 DEF Differ
    <3>4. QED
      BY <3>3, PlusTwice
  <2>4. QED
    BY <1>6, <2>2, <2>3
<1>13. LedgerSupply' = LedgerSupply
  BY <1>1 DEF CommitShows, SoFar, SwapSoFar
<1>14. n \in Ledger!Amount /\ m \in Ledger!Amount
  BY DEF Ledger!Amount
<1>15. QED
  BY <1>8, <1>11, <1>12, <1>13, <1>14 DEF Ledger!Exchange

LEMMA CommitWithdraws ==
  ASSUME SoFar, Commit, kind = "withdraw"
  PROVE  Ledger!Withdraw
<1>1. CommitShows /\ next = Len(msgs) /\ ~Idle
  BY CommitIs DEF SoFar
<1>2. PICK l \in LpTokens, n \in Nat, x \in Assets, y \in Assets, r1 \in Nat, r2 \in Nat :
        Refunds(l, n, x, y, r1, r2) /\ PaidSoFar(l, n, x, y, r1, r2)
  BY DEF SoFar, WithdrawSoFar
<1>3. next = 3
  <2> DEFINE m1 == Message("transfer", x, PoolManager, l, r1)
             m2 == Message("transfer", y, PoolManager, l, r2)
             m3 == Message("burn", l, PoolManager, PoolManager, n)
  <2>1. msgs = <<m1, m2, m3>>
    BY <1>2 DEF Refunds, RefundMessages
  <2> HIDE DEF m1, m2, m3
  <2>2. QED
    BY <1>1, <2>1
<1>4. /\ n \in 1..(saved.supply[l] - 1) /\ x # y /\ l # x /\ l # y
      /\ r1 * saved.supply[l] <= BooksBefore(x) * (n - 1)
      /\ r2 * saved.supply[l] <= BooksBefore(y) * (n - 1)
  BY <1>2 DEF Refunds
<1>5. /\ \A a \in Assets :
           /\ Books(a) = BooksBefore(a) - (IF a = x \/ a = y THEN n ELSE 0)
           /\ Has(a) = HadBefore(a) + 0 - (IF a = x THEN r1 ELSE 0) - (IF a = y THEN r2 ELSE 0)
      /\ \A m \in LpTokens : supply[m] = saved.supply[m] - (IF m = l THEN n ELSE 0)
      /\ r1 > 0 /\ r2 > 0
  BY <1>2, <1>3 DEF PaidSoFar
<1>6. \A a \in Assets : /\ Books(a) \in Nat /\ BooksBefore(a) \in Nat
                        /\ Has(a) \in Nat /\ HadBefore(a) \in Nat
  BY <1>1, NumbersOf DEF SoFar
<1>7. \A m \in LpTokens : saved.supply[m] \in Nat /\ supply[m] \in Nat
  BY <1>1 DEF CommitShows
<1>8. LedgerSupply[l] - LedgerSupply'[l] = n
      /\ \A m \in LpTokens \ {l} : LedgerSupply'[m] = LedgerSupply[m]
  <2>1. supply[l] = saved.supply[l] - n
    BY <1>5
  <2>2. \A m \in LpTokens \ {l} : supply[m] = saved.supply[m]
    BY <1>5, <1>7
  <2>3. saved.supply[l] - supply[l] = n
    BY <1>7, <2>1
  <2>4. QED
    BY <1>1, <2>2, <2>3 DEF CommitShows
<1>9. n \in 1..(LedgerSupply[l] - 1)
  BY <1>1, <1>4 DEF CommitShows
<1>10. LedgerBook' = Ledger!Plus(Ledger!Plus(LedgerBook, x, -n), y, -n)
  <2>1. \A a \in Assets : Books(a) = BooksBefore(a) + (IF a = x THEN -n ELSE 0)
                                                    + (IF a = y THEN -n ELSE 0)
    BY <1>4, <1>5, <1>6
  <2>2. \A a \in Assets : LedgerBook'[a] = LedgerBook[a] + (IF a = x THEN -n ELSE 0)
                                                         + (IF a = y THEN -n ELSE 0)
    BY <1>1, <2>1 DEF CommitShows
  <2>3. LedgerBook \in [Assets -> Int] /\ LedgerBook' \in [Assets -> Int] /\ -n \in Int
    BY <1>1, SMTT(30) DEF CommitShows
  <2>4. Differ(Assets, LedgerBook, LedgerBook', x, -n, y, -n)
    BY <2>2, <2>3 DEF Differ
  <2>5. QED
    BY <2>4, PlusTwice
<1>11. ASSUME NEW r \in Nat, r > 0, NEW c \in Assets, Has(c) = HadBefore(c) - r,
              r * saved.supply[l] <= BooksBefore(c) * (n - 1)
       PROVE  (LedgerHeld[c] - LedgerHeld'[c]) * LedgerSupply[l]
                \in 1..(LedgerBook[c] * (n - 1))
  <2>1. HadBefore(c) - Has(c) = r
    BY <1>6, <1>11
  <2>2. saved.supply[l] \in Nat /\ saved.supply[l] > 0
    BY <1>4, <1>7
  <2>3. r * saved.supply[l] \in Nat /\ r * saved.supply[l] >= 1
    BY <1>11, <2>2
  <2>4. BooksBefore(c) * (n - 1) \in Int
    BY <1>6
  <2>5. r * saved.supply[l] \in 1..(BooksBefore(c) * (n - 1))
    BY <1>11, <2>3, <2>4
  <2>6. QED
    BY <1>1, <2>1, <2>5 DEF CommitShows
<1>12. \A c \in {x, y} : (LedgerHeld[c] - LedgerHeld'[c]) * LedgerSupply[l]
                           \in 1..(LedgerBook[c] * (n - 1))
  <2>1. Has(x) = HadBefore(x) - r1 /\ Has(y) = HadBefore(y) - r2
    BY <1>4, <1>5, <1>6
  <2>2. QED
    BY <1>4, <1>5, <1>11, <2>1
<1>13. \A c \in Assets \ {x, y} : LedgerHeld'[c] = LedgerHeld[c]
  <2>1. \A c \in Assets \ {x, y} : Has(c) = HadBefore(c)
    BY <1>5, <1>6
  <2>2. QED
    BY <1>1, <2>1 DEF CommitShows
<1>14. QED
  BY <1>4, <1>8, <1>9, <1>10, <1>12, <1>13 DEF Ledger!Withdraw

LEMMA CommitSteps ==
  ASSUME SoFar, Commit
  PROVE  Ledger!CreatePool \/ Ledger!Deposit \/ Ledger!Exchange \/ Ledger!Withdraw
<1>1. kind \in {"create", "provide", "swap", "withdraw"}
  BY TypeOKIff DEF Commit, Idle, SoFar, Inv2, Inv1, TxnTypes
<1>2. QED
  BY <1>1, CommitCreates, CommitDeposits, CommitExchanges, CommitWithdraws
-----------------------------------------------------------------------------
(* Between transactions tokens arrive, or LP tokens are burnt. *)

LEMMA TransferSteps ==
  ASSUME Inv2, Inv2', NEW u \in Users, NEW to \in Receivers, NEW a \in Assets, NEW n \in Amounts,
         UserTransfer(u, to, a, n)
  PROVE  Ledger!Receive \/ UNCHANGED Ledger!vars
<1>1. /\ Idle /\ Idle' /\ u # to /\ n > 0 /\ n <= bal[u][a] /\ bal' = Move(bal, u, to, a, n)
      /\ UNCHANGED <<pair_balances, supply>>
  BY DEF UserTransfer, storage, txn, Idle
<1>2. /\ n \in Nat /\ n \in 1..MaxUint /\ u \in Accounts /\ to \in Accounts
      /\ PoolManager \in Accounts /\ u # PoolManager
  BY <1>1, PinaColadaAssumption DEF Accounts, Uint128
<1>3. bal \in Holdings /\ bal' \in Holdings
  BY TypeOKIff DEF Inv2, Inv1, StorageTypes
<1>4. bal[PoolManager] \in [Assets -> Nat] /\ bal'[PoolManager] \in [Assets -> Nat]
  BY <1>2, <1>3 DEF Holdings
<1>5. \A z \in Assets : bal'[PoolManager][z]
                          = bal[PoolManager][z] + (IF PoolManager = to /\ z = a THEN n ELSE 0)
  <2>1. \A z \in Assets :
          Move(bal, u, to, a, n)[PoolManager][z]
            = bal[PoolManager][z] - (IF PoolManager = u /\ z = a THEN n ELSE 0)
                                  + (IF PoolManager = to /\ z = a THEN n ELSE 0)
    BY <1>1, <1>2, <1>3, MoveEffect
  <2>2. QED
    BY <1>1, <1>2, <1>4, <2>1
<1>6. /\ LedgerHeld = bal[PoolManager] /\ LedgerHeld' = bal'[PoolManager]
      /\ LedgerBook' = LedgerBook /\ LedgerSupply' = LedgerSupply
  BY <1>1, LedgerIs, LedgerNext DEF Books
<1>7. CASE to = PoolManager
  <2>1. \A z \in Assets : LedgerHeld'[z] = LedgerHeld[z] + (IF z = a THEN n ELSE 0)
    BY <1>5, <1>6, <1>7
  <2>2. LedgerHeld \in [Assets -> Int] /\ LedgerHeld' \in [Assets -> Int] /\ n \in Int
    BY <1>2, <1>4, <1>6
  <2>3. LedgerHeld' = Ledger!Plus(LedgerHeld, a, n)
    BY <2>1, <2>2, PlusIs
  <2>4. n \in Ledger!Amount
    BY <1>2 DEF Ledger!Amount
  <2>5. QED
    BY <1>6, <2>3, <2>4 DEF Ledger!Receive
<1>8. CASE to # PoolManager
  <2>1. \A z \in Assets : bal'[PoolManager][z] = bal[PoolManager][z]
    BY <1>4, <1>5, <1>8
  <2>2. bal'[PoolManager] = bal[PoolManager]
    BY <1>4, <2>1
  <2>3. QED
    BY <1>6, <2>2 DEF Ledger!vars
<1>9. QED
  BY <1>7, <1>8

LEMMA BurnSteps ==
  ASSUME Inv2, Inv2', NEW u \in Users, NEW l \in LpTokens, NEW n \in Amounts, UserBurn(u, l, n)
  PROVE  Ledger!Burn
<1>1. /\ Idle /\ Idle' /\ n > 0 /\ bal' = Debit(bal, u, l, n)
      /\ supply' = [supply EXCEPT ![l] = @ - n] /\ UNCHANGED pair_balances
  BY DEF UserBurn, storage, txn, Idle
<1>2. n \in Nat /\ n \in 1..MaxUint /\ u # PoolManager /\ PoolManager \in Accounts
  BY <1>1, PinaColadaAssumption DEF Accounts, Uint128
<1>3. bal \in Holdings
  BY TypeOKIff DEF Inv2, Inv1, StorageTypes
<1>4. bal'[PoolManager] = bal[PoolManager]
  BY <1>1, <1>2, <1>3 DEF Debit, Holdings
<1>5. /\ LedgerSupply = supply /\ LedgerSupply' = supply'
      /\ LedgerBook' = LedgerBook /\ LedgerHeld' = LedgerHeld
  BY <1>1, <1>4, LedgerIs, LedgerNext DEF Books
<1>6. supply \in [LpTokens -> Int] /\ supply' \in [LpTokens -> Int]
  BY TypeOKIff, PinaColadaAssumption DEF Inv2, Inv1, StorageTypes, Uint128
<1>7. PICK i \in Int : i = -n
  BY <1>2
<1>8. \A m \in LpTokens : supply'[m] = supply[m] + (IF m = l THEN i ELSE 0)
  BY <1>1, <1>2, <1>6, <1>7
<1>9. supply' = Ledger!Plus(supply, l, i)
  BY <1>6, <1>8, PlusIs
<1>10. n \in Ledger!Amount
  BY <1>2 DEF Ledger!Amount
<1>11. QED
  BY <1>5, <1>7, <1>9, <1>10 DEF Ledger!Burn
-----------------------------------------------------------------------------
LEMMA InitSteps == Init => Ledger!Init
<1> SUFFICES ASSUME Init PROVE Ledger!Init
  OBVIOUS
<1>1. /\ Idle /\ pair_balances = <<>> /\ supply = [l \in LpTokens |-> 0]
      /\ bal = [acct \in Accounts |-> [a \in Assets |->
                  IF acct \in Users /\ a \notin LpTokens THEN InitialFunds ELSE 0]]
  BY DEF Init, Idle
<1>2. ASSUME NEW a PROVE Books(a) = 0
  <2>1. DOMAIN pair_balances = {}
    BY <1>1
  <2>2. \A c \in Slots : SlotAmounts(pair_balances, a)[c] = 0
    BY <2>1 DEF SlotAmounts
  <2>3. /\ SlotAmounts(pair_balances, a) \in [Slots -> Nat]
        /\ Book(pair_balances, a) = Total(SlotAmounts(pair_balances, a))
    BY <2>1, BookType DEF IsBook
  <2>4. QED
    BY <2>2, <2>3, TotalZero DEF Books
<1>3. bal[PoolManager] = [a \in Assets |-> 0]
  <2>1. PoolManager \in Accounts /\ PoolManager \notin Users
    BY PinaColadaAssumption DEF Accounts
  <2>2. QED
    BY <1>1, <2>1
<1>4. LedgerBook = [a \in Assets |-> 0]
  BY <1>1, <1>2, LedgerIs
<1>5. QED
  BY <1>1, <1>3, <1>4, LedgerIs DEF Ledger!Init

LEMMA NextSteps == SoFar /\ [Next]_vars => [Ledger!Next]_Ledger!vars
<1> SUFFICES ASSUME SoFar, [Next]_vars PROVE [Ledger!Next]_Ledger!vars
  OBVIOUS
<1>1. Inv2 /\ Inv2'
  BY NextInv2 DEF SoFar
<1>2. ASSUME \/ Ledger!CreatePool \/ Ledger!Deposit \/ Ledger!Exchange \/ Ledger!Withdraw
             \/ Ledger!Receive \/ Ledger!Burn \/ UNCHANGED Ledger!vars
      PROVE  [Ledger!Next]_Ledger!vars
  BY <1>2 DEF Ledger!Next
<1>3. ASSUME Idle, kind' # "none", saved' = Snapshot PROVE [Ledger!Next]_Ledger!vars
  BY <1>2, <1>3, Unseen DEF Idle
<1>4. CASE CreateCall \/ DepositCall \/ SwapArrives \/ WithdrawCall
  BY <1>3, <1>4, BeginIs
<1>5. CASE (\E returned \in CurveOutputs : SwapHop(returned)) \/ Creation \/ Dispatch
  <2>1. ~Idle /\ ~Idle' /\ saved' = saved
    BY <1>1, <1>5, GoesOn DEF Idle
  <2>2. QED
    BY <1>2, <2>1, Unseen
<1>6. CASE Commit
  BY <1>2, <1>6, CommitSteps
<1>7. CASE Revert
  BY <1>2, <1>7, Unseen
<1>8. CASE Environment
  BY <1>1, <1>2, <1>8, TransferSteps, BurnSteps DEF Environment
<1>9. CASE UNCHANGED vars
  <2>1. UNCHANGED <<pair_balances, supply, bal, kind, saved>>
    BY <1>9 DEF vars, storage, tokens, txn
  <2>2. UNCHANGED <<LedgerBook, LedgerHeld, LedgerSupply>>
    BY <2>1, LedgerIs, LedgerNext DEF Idle, Books, BooksBefore
  <2>3. QED
    BY <2>2 DEF Ledger!vars
<1>10. QED
  BY <1>1, <1>4, <1>5, <1>6, <1>7, <1>8, <1>9, StepIs

(* A call of the contract has the effect of one step of the ledger, or of  *)
(* none: whatever pools a swap goes through, messages a deposit sends or   *)
(* refunds a withdrawal pays, and however they fail half-way, the books,   *)
(* the account and the LP tokens change together and as PoolLedger says.   *)
THEOREM LedgerImplemented == Spec => ImplementsLedger
<1>1. Init => Ledger!Init
  BY InitSteps
<1>2. SoFar /\ [Next]_vars => [Ledger!Next]_Ledger!vars
  BY NextSteps
<1>3. QED
  BY <1>1, <1>2, SoFarHolds, PTL DEF Spec, ImplementsLedger, Ledger!Spec
=============================================================================
