-------------------------- MODULE PinaColadaProofs --------------------------
(***************************************************************************)
(* Proofs about PinaColada for every value of its constants.               *)
(***************************************************************************)
EXTENDS PinaColadaProperties, TotalsProofs, TLAPS

(* What the accounts hold of asset a. *)
Column(b, a) == [acct \in Accounts |-> b[acct][a]]
Holdings == [Accounts -> [Assets -> Nat]]

LEMMA ColumnType ==
  ASSUME NEW b \in Holdings, NEW a \in Assets
  PROVE  Column(b, a) \in [Accounts -> Nat] /\ Total(Column(b, a)) \in Nat
<1>1. Column(b, a) \in [Accounts -> Nat]
  BY DEF Column, Holdings
<1>2. QED
  BY <1>1, TotalType, PinaColadaAssumption

(* Nobody holds more than the accounts hold together. *)
LEMMA HoldingBound ==
  ASSUME NEW b \in Holdings, NEW a \in Assets, NEW acct \in Accounts
  PROVE  b[acct][a] <= Total(Column(b, a))
<1> DEFINE f == Column(b, a)
           g == [f EXCEPT ![acct] = 0]
<1>1. f \in [Accounts -> Nat] /\ g \in [Accounts -> Nat]
  BY ColumnType
<1>2. Total(g) = Total(f) - f[acct] + g[acct]
  <2>1. \A t \in Accounts \ {acct} : f[t] = g[t]
    BY <1>1
  <2> HIDE DEF f, g
  <2>2. QED
    BY <1>1, <2>1, TotalUpdate, PinaColadaAssumption
<1>3. Total(g) \in Nat /\ Total(f) \in Nat
  BY <1>1, TotalType, PinaColadaAssumption
<1>4. f[acct] = b[acct][a] /\ g[acct] = 0 /\ b[acct][a] \in Nat
  BY <1>1 DEF Column, Holdings
<1> HIDE DEF f, g
<1>5. Total(Column(b, a)) = Total(f)
  BY DEF f
<1>6. QED
  BY <1>2, <1>3, <1>4, <1>5

LEMMA CreditLedger ==
  ASSUME NEW b \in Holdings, NEW acct \in Accounts, NEW a \in Assets, NEW n \in Nat
  PROVE  /\ Credit(b, acct, a, n) \in Holdings
         /\ Total(Column(Credit(b, acct, a, n), a)) = Total(Column(b, a)) + n
         /\ \A z \in Assets \ {a} : Column(Credit(b, acct, a, n), z) = Column(b, z)
<1> DEFINE c == Credit(b, acct, a, n)
<1>1. c \in Holdings
  BY DEF Credit, Holdings
<1>2. \A u \in Accounts, z \in Assets :
        c[u][z] = IF u = acct /\ z = a THEN b[u][z] + n ELSE b[u][z]
  BY DEF Credit, Holdings
<1>3. Total(Column(c, a)) = Total(Column(b, a)) + n
  <2> DEFINE f == Column(b, a)
             g == Column(c, a)
  <2>1. f \in [Accounts -> Nat] /\ g \in [Accounts -> Nat] /\ Total(f) \in Nat
    BY <1>1, ColumnType
  <2>2. \A t \in Accounts \ {acct} : f[t] = g[t]
    BY <1>2 DEF Column
  <2>3. g[acct] = f[acct] + n /\ f[acct] \in Nat
    BY <1>2, <2>1 DEF Column
  <2>4. Total(g) = Total(f) - f[acct] + g[acct]
    BY <2>1, <2>2, TotalUpdate, PinaColadaAssumption
  <2>5. QED
    BY <2>1, <2>3, <2>4
<1>4. \A z \in Assets \ {a} : Column(c, z) = Column(b, z)
  BY <1>2 DEF Column
<1>5. QED
  BY <1>1, <1>3, <1>4

LEMMA DebitLedger ==
  ASSUME NEW b \in Holdings, NEW acct \in Accounts, NEW a \in Assets, NEW n \in Nat,
         n <= b[acct][a]
  PROVE  /\ Debit(b, acct, a, n) \in Holdings
         /\ Total(Column(Debit(b, acct, a, n), a)) = Total(Column(b, a)) - n
         /\ \A z \in Assets \ {a} : Column(Debit(b, acct, a, n), z) = Column(b, z)
<1> DEFINE c == Debit(b, acct, a, n)
<1>1. c \in Holdings
  <2>1. b[acct][a] - n \in Nat
    BY DEF Holdings
  <2>2. QED
    BY <2>1 DEF Debit, Holdings
<1>2. \A u \in Accounts, z \in Assets :
        c[u][z] = IF u = acct /\ z = a THEN b[u][z] - n ELSE b[u][z]
  BY DEF Debit, Holdings
<1>3. Total(Column(c, a)) = Total(Column(b, a)) - n
  <2> DEFINE f == Column(b, a)
             g == Column(c, a)
  <2>1. f \in [Accounts -> Nat] /\ g \in [Accounts -> Nat] /\ Total(f) \in Nat
    BY <1>1, ColumnType
  <2>2. \A t \in Accounts \ {acct} : f[t] = g[t]
    BY <1>2 DEF Column
  <2>3. g[acct] = f[acct] - n /\ f[acct] \in Nat
    BY <1>2, <2>1 DEF Column
  <2>4. Total(g) = Total(f) - f[acct] + g[acct]
    BY <2>1, <2>2, TotalUpdate, PinaColadaAssumption
  <2>5. QED
    BY <2>1, <2>3, <2>4
<1>4. \A z \in Assets \ {a} : Column(c, z) = Column(b, z)
  BY <1>2 DEF Column
<1>5. QED
  BY <1>1, <1>3, <1>4

(* Moving tokens between accounts, or from one to itself, changes no total. *)
LEMMA MoveLedger ==
  ASSUME NEW b \in Holdings, NEW from \in Accounts, NEW to \in Accounts,
         NEW a \in Assets, NEW n \in Nat, n <= b[from][a]
  PROVE  /\ Move(b, from, to, a, n) \in Holdings
         /\ \A z \in Assets :
              Total(Column(Move(b, from, to, a, n), z)) = Total(Column(b, z))
<1> DEFINE d == Debit(b, from, a, n)
           c == Credit(d, to, a, n)
<1>1. /\ d \in Holdings
      /\ Total(Column(d, a)) = Total(Column(b, a)) - n
      /\ \A z \in Assets \ {a} : Column(d, z) = Column(b, z)
  BY DebitLedger
<1>2. /\ c \in Holdings
      /\ Total(Column(c, a)) = Total(Column(d, a)) + n
      /\ \A z \in Assets \ {a} : Column(c, z) = Column(d, z)
  BY <1>1, CreditLedger
<1>3. Total(Column(b, a)) \in Nat
  BY ColumnType
<1>4. Move(b, from, to, a, n) = c
  BY DEF Move
<1> HIDE DEF d, c
<1>5. \A z \in Assets : Total(Column(c, z)) = Total(Column(b, z))
  <2> TAKE z \in Assets
  <2>1. CASE z = a
    BY <2>1, <1>1, <1>2, <1>3
  <2>2. CASE z # a
    BY <2>2, <1>1, <1>2
  <2>3. QED
    BY <2>1, <2>2
<1>6. QED
  BY <1>2, <1>4, <1>5
-----------------------------------------------------------------------------
(* The storage operations. *)

LEMMA KeyType ==
  ASSUME NEW a \in Assets, NEW b \in Assets, a # b
  PROVE  PairKey(a, b) \in PairKeys
<1> DEFINE pr == <<a, b>>
<1>1. pr \in {q \in Assets \X Assets : q[1] # q[2]} /\ PairKey(a, b) = PairKey(pr[1], pr[2])
  OBVIOUS
<1>2. QED
  BY <1>1 DEF PairKeys

LEMMA KeyShape ==
  ASSUME NEW k \in PairKeys
  PROVE  k # NoKey /\ k \in SUBSET Assets
BY DEF PairKeys, PairKey, NoKey

(* pb is a book: every entry holds two assets with their amounts. *)
IsBook(pb) == \A k \in DOMAIN pb : pb[k] \in Asset \X Asset

(* qb is pb except for the amounts under k. *)
SameButAmounts(pb, qb, k) ==
  /\ DOMAIN qb = DOMAIN pb
  /\ \A j \in DOMAIN pb \ {k} : qb[j] = pb[j]
  /\ \A i \in {1, 2} : qb[k][i].info = pb[k][i].info

LEMMA AfterSwapFacts ==
  ASSUME NEW pb, IsBook(pb), NEW k \in DOMAIN pb, NEW i \in {1, 2},
         NEW m \in Nat, NEW n \in Nat,
         pb[k][i].amount + m <= MaxUint, n <= pb[k][Other(i)].amount
  PROVE  /\ IsBook(AfterSwap(pb, k, i, m, n))
         /\ SameButAmounts(pb, AfterSwap(pb, k, i, m, n), k)
         /\ AfterSwap(pb, k, i, m, n)[k][i].amount = pb[k][i].amount + m
         /\ AfterSwap(pb, k, i, m, n)[k][Other(i)].amount = pb[k][Other(i)].amount - n
<1> DEFINE q == AfterSwap(pb, k, i, m, n)
<1>1. pb[k] \in Asset \X Asset /\ Other(i) \in {1, 2} /\ Other(i) # i
  BY DEF IsBook, Other
<1>2. \A j \in {1, 2} : pb[k][j] \in Asset
  BY <1>1
<1>3. /\ DOMAIN q = DOMAIN pb
      /\ \A j \in DOMAIN pb \ {k} : q[j] = pb[j]
      /\ q[k] = [pb[k] EXCEPT ![i].amount = @ + m, ![Other(i)].amount = @ - n]
  BY DEF AfterSwap
<1>4. /\ q[k][i] = [info |-> pb[k][i].info, amount |-> pb[k][i].amount + m]
      /\ q[k][Other(i)] = [info |-> pb[k][Other(i)].info, amount |-> pb[k][Other(i)].amount - n]
      /\ q[k] = <<q[k][1], q[k][2]>>
  BY <1>1, <1>2, <1>3 DEF Asset
<1>5. q[k][i] \in Asset /\ q[k][Other(i)] \in Asset
  BY <1>1, <1>2, <1>4, PinaColadaAssumption DEF Asset, Uint128
<1> HIDE DEF q
<1>6. q[k] \in Asset \X Asset
  BY <1>1, <1>4, <1>5
<1>7. IsBook(q)
  BY <1>3, <1>6 DEF IsBook
<1>8. \A j \in {1, 2} : q[k][j].info = pb[k][j].info
  BY <1>1, <1>4
<1>9. QED
  BY <1>3, <1>4, <1>7, <1>8, SMTT(30) DEF SameButAmounts, q

LEMMA IncrementFacts ==
  ASSUME NEW pb, IsBook(pb), NEW k \in DOMAIN pb, NEW d \in Nat \X Nat,
         \A i \in 1..2 : pb[k][i].amount + d[i] <= MaxUint
  PROVE  /\ IsBook(IncrementPair(pb, k, d))
         /\ SameButAmounts(pb, IncrementPair(pb, k, d), k)
         /\ \A i \in {1, 2} : IncrementPair(pb, k, d)[k][i].amount = pb[k][i].amount + d[i]
<1> DEFINE q == IncrementPair(pb, k, d)
<1>1. pb[k] \in Asset \X Asset /\ \A j \in {1, 2} : pb[k][j] \in Asset
  BY DEF IsBook
<1>2. /\ DOMAIN q = DOMAIN pb
      /\ \A j \in DOMAIN pb \ {k} : q[j] = pb[j]
      /\ q[k] = [pb[k] EXCEPT ![1].amount = @ + d[1], ![2].amount = @ + d[2]]
  BY DEF IncrementPair
<1>3. /\ q[k][1] = [info |-> pb[k][1].info, amount |-> pb[k][1].amount + d[1]]
      /\ q[k][2] = [info |-> pb[k][2].info, amount |-> pb[k][2].amount + d[2]]
      /\ q[k] = <<q[k][1], q[k][2]>>
  <2>1. /\ q[k][1] = [pb[k][1] EXCEPT !.amount = @ + d[1]]
        /\ q[k][2] = [pb[k][2] EXCEPT !.amount = @ + d[2]]
        /\ q[k] = <<q[k][1], q[k][2]>>
    BY <1>1, <1>2
  <2>2. QED
    BY <1>1, <2>1 DEF Asset
<1>4. q[k][1] \in Asset /\ q[k][2] \in Asset
  BY <1>1, <1>3, PinaColadaAssumption DEF Asset, Uint128
<1> HIDE DEF q
<1>5. q[k] \in Asset \X Asset
  BY <1>3, <1>4
<1>6. IsBook(q)
  BY <1>2, <1>5 DEF IsBook
<1>7. \A j \in {1, 2} : q[k][j].info = pb[k][j].info /\ q[k][j].amount = pb[k][j].amount + d[j]
  BY <1>3
<1>8. QED
  BY <1>2, <1>6, <1>7 DEF SameButAmounts, q

LEMMA DecreaseFacts ==
  ASSUME NEW pb, IsBook(pb), NEW k \in DOMAIN pb, NEW n \in Nat,
         \A i \in 1..2 : n <= pb[k][i].amount
  PROVE  /\ IsBook(DecreasePair(pb, k, <<n, n>>))
         /\ SameButAmounts(pb, DecreasePair(pb, k, <<n, n>>), k)
         /\ \A i \in {1, 2} : DecreasePair(pb, k, <<n, n>>)[k][i].amount = pb[k][i].amount - n
<1> DEFINE q == DecreasePair(pb, k, <<n, n>>)
<1>1. pb[k] \in Asset \X Asset /\ \A j \in {1, 2} : pb[k][j] \in Asset
  BY DEF IsBook
<1>2. /\ DOMAIN q = DOMAIN pb
      /\ \A j \in DOMAIN pb \ {k} : q[j] = pb[j]
      /\ q[k] = [pb[k] EXCEPT ![1].amount = @ - n, ![2].amount = @ - n]
  BY DEF DecreasePair
<1>3. /\ q[k][1] = [info |-> pb[k][1].info, amount |-> pb[k][1].amount - n]
      /\ q[k][2] = [info |-> pb[k][2].info, amount |-> pb[k][2].amount - n]
      /\ q[k] = <<q[k][1], q[k][2]>>
  <2> DEFINE z == pb[k]
  <2> HIDE DEF q, z
  <2>0. z \in Asset \X Asset /\ q[k] = [z EXCEPT ![1].amount = @ - n, ![2].amount = @ - n]
    BY <1>1, <1>2 DEF z
  <2>1. /\ q[k][1] = [z[1] EXCEPT !.amount = @ - n]
        /\ q[k][2] = [z[2] EXCEPT !.amount = @ - n]
        /\ q[k] = <<q[k][1], q[k][2]>>
    BY <2>0
  <2>2. QED
    BY <1>1, <2>1 DEF Asset, z
<1>4. q[k][1] \in Asset /\ q[k][2] \in Asset
  BY <1>1, <1>3, PinaColadaAssumption DEF Asset, Uint128
<1> HIDE DEF q
<1>5. q[k] \in Asset \X Asset
  BY <1>3, <1>4
<1>6. IsBook(q)
  BY <1>2, <1>5 DEF IsBook
<1>7. \A j \in {1, 2} : q[k][j].info = pb[k][j].info /\ q[k][j].amount = pb[k][j].amount - n
  BY <1>3
<1>8. QED
  BY <1>2, <1>6, <1>7 DEF SameButAmounts, q

(* The share of the LP supply, rounded down to a decimal, and the part of  *)
(* a reserve it stands for.                                                *)
LEMMA ShareRounding ==
  ASSUME NEW r \in Nat, NEW n \in Nat, NEW t \in Nat, n > 0, n < t
  PROVE  \E q \in Nat : /\ q * t <= (n - 1) * FRACTIONAL
                        /\ ShareInAssets(r, n, t) \in Nat
                        /\ ShareInAssets(r, n, t) * FRACTIONAL <= r * q
<1> DEFINE p == (n - 1) * FRACTIONAL
           q == p \div t
           v == (r * q) \div FRACTIONAL
<1>0. FRACTIONAL \in Nat /\ FRACTIONAL > 0 /\ n - 1 \in Nat
  BY PinaColadaAssumption
<1>1. p \in Nat
  BY <1>0
<1>2. q \in Nat /\ q * t <= p
  BY <1>1
<1>3. r * q \in Nat
  BY <1>2
<1>4. v \in Nat /\ v * FRACTIONAL <= r * q
  <2> HIDE DEF q
  <2>1. QED
    BY <1>0, <1>3
<1>5. ShareInAssets(r, n, t) = v
  BY DEF ShareInAssets
<1> HIDE DEF v, q
<1>6. QED
  BY <1>2, <1>4, <1>5

(* A share of a reserve, scaled up again, is no more than it was taken of. *)
LEMMA ShareScaled ==
  ASSUME NEW r \in Nat, NEW b \in Nat, r <= b, NEW n \in Nat, NEW s \in Nat, n > 0, n < s
  PROVE  /\ ShareInAssets(r, n, s) \in Nat
         /\ ShareInAssets(r, n, s) * s <= b * (n - 1)
<1> DEFINE m == n - 1
           v == ShareInAssets(r, n, s)
<1>0. FRACTIONAL \in Nat /\ FRACTIONAL > 0 /\ m \in Nat
  BY PinaColadaAssumption
<1>1. PICK q \in Nat : q * s <= m * FRACTIONAL /\ v \in Nat /\ v * FRACTIONAL <= r * q
  BY ShareRounding
<1> HIDE DEF m, v
<1>2. (v * FRACTIONAL) * s <= (r * q) * s
  BY <1>0, <1>1
<1>3. r * (q * s) <= r * (m * FRACTIONAL)
  BY <1>0, <1>1
<1>4. (v * FRACTIONAL) * s = (v * s) * FRACTIONAL /\ (r * q) * s = r * (q * s)
      /\ r * (m * FRACTIONAL) = (r * m) * FRACTIONAL
  BY <1>0, <1>1
<1>5. v * s \in Nat /\ r * m \in Nat
  BY <1>0, <1>1
<1>6. (v * s) * FRACTIONAL <= (r * m) * FRACTIONAL
  <2>1. (r * q) * s \in Nat /\ r * (q * s) \in Nat /\ (v * FRACTIONAL) * s \in Nat
        /\ r * (m * FRACTIONAL) \in Nat
    BY <1>0, <1>1
  <2>2. QED
    BY <1>2, <1>3, <1>4, <2>1
<1>7. v * s <= r * m
  <2> DEFINE c == v * s
             d == r * m
  <2>1. c \in Nat /\ d \in Nat /\ c * FRACTIONAL <= d * FRACTIONAL
    BY <1>5, <1>6
  <2> HIDE DEF c, d
  <2>2. c <= d
    BY <1>0, <2>1
  <2>3. QED
    BY <2>2 DEF c, d
<1>8. r * m <= b * m
  BY <1>0
<1>9. v * s <= b * m
  BY <1>0, <1>5, <1>7, <1>8
<1>10. QED
  BY <1>1, <1>9 DEF v, m

(* A refund never exceeds the reserve it is taken from. *)
LEMMA ShareBound ==
  ASSUME NEW r \in Nat, NEW n \in Nat, NEW t \in Nat, n > 0, n < t
  PROVE  ShareInAssets(r, n, t) \in 0..r
<1> DEFINE v == ShareInAssets(r, n, t)
<1>1. v \in Nat /\ v * t <= r * (n - 1)
  BY ShareScaled
<1> HIDE DEF v
<1>2. r * (n - 1) <= r * t
  BY n - 1 \in Nat /\ n - 1 <= t
<1>3. v <= r
  <2>1. SUFFICES ASSUME v >= r + 1 PROVE FALSE
    BY <1>1
  <2>2. v * t >= (r + 1) * t
    BY <1>1, <2>1
  <2>3. QED
    BY <1>1, <1>2, <2>2
<1>4. QED
  BY <1>1, <1>3 DEF v
-----------------------------------------------------------------------------
(* The first invariant: types, the ledgers of the LP tokens, and the       *)
(* protocol by which a pool gets its LP token.                             *)

Held(b, s) == \A l \in LpTokens : s[l] = Total(Column(b, l))

Bound(ps, dep) ==
  /\ \A k \in DOMAIN ps : ps[k].liquidity_token \in dep
  /\ \A j, k \in DOMAIN ps : ps[j].liquidity_token = ps[k].liquidity_token => j = k

(* The storage between two transactions, and so what a rollback restores. *)
AtRest(st) ==
  /\ StorageType(st)
  /\ Held(st.bal, st.supply)
  /\ Bound(st.pools, st.deployed)
  /\ st.queued_mint = NoKey

(* How far the creation of a pool has come. *)
CreateProtocol ==
  IF kind = "create"
  THEN \/ Len(msgs) = 1 /\ next = 0 /\ msgs[1].op = "instantiate" /\ queued_mint # NoKey
       \/ /\ Len(msgs) = 2 /\ next = 1 /\ msgs[2].op = "reply" /\ queued_mint # NoKey
          /\ msgs[2].asset \in deployed
          /\ \A k \in DOMAIN pools : pools[k].liquidity_token # msgs[2].asset
       \/ Len(msgs) = 2 /\ next = 2 /\ queued_mint = NoKey
  ELSE \A m \in 1..Len(msgs) : msgs[m].op \notin {"instantiate", "reply"}

(* The LP tokens the accounts hold add up to the supply that share and     *)
(* refund computations read (query_supply): part of the ledgers' own       *)
(* bookkeeping, needed here because a burn takes from both.                *)
SupplyIsHeld ==
  \A l \in LpTokens : supply[l] = Total([acct \in Accounts |-> bal[acct][l]])

Inv1 ==
  /\ TypeOK
  /\ SupplyIsHeld
  /\ LpBinding
  /\ CreateProtocol
  /\ Idle \/ InSwapLoop => msgs = <<>>
  /\ ~Idle => AtRest(saved)

StorageTypes ==
  /\ DOMAIN pools \subseteq PairKeys
  /\ \A k \in DOMAIN pools : pools[k] \in Config
  /\ DOMAIN pair_balances = DOMAIN pools
  /\ IsBook(pair_balances)
  /\ balances \in [Assets -> Uint128]
  /\ precisions \subseteq Assets
  /\ queued_mint \in PairKeys \cup {NoKey}
  /\ deployed \subseteq LpTokens
  /\ supply \in [LpTokens -> Uint128]
  /\ bal \in Holdings
  /\ shortfall \in [Assets -> 0..MaxShortfall]

TxnTypes ==
  /\ kind \in {"none", "create", "provide", "swap", "withdraw"}
  /\ path \in Seq(SwapOperation) /\ hop \in 0..Len(path)
  /\ amount \in Uint128 /\ recipient \in Accounts
  /\ msgs \in Seq(Messages) /\ next \in 0..Len(msgs)

LEMMA StorageTypesIff ==
  /\ StorageType(Snapshot) <=> StorageTypes
  /\ StorageType(Snapshot)' <=> StorageTypes'
BY DEF StorageType, Snapshot, StorageTypes, IsBook, Holdings

LEMMA TypeOKIff ==
  /\ TypeOK <=> /\ StorageTypes /\ TxnTypes
                /\ IF Idle THEN saved = NoSnapshot ELSE StorageType(saved)
  /\ TypeOK' <=> /\ StorageTypes' /\ TxnTypes'
                 /\ IF Idle' THEN saved' = NoSnapshot ELSE StorageType(saved')
<1>1. StorageType(saved)' <=> StorageType(saved')
  BY DEF StorageType
<1>2. NoSnapshot' = NoSnapshot
  BY DEF NoSnapshot
<1>3. QED
  BY <1>1, <1>2, StorageTypesIff DEF TypeOK, TxnTypes

LEMMA HeldIff ==
  /\ SupplyIsHeld <=> Held(bal, supply)
  /\ SupplyIsHeld' <=> Held(bal', supply')
BY DEF SupplyIsHeld, Held, Column

LEMMA MessageTypes ==
  /\ Message("instantiate", NoAddr, PoolManager, PoolManager, 0) \in Messages
  /\ \A l \in LpTokens : Message("reply", l, PoolManager, PoolManager, 0) \in Messages
  /\ \A l \in LpTokens, to \in Accounts, n \in Uint128 :
       /\ Message("mint", l, PoolManager, to, n) \in Messages
       /\ Message("burn", l, PoolManager, to, n) \in Messages
  /\ \A a \in Assets, to \in Accounts, n \in Uint128 :
       Message("transfer", a, PoolManager, to, n) \in Messages
  /\ \A a \in Assets, u \in Users, n \in Uint128 :
       Message("transfer_from", a, u, PoolManager, n) \in Messages
BY PinaColadaAssumption DEF Message, Messages, Uint128

LEMMA InitInv1 == Init => Inv1
<1> SUFFICES ASSUME Init PROVE Inv1
  OBVIOUS
<1>1. bal \in Holdings
  BY PinaColadaAssumption DEF Init, Holdings, Uint128, Accounts
<1>2. SupplyIsHeld
  <2> SUFFICES ASSUME NEW l \in LpTokens PROVE supply[l] = Total(Column(bal, l))
    BY HeldIff DEF Held
  <2>1. l \in Assets
    BY DEF Assets
  <2>2. \A acct \in Accounts : Column(bal, l)[acct] = 0
    BY <2>1 DEF Init, Column
  <2>3. Total(Column(bal, l)) = 0
    BY <1>1, <2>1, <2>2, ColumnType, TotalZero
  <2>4. QED
    BY <2>3 DEF Init
<1>3. StorageTypes
  BY <1>1, PinaColadaAssumption DEF Init, StorageTypes, IsBook, Uint128
<1>4. TxnTypes
  BY PinaColadaAssumption DEF Init, TxnTypes, Uint128, Accounts
<1>5. TypeOK
  BY <1>3, <1>4, TypeOKIff DEF Init, Idle
<1>6. LpBinding
  BY DEF Init, LpBinding
<1>7. CreateProtocol
  BY DEF Init, CreateProtocol
<1>8. QED
  BY <1>2, <1>5, <1>6, <1>7 DEF Inv1, Init, Idle, InSwapLoop

(* What a call saves for its rollback is storage at rest. *)
LEMMA SavedAtRest ==
  ASSUME Inv1, Idle, saved' = Snapshot
  PROVE  AtRest(saved')
<1>1. StorageType(Snapshot)
  BY StorageTypesIff, TypeOKIff DEF Inv1
<1>2. Held(Snapshot.bal, Snapshot.supply)
  BY HeldIff DEF Inv1, Snapshot
<1>3. queued_mint = NoKey
  BY DEF Inv1, LpBinding, Idle
<1>4. Bound(pools, deployed)
  <2>1. \A k \in DOMAIN pools : k # NoKey
    BY TypeOKIff, KeyShape DEF Inv1, StorageTypes
  <2>2. QED
    BY <1>3, <2>1 DEF Inv1, LpBinding, Bound
<1>5. QED
  BY <1>1, <1>2, <1>3, <1>4 DEF AtRest, Snapshot

LEMMA CreatePairInv1 ==
  ASSUME Inv1, NEW req \in PairRequests, CreatePair(req)
  PROVE  Inv1'
<1> DEFINE infos == req.asset_infos
           k == PairKey(infos[1], infos[2])
           empty == <<[info |-> infos[1], amount |-> 0], [info |-> infos[2], amount |-> 0]>>
           config == [asset_infos |-> infos, liquidity_token |-> NoAddr,
                      track_asset_balances |-> req.track]
<1>1. StorageTypes /\ TxnTypes
  BY TypeOKIff DEF Inv1
<1>2. infos \in Assets \X Assets /\ infos[1] # infos[2] /\ req.track \in BOOLEAN
  BY PinaColadaAssumption DEF CreatePair
<1>3. k \in PairKeys /\ k # NoKey /\ k \in SUBSET Assets
  BY <1>2, KeyType, KeyShape
<1>4. /\ Idle /\ kind' = "create" /\ saved' = Snapshot
      /\ msgs' = InstantiateLpToken /\ next' = 0
      /\ path' = <<>> /\ hop' = 0 /\ amount' = 0
      /\ UNCHANGED <<recipient, deployed, supply, bal, shortfall>>
  BY DEF CreatePair, Begin, NoSwap, tokens
<1>5. /\ precisions' = precisions \cup k
      /\ balances' = IF req.track THEN [a \in Assets |-> IF a \in k THEN 0 ELSE balances[a]]
                     ELSE balances
      /\ pools' = Put(pools, k, config)
      /\ pair_balances' = Put(pair_balances, k, empty)
      /\ queued_mint' = k
  BY DEF CreatePair
<1>6. config \in Config /\ empty \in Asset \X Asset
  BY <1>2, PinaColadaAssumption DEF Config, Asset, Uint128
<1> HIDE DEF infos, k, empty, config
<1>7. /\ DOMAIN pools' = DOMAIN pools \cup {k}
      /\ pools'[k] = config
      /\ \A j \in DOMAIN pools \ {k} : pools'[j] = pools[j]
  BY <1>5 DEF Put
<1>8. /\ DOMAIN pair_balances' = DOMAIN pools'
      /\ IsBook(pair_balances')
  BY <1>1, <1>5, <1>6, <1>7 DEF StorageTypes, IsBook, Put
<1>9. balances' \in [Assets -> Uint128]
  BY <1>1, <1>5, PinaColadaAssumption DEF StorageTypes, Uint128
<1>10. StorageTypes'
  BY <1>1, <1>3, <1>4, <1>5, <1>6, <1>7, <1>8, <1>9 DEF StorageTypes
<1>11. TxnTypes'
  BY <1>1, <1>4, MessageTypes, PinaColadaAssumption
     DEF TxnTypes, InstantiateLpToken, Uint128
<1>12. AtRest(saved')
  BY <1>4, SavedAtRest
<1>13. Idle' <=> FALSE
  BY <1>4 DEF Idle
<1>14. TypeOK'
  BY <1>10, <1>11, <1>12, <1>13, TypeOKIff DEF AtRest
<1>15. SupplyIsHeld'
  BY <1>4, HeldIff DEF Inv1
<1>16. Bound(pools, deployed)
  BY <1>4, SavedAtRest DEF AtRest, Snapshot
<1>17. config.liquidity_token = NoAddr /\ NoAddr \notin deployed
  BY <1>1, PinaColadaAssumption DEF config, StorageTypes
<1>18. LpBinding'
  BY <1>4, <1>5, <1>7, <1>16, <1>17 DEF LpBinding, Bound
<1>19. CreateProtocol'
  BY <1>3, <1>4, <1>5 DEF CreateProtocol, InstantiateLpToken, Message
<1>20. QED
  BY <1>4, <1>12, <1>13, <1>14, <1>15, <1>18, <1>19 DEF Inv1, InSwapLoop

LEMMA InstantiateInv1 ==
  ASSUME Inv1, NEW l \in LpTokens, Instantiate(l)
  PROVE  Inv1'
<1> DEFINE m == Message("reply", l, PoolManager, PoolManager, 0)
<1>1. StorageTypes /\ TxnTypes
  BY TypeOKIff DEF Inv1
<1>2. /\ next < Len(msgs) /\ msgs[next + 1].op = "instantiate" /\ l \notin deployed
      /\ deployed' = deployed \cup {l} /\ msgs' = Append(msgs, m) /\ next' = next + 1
      /\ UNCHANGED <<storage, supply, bal, kind, path, hop, amount, recipient, saved, shortfall>>
  BY DEF Instantiate
<1>3. kind = "create" /\ Len(msgs) = 1 /\ next = 0 /\ queued_mint # NoKey
  <2>1. next + 1 \in 1..Len(msgs) /\ CreateProtocol
    BY <1>1, <1>2 DEF Inv1, TxnTypes
  <2>2. kind = "create"
    BY <1>2, <2>1 DEF CreateProtocol
  <2>3. ~(next = 1 /\ msgs[2].op = "reply")
    BY <1>2
  <2>4. Len(msgs) = 1 /\ next = 0 /\ queued_mint # NoKey
    BY <1>2, <2>1, <2>2, <2>3 DEF CreateProtocol
  <2>5. QED
    BY <2>2, <2>4
<1>4. m \in Messages /\ m.op = "reply" /\ m.asset = l
  BY MessageTypes DEF Message
<1> HIDE DEF m
<1>5. msgs' \in Seq(Messages) /\ Len(msgs') = 2 /\ msgs'[2] = m
  <2>1. msgs \in Seq(Messages)
    BY <1>1 DEF TxnTypes
  <2>2. msgs' \in Seq(Messages) /\ Len(msgs') = Len(msgs) + 1 /\ msgs'[Len(msgs) + 1] = m
    BY <1>2, <1>4, <2>1
  <2>3. QED
    BY <1>3, <2>2
<1>6. StorageTypes'
  BY <1>1, <1>2 DEF StorageTypes, storage
<1>7. TxnTypes'
  BY <1>1, <1>2, <1>3, <1>5 DEF TxnTypes
<1>8. ~Idle /\ ~Idle' /\ AtRest(saved) /\ saved' = saved
  BY <1>2, <1>3 DEF Inv1, Idle
<1>9. TypeOK'
  BY <1>6, <1>7, <1>8, TypeOKIff DEF AtRest
<1>10. SupplyIsHeld'
  BY <1>2, HeldIff DEF Inv1
<1>11. LpBinding'
  BY <1>2 DEF Inv1, LpBinding, storage
<1>12. CreateProtocol'
  <2>1. \A k \in DOMAIN pools : pools[k].liquidity_token # l
    BY <1>1, <1>2, PinaColadaAssumption DEF Inv1, LpBinding, StorageTypes
  <2>2. QED
    BY <1>2, <1>3, <1>4, <1>5, <2>1 DEF CreateProtocol, storage
<1>13. QED
  BY <1>2, <1>3, <1>8, <1>9, <1>10, <1>11, <1>12 DEF Inv1, InSwapLoop

LEMMA ReplyInv1 ==
  ASSUME Inv1, Reply
  PROVE  Inv1'
<1> DEFINE l == msgs[next + 1].asset
<1>1. StorageTypes /\ TxnTypes
  BY TypeOKIff DEF Inv1
<1>2. /\ next < Len(msgs) /\ msgs[next + 1].op = "reply"
      /\ queued_mint \in DOMAIN pools
      /\ pools' = [pools EXCEPT ![queued_mint].liquidity_token = l]
      /\ queued_mint' = NoKey /\ next' = next + 1
      /\ UNCHANGED <<pair_balances, balances, precisions, tokens,
                     kind, path, hop, amount, recipient, msgs, saved, shortfall>>
  BY DEF Reply
<1>3. /\ kind = "create" /\ Len(msgs) = 2 /\ next = 1 /\ queued_mint # NoKey
      /\ l \in deployed /\ \A k \in DOMAIN pools : pools[k].liquidity_token # l
  <2>1. next + 1 \in 1..Len(msgs) /\ CreateProtocol
    BY <1>1, <1>2 DEF Inv1, TxnTypes
  <2>2. kind = "create"
    BY <1>2, <2>1 DEF CreateProtocol
  <2>3. ~(next = 0 /\ msgs[1].op = "instantiate")
    BY <1>2
  <2>4. Len(msgs) = 2 /\ next = 1
    BY <1>2, <2>1, <2>2, <2>3 DEF CreateProtocol
  <2>5. QED
    BY <2>1, <2>2, <2>4 DEF CreateProtocol
<1> HIDE DEF l
<1>4. /\ DOMAIN pools' = DOMAIN pools
      /\ \A k \in DOMAIN pools \ {queued_mint} : pools'[k] = pools[k]
      /\ pools'[queued_mint] = [pools[queued_mint] EXCEPT !.liquidity_token = l]
  BY <1>2
<1>5. pools'[queued_mint] \in Config /\ pools'[queued_mint].liquidity_token = l
  BY <1>1, <1>2, <1>3, <1>4 DEF StorageTypes, Config
<1>6. StorageTypes'
  BY <1>1, <1>2, <1>4, <1>5 DEF StorageTypes, tokens
<1>7. TxnTypes'
  BY <1>1, <1>2, <1>3 DEF TxnTypes
<1>8. ~Idle /\ ~Idle' /\ AtRest(saved) /\ saved' = saved
  BY <1>2, <1>3 DEF Inv1, Idle
<1>9. TypeOK'
  BY <1>6, <1>7, <1>8, TypeOKIff DEF AtRest
<1>10. SupplyIsHeld'
  BY <1>2, HeldIff DEF Inv1, tokens
<1>11. LpBinding'
  <2>1. \A k \in DOMAIN pools : k # NoKey
    BY <1>1, KeyShape DEF StorageTypes
  <2>2. \A k \in DOMAIN pools' : pools'[k].liquidity_token \in deployed'
    BY <1>2, <1>3, <1>4, <1>5 DEF Inv1, LpBinding, tokens
  <2>3. \A j, k \in DOMAIN pools' :
          pools'[j].liquidity_token = pools'[k].liquidity_token => j = k
    BY <1>3, <1>4, <1>5 DEF Inv1, LpBinding
  <2>4. QED
    BY <1>2, <1>4, <2>1, <2>2, <2>3 DEF LpBinding
<1>12. CreateProtocol'
  BY <1>2, <1>3 DEF CreateProtocol
<1>13. QED
  BY <1>2, <1>3, <1>8, <1>9, <1>10, <1>11, <1>12 DEF Inv1, InSwapLoop

(* Track writes amounts that fit. *)
LEMMA TrackType ==
  ASSUME NEW k, NEW d, balances \in [Assets -> Uint128],
         d[1] \in Uint128, d[2] \in Uint128
  PROVE  Track(k, d) \in [Assets -> Uint128]
BY DEF Track

LEMMA FundsLedger ==
  ASSUME NEW u \in Users, NEW sent \in Asset \X Asset, bal \in Holdings,
         \A a \in Denoms : NativePart(sent, a) <= bal[u][a]
  PROVE  /\ FundsSent(bal, u, sent) \in Holdings
         /\ \A l \in LpTokens : Column(FundsSent(bal, u, sent), l) = Column(bal, l)
<1>1. sent[1] \in Asset /\ sent[2] \in Asset
  OBVIOUS
<1>2. \A a \in Assets : NativePart(sent, a) \in Nat /\ (a \notin Denoms => NativePart(sent, a) = 0)
  BY <1>1, PinaColadaAssumption DEF NativePart, Asset, Uint128
<1>3. \A a \in Assets : NativePart(sent, a) <= bal[u][a] /\ bal[u][a] \in Nat
  BY <1>2 DEF Holdings, Accounts
<1>4. \A acct \in Accounts, a \in Assets :
        FundsSent(bal, u, sent)[acct][a] \in Nat
  BY <1>2, <1>3 DEF FundsSent, Holdings
<1>5. FundsSent(bal, u, sent) \in Holdings
  BY <1>4 DEF FundsSent, Holdings
<1>6. \A l \in LpTokens : l \in Assets /\ NativePart(sent, l) = 0
  BY <1>2, PinaColadaAssumption DEF Assets
<1>7. \A l \in LpTokens, acct \in Accounts : FundsSent(bal, u, sent)[acct][l] = bal[acct][l]
  BY <1>6 DEF FundsSent, Holdings
<1>8. QED
  BY <1>5, <1>7 DEF Column

(* The messages of a deposit: transfers in and mints. *)
DepositMessages == {m \in Messages : m.op \in {"transfer_from", "mint"}}

LEMMA ProvideMessages ==
  ASSUME NEW u \in Users, NEW assets \in Asset \X Asset, NEW lp \in LpTokens,
         NEW first \in BOOLEAN, NEW to \in Accounts, NEW share \in Uint128
  PROVE  Pull(u, assets[1]) \o Pull(u, assets[2]) \o Mints(lp, first, to, share)
           \in Seq(DepositMessages)
<1>1. \A i \in {1, 2} : Pull(u, assets[i]) \in Seq(DepositMessages)
  <2> SUFFICES ASSUME NEW i \in {1, 2} PROVE Pull(u, assets[i]) \in Seq(DepositMessages)
    OBVIOUS
  <2>1. assets[i] \in Asset
    OBVIOUS
  <2>2. Message("transfer_from", assets[i].info, u, PoolManager, assets[i].amount)
          \in DepositMessages
    BY <2>1, MessageTypes DEF DepositMessages, Asset, Message
  <2> HIDE DEF DepositMessages
  <2>3. QED
    BY <2>2 DEF Pull
<1>2. Mints(lp, first, to, share) \in Seq(DepositMessages)
  <2>1. /\ Message("mint", lp, PoolManager, to, share) \in DepositMessages
        /\ Message("mint", lp, PoolManager, PoolManager, MINIMUM_LIQUIDITY_AMOUNT)
             \in DepositMessages
    <3>1. PoolManager \in Accounts /\ MINIMUM_LIQUIDITY_AMOUNT \in Uint128
      BY PinaColadaAssumption DEF Uint128, Accounts
    <3>2. \A z \in Accounts, n \in Uint128 :
            Message("mint", lp, PoolManager, z, n) \in Messages
      BY MessageTypes
    <3>3. \A z, n : Message("mint", lp, PoolManager, z, n).op = "mint"
      BY DEF Message
    <3>4. QED
      BY <3>1, <3>2, <3>3 DEF DepositMessages
  <2> DEFINE one == Message("mint", lp, PoolManager, to, share)
             lock == Message("mint", lp, PoolManager, PoolManager, MINIMUM_LIQUIDITY_AMOUNT)
  <2> HIDE DEF one, lock, DepositMessages
  <2>2. <<one>> \in Seq(DepositMessages) /\ <<lock>> \in Seq(DepositMessages)
        /\ <<>> \in Seq(DepositMessages)
    BY <2>1 DEF one, lock
  <2>3. Mints(lp, first, to, share) = (IF first THEN <<lock>> ELSE <<>>) \o <<one>>
    BY DEF Mints, one, lock
  <2>4. QED
    BY <2>2, <2>3
<1> HIDE DEF DepositMessages
<1>3. QED
  BY <1>1, <1>2

LEMMA ProvideInv1 ==
  ASSUME Inv1, NEW u \in Users, NEW sent \in Asset \X Asset, NEW to \in Receivers,
         NEW share \in CurveOutputs, ProvideLiquidity(u, sent, to, share)
  PROVE  Inv1'
<1> DEFINE k == PairKey(sent[1].info, sent[2].info)
           assets == InPoolOrder(k, sent)
           deposits == <<assets[1].amount, assets[2].amount>>
           lp == pools[k].liquidity_token
           ms == Pull(u, assets[1]) \o Pull(u, assets[2]) \o Mints(lp, supply[lp] = 0, to, share)
           tracked == [i \in 1..2 |-> pair_balances[k][i].amount + deposits[i]]
<1>1. StorageTypes /\ TxnTypes
  BY TypeOKIff DEF Inv1
<1>2. /\ Idle /\ kind' = "provide" /\ saved' = Snapshot /\ msgs' = ms /\ next' = 0
      /\ path' = <<>> /\ hop' = 0 /\ amount' = 0
      /\ UNCHANGED <<pools, precisions, queued_mint, deployed, supply,
                     recipient, shortfall>>
  BY DEF ProvideLiquidity, Begin, NoSwap
<1>3. /\ Loadable(k)
      /\ \A a \in Denoms : NativePart(sent, a) <= bal[u][a]
      /\ \A i \in 1..2 : pair_balances[k][i].amount + deposits[i] <= MaxUint
      /\ bal' = FundsSent(bal, u, sent)
      /\ pair_balances' = IncrementPair(pair_balances, k, deposits)
      /\ balances' = Track(k, tracked)
  BY DEF ProvideLiquidity
<1>4. assets \in Asset \X Asset /\ deposits \in Nat \X Nat
  BY PinaColadaAssumption DEF InPoolOrder, Asset, Uint128
<1>5. k \in DOMAIN pools /\ k \in DOMAIN pair_balances
  BY <1>1, <1>3 DEF Loadable, StorageTypes
<1>6. lp \in LpTokens
  <2>1. queued_mint = NoKey /\ k # NoKey
    BY <1>1, <1>2, <1>5, KeyShape DEF Inv1, LpBinding, Idle, StorageTypes
  <2>2. QED
    BY <1>1, <1>5, <2>1 DEF Inv1, LpBinding, StorageTypes
<1>7. ms \in Seq(DepositMessages)
  <2>1. to \in Accounts /\ share \in Uint128
    BY PinaColadaAssumption
  <2> HIDE DEF k, assets, lp
  <2>2. QED
    BY <1>4, <1>6, <2>1, ProvideMessages
<1> HIDE DEF k, assets, lp, ms, deposits
<1>8. IsBook(pair_balances') /\ DOMAIN pair_balances' = DOMAIN pair_balances
  BY <1>1, <1>3, <1>4, <1>5, IncrementFacts DEF StorageTypes, SameButAmounts
<1>9. balances' \in [Assets -> Uint128]
  <2>1. \A i \in 1..2 : pair_balances[k][i].amount \in Nat
    BY <1>1, <1>5, PinaColadaAssumption, SMTT(30) DEF StorageTypes, IsBook, Asset, Uint128
  <2>2. \A i \in 1..2 : tracked[i] = pair_balances[k][i].amount + deposits[i]
    OBVIOUS
  <2>3. \A i \in 1..2 : tracked[i] \in Uint128
    BY <1>3, <1>4, <2>1, <2>2, PinaColadaAssumption DEF Uint128
  <2> HIDE DEF tracked
  <2>4. QED
    BY <1>1, <1>3, <2>3, TrackType DEF StorageTypes
<1>10. bal' \in Holdings /\ \A l \in LpTokens : Column(bal', l) = Column(bal, l)
  BY <1>1, <1>3, FundsLedger DEF StorageTypes
<1>11. StorageTypes'
  BY <1>1, <1>2, <1>8, <1>9, <1>10 DEF StorageTypes
<1>12. ms \in Seq(Messages) /\ \A m \in 1..Len(ms) : ms[m].op \in {"transfer_from", "mint"}
  BY <1>7 DEF DepositMessages
<1>13. TxnTypes'
  BY <1>1, <1>2, <1>12, PinaColadaAssumption DEF TxnTypes, Uint128
<1>14. ~Idle' /\ AtRest(saved')
  BY <1>2, SavedAtRest DEF Idle
<1>15. TypeOK'
  BY <1>11, <1>13, <1>14, TypeOKIff DEF AtRest
<1>16. SupplyIsHeld'
  BY <1>2, <1>10, HeldIff DEF Inv1, Held
<1>17. LpBinding'
  BY <1>2 DEF Inv1, LpBinding, Idle
<1>18. CreateProtocol'
  BY <1>2, <1>12 DEF CreateProtocol
<1>19. QED
  BY <1>2, <1>14, <1>15, <1>16, <1>17, <1>18 DEF Inv1, InSwapLoop

LEMMA StartSwapInv1 ==
  ASSUME Inv1, NEW ops \in Paths, NEW n \in Amounts, NEW to \in Receivers,
         StartSwap(ops, n, to), bal' \in Holdings, Held(bal', supply),
         shortfall' \in [Assets -> 0..MaxShortfall]
  PROVE  Inv1'
<1>1. StorageTypes /\ TxnTypes
  BY TypeOKIff DEF Inv1
<1>2. /\ Idle /\ kind' = "swap" /\ saved' = Snapshot /\ msgs' = <<>> /\ next' = 0
      /\ path' = ops /\ hop' = 0 /\ amount' = n /\ recipient' = to
      /\ UNCHANGED <<storage, deployed, supply>>
  BY DEF StartSwap, Begin
<1>3. StorageTypes'
  BY <1>1, <1>2 DEF StorageTypes, storage
<1>4. ops \in Seq(SwapOperation) /\ Len(ops) \in Nat /\ n \in Uint128 /\ to \in Accounts
  BY PinaColadaAssumption
<1>5. TxnTypes'
  BY <1>2, <1>4 DEF TxnTypes
<1>6. ~Idle' /\ AtRest(saved')
  BY <1>2, SavedAtRest DEF Idle
<1>7. TypeOK'
  BY <1>3, <1>5, <1>6, TypeOKIff DEF AtRest
<1>8. SupplyIsHeld'
  BY <1>2, HeldIff
<1>9. LpBinding'
  BY <1>2 DEF Inv1, LpBinding, Idle, storage
<1>10. CreateProtocol'
  BY <1>2 DEF CreateProtocol
<1>11. QED
  BY <1>2, <1>6, <1>7, <1>8, <1>9, <1>10 DEF Inv1

LEMMA MoveHeld ==
  ASSUME Inv1, NEW from \in Accounts, NEW to \in Accounts, NEW a \in Assets,
         NEW n \in Nat, n <= bal[from][a]
  PROVE  Move(bal, from, to, a, n) \in Holdings /\ Held(Move(bal, from, to, a, n), supply)
<1>1. bal \in Holdings /\ Held(bal, supply)
  BY TypeOKIff, HeldIff DEF Inv1, StorageTypes
<1>2. LpTokens \subseteq Assets
  BY DEF Assets
<1>3. QED
  BY <1>1, <1>2, MoveLedger DEF Held

LEMMA FallsShortType ==
  ASSUME Inv1, NEW a \in Assets, NEW n \in Nat, FallsShort(a, n)
  PROVE  shortfall' \in [Assets -> 0..MaxShortfall]
<1>1. shortfall \in [Assets -> 0..MaxShortfall]
  BY TypeOKIff DEF Inv1, StorageTypes
<1>2. QED
  BY <1>1, PinaColadaAssumption DEF FallsShort

LEMMA ExecuteSwapInv1 ==
  ASSUME Inv1, NEW u \in Users, NEW ops \in Paths, NEW n \in Amounts, NEW to \in Receivers,
         ExecuteSwapOperations(u, ops, n, to)
  PROVE  Inv1'
<1>1. /\ n <= bal[u][DENOM] /\ StartSwap(ops, n, to)
      /\ bal' = Move(bal, u, PoolManager, DENOM, n) /\ shortfall' = shortfall
  BY DEF ExecuteSwapOperations
<1>2. u \in Accounts /\ PoolManager \in Accounts /\ DENOM \in Assets /\ n \in Nat
  BY PinaColadaAssumption DEF Accounts, Assets, Uint128
<1>3. bal' \in Holdings /\ Held(bal', supply)
  BY <1>1, <1>2, MoveHeld
<1>4. shortfall' \in [Assets -> 0..MaxShortfall]
  BY <1>1, TypeOKIff DEF Inv1, StorageTypes
<1>5. QED
  BY <1>1, <1>3, <1>4, StartSwapInv1

LEMMA ReceiveSwapInv1 ==
  ASSUME Inv1, NEW u \in Users, NEW t \in Cw20s \cup LpTokens, NEW ops \in Paths,
         NEW n \in Amounts, NEW to \in Receivers, ReceiveSwap(u, t, ops, n, to)
  PROVE  Inv1'
<1>1. /\ n <= bal[u][t] /\ Len(ops) > 0 /\ StartSwap(ops, n, to)
      /\ bal' = Move(bal, u, PoolManager, t, n)
      /\ IF t # ops[1].offer_asset_info THEN FallsShort(ops[1].offer_asset_info, n)
         ELSE UNCHANGED shortfall
  BY DEF ReceiveSwap
<1>2. u \in Accounts /\ PoolManager \in Accounts /\ t \in Assets /\ n \in Nat
  BY PinaColadaAssumption DEF Accounts, Assets, Uint128
<1>3. bal' \in Holdings /\ Held(bal', supply)
  BY <1>1, <1>2, MoveHeld
<1>4. ops[1].offer_asset_info \in Assets
  <2>1. ops \in Seq(SwapOperation)
    BY PinaColadaAssumption
  <2>2. ops[1] \in SwapOperation
    BY <1>1, <2>1
  <2>3. QED
    BY <2>2 DEF SwapOperation
<1>5. shortfall' \in [Assets -> 0..MaxShortfall]
  BY <1>1, <1>2, <1>4, FallsShortType, TypeOKIff DEF Inv1, StorageTypes
<1>6. QED
  BY <1>1, <1>3, <1>5, StartSwapInv1

LEMMA SwapHopInv1 ==
  ASSUME Inv1, NEW returned \in CurveOutputs, SwapHop(returned)
  PROVE  Inv1'
<1> DEFINE op == path[hop + 1]
           k == PairKey(op.offer_asset_info, op.ask_asset_info)
           i == FindAssetIndex(k, op.offer_asset_info)
           paid == Paid(op.ask_asset_info)
           pay == Message("transfer", paid, PoolManager, recipient, returned)
<1>1. StorageTypes /\ TxnTypes
  BY TypeOKIff DEF Inv1
<1>2. /\ InSwapLoop /\ Loadable(k) /\ hop' = hop + 1 /\ amount' = returned
      /\ pair_balances[k][i].amount + amount <= MaxUint
      /\ returned <= pair_balances[k][Other(i)].amount
      /\ pair_balances' = AfterSwap(pair_balances, k, i, amount, returned)
      /\ msgs' = <<pay>> \/ msgs' = <<>>
      /\ FallsShort(paid, returned) \/ UNCHANGED shortfall
      /\ UNCHANGED <<pools, balances, precisions, queued_mint, tokens,
                     kind, path, recipient, next, saved>>
  BY DEF SwapHop
<1>3. op \in SwapOperation /\ hop + 1 \in 0..Len(path) /\ kind = "swap"
  BY <1>1, <1>2 DEF InSwapLoop, TxnTypes
<1>4. k \in DOMAIN pools /\ k \in DOMAIN pair_balances /\ i \in {1, 2} /\ k \in PairKeys
  BY <1>1, <1>2 DEF Loadable, StorageTypes, FindAssetIndex
<1>5. amount \in Nat /\ returned \in Nat /\ returned \in Uint128 /\ recipient \in Accounts
  BY <1>1, PinaColadaAssumption DEF TxnTypes, Uint128
<1>6. paid \in Assets
  BY <1>3, PinaColadaAssumption DEF Paid, SwapOperation, Assets
<1>7. pay \in Messages /\ pay.op = "transfer"
  BY <1>5, <1>6, MessageTypes DEF Message
<1> HIDE DEF op, k, i, paid, pay
<1>8. IsBook(pair_balances') /\ DOMAIN pair_balances' = DOMAIN pair_balances
  BY <1>1, <1>2, <1>4, <1>5, AfterSwapFacts DEF StorageTypes, SameButAmounts
<1>9. shortfall' \in [Assets -> 0..MaxShortfall]
  BY <1>1, <1>2, <1>5, <1>6, FallsShortType DEF StorageTypes
<1>10. StorageTypes'
  BY <1>1, <1>2, <1>4, <1>8, <1>9 DEF StorageTypes, tokens
<1>11. msgs = <<>> /\ next = 0
  BY <1>1, <1>2 DEF Inv1, TxnTypes
<1>12. msgs' \in Seq(Messages) /\ Len(msgs') \in 0..1
       /\ \A m \in 1..Len(msgs') : msgs'[m].op = "transfer"
  <2>1. CASE msgs' = <<pay>>
    BY <1>7, <2>1
  <2>2. CASE msgs' = <<>>
    BY <2>2
  <2>3. QED
    BY <1>2, <2>1, <2>2
<1>13. TxnTypes'
  BY <1>1, <1>2, <1>3, <1>5, <1>11, <1>12 DEF TxnTypes
<1>14. ~Idle /\ ~Idle' /\ AtRest(saved) /\ saved' = saved
  BY <1>2, <1>3 DEF Inv1, Idle
<1>15. TypeOK'
  BY <1>10, <1>13, <1>14, TypeOKIff DEF AtRest
<1>16. SupplyIsHeld'
  BY <1>2, HeldIff DEF Inv1, tokens
<1>17. LpBinding'
  BY <1>2 DEF Inv1, LpBinding, tokens
<1>18. CreateProtocol'
  BY <1>2, <1>3, <1>12 DEF CreateProtocol
<1>19. InSwapLoop' => msgs' = <<>>
  BY <1>1, <1>2 DEF SwapHop, InSwapLoop, TxnTypes
<1>20. QED
  BY <1>14, <1>15, <1>16, <1>17, <1>18, <1>19 DEF Inv1

(* The messages of a withdrawal: two payments and a burn. *)
LEMMA WithdrawInv1 ==
  ASSUME Inv1, NEW u \in Users, NEW t \in LpTokens, NEW k \in DOMAIN pools,
         NEW n \in Amounts, WithdrawLiquidity(u, t, k, n)
  PROVE  Inv1'
<1> DEFINE pb == pair_balances[k]
           refund == [i \in 1..2 |-> ShareInAssets(pb[i].amount, n, supply[t])]
           m1 == Message("transfer", pb[1].info, PoolManager, t, refund[1])
           m2 == Message("transfer", pb[2].info, PoolManager, t, refund[2])
           m3 == Message("burn", t, PoolManager, PoolManager, n)
           tracked == [i \in 1..2 |-> pb[i].amount - refund[i]]
<1>1. StorageTypes /\ TxnTypes
  BY TypeOKIff DEF Inv1
<1>2. /\ Idle /\ kind' = "withdraw" /\ saved' = Snapshot /\ msgs' = <<m1, m2, m3>> /\ next' = 0
      /\ path' = <<>> /\ hop' = 0 /\ amount' = 0
      /\ UNCHANGED <<pools, precisions, queued_mint, deployed, supply, recipient>>
  BY DEF WithdrawLiquidity, Begin, NoSwap
<1>3. /\ n > 0 /\ n <= bal[u][t] /\ n < supply[t]
      /\ \A i \in 1..2 : n <= pb[i].amount
      /\ bal' = Move(bal, u, PoolManager, t, n)
      /\ pair_balances' = DecreasePair(pair_balances, k, <<n, n>>)
      /\ balances' = Track(k, tracked)
  BY DEF WithdrawLiquidity
<1>4. /\ shortfall' = [a \in Assets |-> shortfall[a]
                         + (CASE a = pb[1].info -> Excess(refund[1], n)
                              [] a = pb[2].info -> Excess(refund[2], n)
                              [] OTHER -> 0)]
      /\ \A i \in 1..2 : shortfall[pb[i].info] + Excess(refund[i], n) <= MaxShortfall
  BY DEF WithdrawLiquidity
<1>5. pb \in Asset \X Asset /\ \A i \in {1, 2} : pb[i] \in Asset
  BY <1>1 DEF StorageTypes, IsBook
<1>6. /\ n \in Nat /\ n \in Uint128 /\ supply[t] \in Nat
      /\ \A i \in {1, 2} : pb[i].amount \in Nat /\ pb[i].amount \in Uint128
                           /\ pb[i].info \in Assets
  BY <1>1, <1>5, PinaColadaAssumption DEF StorageTypes, Asset, Uint128
<1>7. \A i \in {1, 2} : refund[i] \in 0..pb[i].amount
  <2> SUFFICES ASSUME NEW i \in {1, 2}
               PROVE  ShareInAssets(pb[i].amount, n, supply[t]) \in 0..pb[i].amount
    OBVIOUS
  <2> HIDE DEF pb
  <2>1. QED
    BY <1>3, <1>6, ShareBound
<1> HIDE DEF pb, refund
<1>8. \A i \in {1, 2} : refund[i] \in Nat /\ refund[i] \in Uint128
                        /\ pb[i].amount - refund[i] \in Uint128
  BY <1>6, <1>7, PinaColadaAssumption, SMTT(30) DEF Uint128
<1>9. IsBook(pair_balances') /\ DOMAIN pair_balances' = DOMAIN pair_balances
  BY <1>1, <1>3, <1>6, DecreaseFacts DEF pb, StorageTypes, SameButAmounts
<1>10. balances' \in [Assets -> Uint128]
  <2>1. tracked[1] \in Uint128 /\ tracked[2] \in Uint128
    BY <1>8
  <2> HIDE DEF tracked
  <2>2. QED
    BY <1>1, <1>3, <2>1, TrackType DEF StorageTypes
<1>11. bal' \in Holdings /\ Held(bal', supply)
  <2>1. u \in Accounts /\ PoolManager \in Accounts /\ t \in Assets
    BY DEF Accounts, Assets
  <2>2. QED
    BY <1>3, <1>6, <2>1, MoveHeld
<1>12. shortfall' \in [Assets -> 0..MaxShortfall]
  <2>1. \A i \in {1, 2} : Excess(refund[i], n) \in Nat
    BY <1>6, <1>8 DEF Excess
  <2> DEFINE e1 == Excess(refund[1], n)
             e2 == Excess(refund[2], n)
  <2> HIDE DEF e1, e2
  <2>2. /\ e1 \in Nat /\ e2 \in Nat
        /\ shortfall[pb[1].info] + e1 <= MaxShortfall
        /\ shortfall[pb[2].info] + e2 <= MaxShortfall
        /\ shortfall' = [a \in Assets |-> shortfall[a]
                           + (CASE a = pb[1].info -> e1 [] a = pb[2].info -> e2 [] OTHER -> 0)]
    BY <1>4, <2>1 DEF e1, e2
  <2>3. shortfall \in [Assets -> 0..MaxShortfall]
    BY <1>1 DEF StorageTypes
  <2>4. ASSUME NEW a \in Assets
        PROVE  shortfall[a] + (CASE a = pb[1].info -> e1 [] a = pb[2].info -> e2 [] OTHER -> 0)
                 \in 0..MaxShortfall
    <3>1. shortfall[a] \in 0..MaxShortfall /\ MaxShortfall \in Nat
      BY <2>3, PinaColadaAssumption
    <3>2. CASE a = pb[1].info
      BY <2>2, <3>1, <3>2
    <3>3. CASE a # pb[1].info /\ a = pb[2].info
      BY <2>2, <3>1, <3>3
    <3>4. CASE a # pb[1].info /\ a # pb[2].info
      BY <3>1, <3>4
    <3>5. QED
      BY <3>2, <3>3, <3>4
  <2>5. QED
    BY <2>2, <2>4
<1>13. StorageTypes'
  BY <1>1, <1>2, <1>9, <1>10, <1>11, <1>12 DEF StorageTypes
<1>14. /\ m1 \in Messages /\ m1.op = "transfer" /\ m2 \in Messages /\ m2.op = "transfer"
       /\ m3 \in Messages /\ m3.op = "burn"
  <2>1. t \in Accounts /\ PoolManager \in Accounts
    BY DEF Accounts
  <2>2. QED
    BY <1>6, <1>8, <2>1, MessageTypes DEF Message
<1> HIDE DEF m1, m2, m3
<1>15. /\ msgs' \in Seq(Messages)
       /\ \A m \in 1..Len(msgs') : msgs'[m].op \in {"transfer", "burn"}
  BY <1>2, <1>14
<1>16. TxnTypes'
  BY <1>1, <1>2, <1>15, PinaColadaAssumption DEF TxnTypes, Uint128
<1>17. ~Idle' /\ AtRest(saved')
  BY <1>2, SavedAtRest DEF Idle
<1>18. TypeOK'
  BY <1>13, <1>16, <1>17, TypeOKIff DEF AtRest
<1>19. SupplyIsHeld'
  BY <1>2, <1>11, HeldIff
<1>20. LpBinding'
  BY <1>2 DEF Inv1, LpBinding, Idle
<1>21. CreateProtocol'
  BY <1>2, <1>15 DEF CreateProtocol
<1>22. QED
  BY <1>2, <1>17, <1>18, <1>19, <1>20, <1>21 DEF Inv1, InSwapLoop

(* A dispatched message changes the ledgers only. *)
LEMMA DispatchedInv1 ==
  ASSUME Inv1, Dispatched, next < Len(msgs), Current.op \notin {"instantiate", "reply"},
         bal' \in Holdings, supply' \in [LpTokens -> Uint128], Held(bal', supply')
  PROVE  Inv1'
<1>1. StorageTypes /\ TxnTypes
  BY TypeOKIff DEF Inv1
<1>2. /\ next' = next + 1
      /\ UNCHANGED <<pools, pair_balances, balances, precisions, queued_mint,
                     deployed, kind, path, hop, amount, recipient, msgs, saved, shortfall>>
  BY DEF Dispatched, storage
<1>3. next + 1 \in 1..Len(msgs)
  BY <1>1 DEF TxnTypes
<1>4. kind # "create" \/ (Len(msgs) = 2 /\ next = 2)
  BY <1>3 DEF Inv1, CreateProtocol, Current
<1>5. kind # "create"
  <2>1. ~(Len(msgs) = 2 /\ next = 2)
    <3>1. ~(2 < 2)
      OBVIOUS
    <3>2. QED
      BY <3>1
  <2>2. QED
    BY <1>4, <2>1
<1>6. ~Idle
  <2>1. msgs # <<>>
    BY <1>3
  <2>2. QED
    BY <2>1 DEF Inv1
<1>7. ~Idle' /\ AtRest(saved)
  BY <1>2, <1>6 DEF Idle, Inv1
<1>8. StorageTypes'
  BY <1>1, <1>2 DEF StorageTypes
<1>9. TxnTypes'
  BY <1>1, <1>2, <1>3 DEF TxnTypes
<1>10. TypeOK'
  BY <1>2, <1>7, <1>8, <1>9, TypeOKIff DEF AtRest
<1>11. SupplyIsHeld'
  BY HeldIff
<1>12. LpBinding'
  BY <1>2 DEF Inv1, LpBinding
<1>13. CreateProtocol'
  BY <1>2, <1>5 DEF Inv1, CreateProtocol
<1>14. QED
  BY <1>2, <1>7, <1>10, <1>11, <1>12, <1>13 DEF Inv1, InSwapLoop, Idle

LEMMA CurrentType ==
  ASSUME Inv1, next < Len(msgs)
  PROVE  Current \in Messages
<1>1. msgs \in Seq(Messages) /\ next \in 0..Len(msgs)
  BY TypeOKIff DEF Inv1, TxnTypes
<1>2. next + 1 \in 1..Len(msgs)
  BY <1>1
<1>3. QED
  BY <1>1, <1>2 DEF Current

LEMMA DispatchTransferInv1 ==
  ASSUME Inv1, DispatchTransfer
  PROVE  Inv1'
<1> DEFINE m == Current
<1>1. /\ next < Len(msgs) /\ m.op \in {"transfer", "transfer_from"}
      /\ m.amount <= bal[m.from][m.asset]
      /\ bal' = Move(bal, m.from, m.to, m.asset, m.amount)
      /\ Dispatched /\ supply' = supply
  BY DEF DispatchTransfer, Dispatching
<1>2. m \in Messages
  BY <1>1, CurrentType
<1> HIDE DEF m
<1>3. m.from \in Accounts /\ m.to \in Accounts /\ m.asset \in Assets /\ m.amount \in Nat
  BY <1>1, <1>2, PinaColadaAssumption DEF Messages, Accounts, Uint128
<1>4. bal' \in Holdings /\ Held(bal', supply')
  BY <1>1, <1>3, MoveHeld
<1>5. supply' \in [LpTokens -> Uint128]
  BY <1>1, TypeOKIff DEF Inv1, StorageTypes
<1>6. Current.op \notin {"instantiate", "reply"}
  BY <1>1 DEF m
<1>7. QED
  BY <1>1, <1>4, <1>5, <1>6, DispatchedInv1

LEMMA DispatchMintInv1 ==
  ASSUME Inv1, DispatchMint
  PROVE  Inv1'
<1> DEFINE m == Current
<1>1. /\ next < Len(msgs) /\ m.op = "mint"
      /\ supply[m.asset] + m.amount <= MaxUint
      /\ supply' = [supply EXCEPT ![m.asset] = @ + m.amount]
      /\ bal' = Credit(bal, m.to, m.asset, m.amount)
      /\ Dispatched
  BY DEF DispatchMint, Dispatching
<1>2. m \in Messages
  BY <1>1, CurrentType
<1> HIDE DEF m
<1>3. m.to \in Accounts /\ m.asset \in LpTokens /\ m.asset \in Assets /\ m.amount \in Nat
  BY <1>1, <1>2, PinaColadaAssumption DEF Messages, Assets, Uint128
<1>4. bal \in Holdings /\ supply \in [LpTokens -> Uint128] /\ Held(bal, supply)
  BY TypeOKIff, HeldIff DEF Inv1, StorageTypes
<1>5. /\ bal' \in Holdings
      /\ Total(Column(bal', m.asset)) = Total(Column(bal, m.asset)) + m.amount
      /\ \A z \in Assets \ {m.asset} : Column(bal', z) = Column(bal, z)
  BY <1>1, <1>3, <1>4, CreditLedger
<1>6. Held(bal', supply')
  <2> SUFFICES ASSUME NEW l \in LpTokens PROVE supply'[l] = Total(Column(bal', l))
    BY DEF Held
  <2>1. CASE l = m.asset
    BY <1>1, <1>3, <1>4, <1>5, <2>1 DEF Held
  <2>2. CASE l # m.asset
    BY <1>1, <1>4, <1>5, <2>2 DEF Held, Assets
  <2>3. QED
    BY <2>1, <2>2
<1>7. supply' \in [LpTokens -> Uint128]
  BY <1>1, <1>3, <1>4, PinaColadaAssumption DEF Uint128
<1>8. Current.op \notin {"instantiate", "reply"}
  BY <1>1 DEF m
<1>9. QED
  BY <1>1, <1>5, <1>6, <1>7, <1>8, DispatchedInv1

(* Burning what an account holds lowers the supply by as much, and the     *)
(* supply covers it.                                                       *)
LEMMA BurnHeld ==
  ASSUME Inv1, NEW acct \in Accounts, NEW l \in LpTokens, NEW n \in Nat, n <= bal[acct][l]
  PROVE  LET b == Debit(bal, acct, l, n)
             s == [supply EXCEPT ![l] = @ - n]
         IN b \in Holdings /\ s \in [LpTokens -> Uint128] /\ Held(b, s)
<1> DEFINE b == Debit(bal, acct, l, n)
           s == [supply EXCEPT ![l] = @ - n]
<1>1. bal \in Holdings /\ supply \in [LpTokens -> Uint128] /\ Held(bal, supply) /\ l \in Assets
  BY TypeOKIff, HeldIff DEF Inv1, StorageTypes, Assets
<1>2. /\ b \in Holdings
      /\ Total(Column(b, l)) = Total(Column(bal, l)) - n
      /\ \A z \in Assets \ {l} : Column(b, z) = Column(bal, z)
  BY <1>1, DebitLedger
<1>3. bal[acct][l] <= supply[l]
  BY <1>1, HoldingBound DEF Held
<1>4. s \in [LpTokens -> Uint128]
  <2>1. bal[acct][l] \in Nat
    BY <1>1 DEF Holdings
  <2>2. supply[l] - n \in Uint128
    BY <1>1, <1>3, <2>1, PinaColadaAssumption DEF Uint128
  <2>3. QED
    BY <1>1, <2>2
<1> HIDE DEF b
<1>5. Held(b, s)
  <2> SUFFICES ASSUME NEW z \in LpTokens PROVE s[z] = Total(Column(b, z))
    BY DEF Held
  <2>1. CASE z = l
    BY <1>1, <1>2, <2>1 DEF Held
  <2>2. CASE z # l
    BY <1>1, <1>2, <2>2 DEF Held, Assets
  <2>3. QED
    BY <2>1, <2>2
<1>6. QED
  BY <1>2, <1>4, <1>5 DEF b

LEMMA DispatchBurnInv1 ==
  ASSUME Inv1, DispatchBurn
  PROVE  Inv1'
<1> DEFINE m == Current
<1>1. /\ next < Len(msgs) /\ m.op = "burn"
      /\ m.amount <= bal[PoolManager][m.asset]
      /\ supply' = [supply EXCEPT ![m.asset] = @ - m.amount]
      /\ bal' = Debit(bal, PoolManager, m.asset, m.amount)
      /\ Dispatched
  BY DEF DispatchBurn, Dispatching
<1>2. m \in Messages
  BY <1>1, CurrentType
<1> HIDE DEF m
<1>3. m.asset \in LpTokens /\ m.amount \in Nat /\ PoolManager \in Accounts
  BY <1>1, <1>2, PinaColadaAssumption DEF Messages, Accounts, Uint128
<1>4. bal' \in Holdings /\ supply' \in [LpTokens -> Uint128] /\ Held(bal', supply')
  BY <1>1, <1>3, BurnHeld
<1>5. Current.op \notin {"instantiate", "reply"}
  BY <1>1 DEF m
<1>6. QED
  BY <1>1, <1>4, <1>5, DispatchedInv1

LEMMA EndTypes ==
  ASSUME End
  PROVE  TxnTypes' /\ Idle' /\ saved' = NoSnapshot /\ msgs' = <<>> /\ CreateProtocol'
<1>1. /\ kind' = "none" /\ saved' = NoSnapshot /\ msgs' = <<>> /\ next' = 0
      /\ path' = <<>> /\ hop' = 0 /\ amount' = 0 /\ recipient' = PoolManager
  BY DEF End, NoSwap
<1>2. TxnTypes'
  BY <1>1, PinaColadaAssumption DEF TxnTypes, Uint128, Accounts
<1>3. CreateProtocol'
  BY <1>1 DEF CreateProtocol
<1>4. QED
  BY <1>1, <1>2, <1>3 DEF Idle

(* At a commit nobody waits for an LP token any more. *)
LEMMA CommitInv1 ==
  ASSUME Inv1, Commit
  PROVE  Inv1'
<1>1. StorageTypes /\ TxnTypes
  BY TypeOKIff DEF Inv1
<1>2. End /\ next = Len(msgs) /\ UNCHANGED <<storage, tokens, shortfall>>
  BY DEF Commit
<1>3. queued_mint = NoKey
  BY <1>2 DEF Inv1, LpBinding, CreateProtocol
<1>4. StorageTypes'
  BY <1>1, <1>2 DEF StorageTypes, storage, tokens
<1>5. TypeOK'
  BY <1>2, <1>4, EndTypes, TypeOKIff
<1>6. SupplyIsHeld'
  BY <1>2, HeldIff DEF Inv1, tokens
<1>7. LpBinding'
  BY <1>2, <1>3 DEF Inv1, LpBinding, storage, tokens
<1>8. QED
  BY <1>2, <1>5, <1>6, <1>7, EndTypes DEF Inv1

LEMMA RevertInv1 ==
  ASSUME Inv1, Revert
  PROVE  Inv1'
<1>1. AtRest(saved)
  BY DEF Inv1, Revert
<1>2. /\ End
      /\ pools' = saved.pools /\ pair_balances' = saved.pair_balances
      /\ balances' = saved.balances /\ precisions' = saved.precisions
      /\ queued_mint' = saved.queued_mint
      /\ deployed' = saved.deployed /\ supply' = saved.supply /\ bal' = saved.bal
      /\ shortfall' = saved.shortfall
  BY DEF Revert
<1>3. StorageTypes'
  BY <1>1, <1>2 DEF AtRest, StorageType, StorageTypes, IsBook, Holdings
<1>4. TypeOK'
  BY <1>2, <1>3, EndTypes, TypeOKIff
<1>5. SupplyIsHeld'
  BY <1>1, <1>2, HeldIff DEF AtRest
<1>6. queued_mint' = NoKey /\ Bound(pools', deployed')
  BY <1>1, <1>2 DEF AtRest
<1>7. LpBinding'
  <2>1. \A k \in DOMAIN pools' : k # NoKey
    BY <1>3, KeyShape DEF StorageTypes
  <2>2. QED
    BY <1>6, <2>1 DEF LpBinding, Bound
<1>8. QED
  BY <1>2, <1>4, <1>5, <1>7, EndTypes DEF Inv1

(* Between transactions only the ledgers change. *)
LEMMA UserInv1 ==
  ASSUME Inv1, Idle, UNCHANGED <<storage, deployed, txn, shortfall>>,
         bal' \in Holdings, supply' \in [LpTokens -> Uint128], Held(bal', supply')
  PROVE  Inv1'
<1>1. StorageTypes /\ TxnTypes
  BY TypeOKIff DEF Inv1
<1>2. UNCHANGED <<pools, pair_balances, balances, precisions, queued_mint,
                  deployed, kind, path, hop, amount, recipient, msgs, next, saved, shortfall>>
  BY DEF storage, txn
<1>3. StorageTypes' /\ TxnTypes'
  BY <1>1, <1>2 DEF StorageTypes, TxnTypes
<1>4. Idle' /\ saved' = NoSnapshot
  BY <1>2, TypeOKIff DEF Inv1, Idle
<1>5. TypeOK'
  BY <1>3, <1>4, TypeOKIff
<1>6. LpBinding' /\ CreateProtocol'
  BY <1>2 DEF Inv1, LpBinding, CreateProtocol
<1>7. QED
  BY <1>2, <1>4, <1>5, <1>6, HeldIff DEF Inv1

LEMMA UserTransferInv1 ==
  ASSUME Inv1, NEW u \in Users, NEW to \in Receivers, NEW a \in Assets, NEW n \in Amounts,
         UserTransfer(u, to, a, n)
  PROVE  Inv1'
<1>1. /\ Idle /\ n <= bal[u][a] /\ bal' = Move(bal, u, to, a, n) /\ supply' = supply
      /\ UNCHANGED <<storage, deployed, txn, shortfall>>
  BY DEF UserTransfer
<1>2. u \in Accounts /\ to \in Accounts /\ n \in Nat
  BY PinaColadaAssumption DEF Accounts, Uint128
<1>3. bal' \in Holdings /\ Held(bal', supply')
  BY <1>1, <1>2, MoveHeld
<1>4. supply' \in [LpTokens -> Uint128]
  BY <1>1, TypeOKIff DEF Inv1, StorageTypes
<1>5. QED
  BY <1>1, <1>3, <1>4, UserInv1

LEMMA UserBurnInv1 ==
  ASSUME Inv1, NEW u \in Users, NEW l \in LpTokens, NEW n \in Amounts, UserBurn(u, l, n)
  PROVE  Inv1'
<1>1. /\ Idle /\ n <= bal[u][l] /\ bal' = Debit(bal, u, l, n)
      /\ supply' = [supply EXCEPT ![l] = @ - n]
      /\ UNCHANGED <<storage, deployed, txn, shortfall>>
  BY DEF UserBurn
<1>2. u \in Accounts /\ n \in Nat
  BY PinaColadaAssumption DEF Accounts, Uint128
<1>3. bal' \in Holdings /\ supply' \in [LpTokens -> Uint128] /\ Held(bal', supply')
  BY <1>1, <1>2, BurnHeld
<1>4. QED
  BY <1>1, <1>3, UserInv1

LEMMA CallInv1 == Inv1 /\ Call => Inv1'
<1> SUFFICES ASSUME Inv1, Call PROVE Inv1'
  OBVIOUS
<1>1. CASE \E req \in PairRequests : CreatePair(req)
  BY <1>1, CreatePairInv1
<1>2. CASE \E u \in Users, k \in DOMAIN pools, n1, n2 \in Amounts,
              to \in Receivers, share \in CurveOutputs :
             \E a, b \in k :
               /\ a # b
               /\ ProvideLiquidity(u, <<[info |-> a, amount |-> n1], [info |-> b, amount |-> n2]>>,
                                   to, share)
  <2>0. PICK u \in Users, k \in DOMAIN pools, n1 \in Amounts, n2 \in Amounts,
             to \in Receivers, share \in CurveOutputs :
               \E a, b \in k :
                 ProvideLiquidity(u, <<[info |-> a, amount |-> n1], [info |-> b, amount |-> n2]>>,
                                  to, share)
    BY <1>2
  <2>1. PICK a \in k, b \in k :
               ProvideLiquidity(u, <<[info |-> a, amount |-> n1], [info |-> b, amount |-> n2]>>,
                                to, share)
    BY <2>0
  <2>2. k \in PairKeys
    BY TypeOKIff DEF Inv1, StorageTypes
  <2>3. a \in Assets /\ b \in Assets
    BY <2>2, KeyShape
  <2>4. <<[info |-> a, amount |-> n1], [info |-> b, amount |-> n2]>> \in Asset \X Asset
    BY <2>3, PinaColadaAssumption DEF Asset
  <2>5. QED
    BY <2>1, <2>4, ProvideInv1
<1>3. CASE \E u \in Users, ops \in Paths, n \in Amounts, to \in Receivers :
             ExecuteSwapOperations(u, ops, n, to)
  BY <1>3, ExecuteSwapInv1
<1>4. CASE \E u \in Users, t \in Cw20s \cup LpTokens, ops \in Paths, n \in Amounts,
              to \in Receivers : ReceiveSwap(u, t, ops, n, to)
  BY <1>4, ReceiveSwapInv1
<1>5. CASE \E u \in Users, t \in LpTokens, k \in DOMAIN pools, n \in Amounts :
             WithdrawLiquidity(u, t, k, n)
  BY <1>5, WithdrawInv1
<1>6. QED
  BY <1>1, <1>2, <1>3, <1>4, <1>5 DEF Call

LEMMA StutterInv1 == Inv1 /\ UNCHANGED vars => Inv1'
<1> SUFFICES ASSUME Inv1, UNCHANGED vars PROVE Inv1'
  OBVIOUS
<1>1. UNCHANGED <<storage, tokens, txn, shortfall>>
  BY DEF vars
<1>2. UNCHANGED <<pools, pair_balances, balances, precisions, queued_mint,
                  deployed, supply, bal, kind, path, hop, amount, recipient, msgs, next,
                  saved, shortfall>>
  BY <1>1 DEF storage, tokens, txn
<1>3. TypeOK'
  BY <1>2, TypeOKIff DEF Inv1, StorageTypes, TxnTypes, Idle
<1>4. SupplyIsHeld' /\ LpBinding' /\ CreateProtocol'
  BY <1>2, HeldIff DEF Inv1, LpBinding, CreateProtocol
<1>5. QED
  BY <1>2, <1>3, <1>4 DEF Inv1, Idle, InSwapLoop

LEMMA NextInv1 == Inv1 /\ [Next]_vars => Inv1'
<1> SUFFICES ASSUME Inv1, [Next]_vars PROVE Inv1'
  OBVIOUS
<1>1. CASE Call
  BY <1>1, CallInv1
<1>2. CASE Run
  BY <1>2, SwapHopInv1, InstantiateInv1, ReplyInv1, DispatchTransferInv1, DispatchMintInv1,
     DispatchBurnInv1, CommitInv1, RevertInv1 DEF Run
<1>3. CASE Environment
  BY <1>3, UserTransferInv1, UserBurnInv1 DEF Environment
<1>4. CASE UNCHANGED vars
  BY <1>4, StutterInv1
<1>5. QED
  BY <1>1, <1>2, <1>3, <1>4 DEF Next

LEMMA Inv1Holds == Spec => []Inv1
<1>1. Init => Inv1
  BY InitInv1
<1>2. Inv1 /\ [Next]_vars => Inv1'
  BY NextInv1
<1>3. QED
  BY <1>1, <1>2, PTL DEF Spec

(* Every variable keeps its type at every step of every transaction, for   *)
(* any assets, accounts, amounts and bounds: reserves are never taken below *)
(* zero nor beyond Uint128, nor is a token supply.                         *)
THEOREM TypeCorrect == Spec => []TypeOK
<1>1. Inv1 => TypeOK
  BY DEF Inv1
<1>2. QED
  BY <1>1, Inv1Holds, PTL

(* A pool is without its LP token only while execute_create_pair's         *)
(* transaction waits for the reply, and no two pools share one.            *)
THEOREM LpAlwaysBound == Spec => []LpBinding
<1>1. Inv1 => LpBinding
  BY DEF Inv1
<1>2. QED
  BY <1>1, Inv1Holds, PTL
=============================================================================
