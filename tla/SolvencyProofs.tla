--------------------------- MODULE SolvencyProofs ---------------------------
(***************************************************************************)
(* The proof that the contract's account covers the books of all pools     *)
(* (Backed), for every value of the constants, and what follows for the    *)
(* supply of LP tokens.                                                    *)
(***************************************************************************)
EXTENDS PinaColadaProofs, SequenceTheorems

(* The book of all pools. *)

Slots == PairKeys \X {1, 2}
SlotAmounts(pb, a) ==
  [c \in Slots |-> IF c[1] \in DOMAIN pb /\ pb[c[1]][c[2]].info = a
                   THEN pb[c[1]][c[2]].amount ELSE 0]

LEMMA SlotsFinite == IsFiniteSet(Slots)
<1>1. IsFiniteSet(SUBSET Assets)
  BY PinaColadaAssumption, FS_SUBSET
<1>2. PairKeys \in SUBSET (SUBSET Assets)
  BY KeyShape
<1>3. IsFiniteSet(PairKeys)
  BY <1>1, <1>2, FS_Subset
<1>4. IsFiniteSet({1, 2})
  <2>1. IsFiniteSet({1})
    BY FS_Singleton
  <2>2. IsFiniteSet({1} \cup {2})
    BY <2>1, FS_AddElement
  <2>3. {1} \cup {2} = {1, 2}
    OBVIOUS
  <2>4. QED
    BY <2>2, <2>3
<1>5. QED
  BY <1>3, <1>4, FS_Product DEF Slots

LEMMA BookType ==
  ASSUME NEW pb, IsBook(pb), NEW a
  PROVE  /\ SlotAmounts(pb, a) \in [Slots -> Nat]
         /\ Book(pb, a) = Total(SlotAmounts(pb, a))
         /\ Book(pb, a) \in Nat
<1>1. SlotAmounts(pb, a) \in [Slots -> Nat]
  <2> SUFFICES ASSUME NEW c \in Slots, c[1] \in DOMAIN pb
               PROVE  pb[c[1]][c[2]].amount \in Nat
    BY DEF SlotAmounts
  <2>1. pb[c[1]] \in Asset \X Asset /\ c[2] \in {1, 2}
    BY DEF IsBook, Slots
  <2>2. pb[c[1]][c[2]] \in Asset
    BY <2>1
  <2>3. QED
    BY <2>2, PinaColadaAssumption DEF Asset, Uint128
<1>2. Book(pb, a) = Total(SlotAmounts(pb, a))
  BY DEF Book, SlotAmounts, Slots
<1>3. QED
  BY <1>1, <1>2, TotalType, SlotsFinite

(* What a change of the amounts under key k does to the book of asset a. *)
Gain(pb, qb, k, i, a) ==
  IF pb[k][i].info = a THEN qb[k][i].amount - pb[k][i].amount ELSE 0

LEMMA BookChange ==
  ASSUME NEW pb, NEW qb, IsBook(pb), IsBook(qb), NEW k \in PairKeys, k \in DOMAIN pb,
         SameButAmounts(pb, qb, k), NEW a
  PROVE  Book(qb, a) = Book(pb, a) + Gain(pb, qb, k, 1, a) + Gain(pb, qb, k, 2, a)
<1> DEFINE f == SlotAmounts(pb, a)
           h == SlotAmounts(qb, a)
           s == <<k, 1>>
           t == <<k, 2>>
           g == [f EXCEPT ![s] = h[s]]
<1>1. f \in [Slots -> Nat] /\ h \in [Slots -> Nat] /\ Total(f) \in Nat
      /\ Book(pb, a) = Total(f) /\ Book(qb, a) = Total(h)
  BY BookType
<1>2. s \in Slots /\ t \in Slots /\ s # t
  BY DEF Slots
<1>3. h[s] \in Nat /\ g \in [Slots -> Nat] /\ g[s] = h[s]
      /\ \A c \in Slots \ {s} : g[c] = f[c]
  BY <1>1, <1>2
<1>4. \A c \in Slots \ {s, t} : f[c] = h[c]
  <2> SUFFICES ASSUME NEW c \in Slots, c # s, c # t PROVE f[c] = h[c]
    OBVIOUS
  <2>1. c[1] # k
    BY DEF Slots
  <2>2. c[1] \in DOMAIN qb <=> c[1] \in DOMAIN pb
    BY DEF SameButAmounts
  <2>3. c[1] \in DOMAIN pb => qb[c[1]] = pb[c[1]]
    BY <2>1 DEF SameButAmounts
  <2>4. QED
    BY <2>2, <2>3 DEF SlotAmounts
<1>5. \A i \in {1, 2} : qb[k][i].info = pb[k][i].info /\ k \in DOMAIN qb
  BY DEF SameButAmounts
<1>6. \A i \in {1, 2} : pb[k][i].amount \in Nat /\ qb[k][i].amount \in Nat
  <2>1. pb[k] \in Asset \X Asset /\ qb[k] \in Asset \X Asset
    BY <1>5 DEF IsBook
  <2>2. \A i \in {1, 2} : pb[k][i] \in Asset /\ qb[k][i] \in Asset
    BY <2>1
  <2>3. QED
    BY <2>2, PinaColadaAssumption DEF Asset, Uint128
<1>7. /\ f[s] = IF pb[k][1].info = a THEN pb[k][1].amount ELSE 0
      /\ f[t] = IF pb[k][2].info = a THEN pb[k][2].amount ELSE 0
      /\ h[s] = IF pb[k][1].info = a THEN qb[k][1].amount ELSE 0
      /\ h[t] = IF pb[k][2].info = a THEN qb[k][2].amount ELSE 0
  BY <1>2, <1>5 DEF SlotAmounts
<1> HIDE DEF f, h, s, t, g
<1>8. Total(g) = Total(f) - f[s] + g[s]
  <2>1. \A c \in Slots \ {s} : f[c] = g[c]
    BY <1>3
  <2>2. QED
    BY <1>1, <1>2, <1>3, <2>1, TotalUpdate, SlotsFinite
<1>9. Total(h) = Total(g) - g[t] + h[t]
  <2>1. \A c \in Slots \ {t} : g[c] = h[c]
    BY <1>2, <1>3, <1>4
  <2>2. QED
    BY <1>1, <1>2, <1>3, <2>1, TotalUpdate, SlotsFinite
<1>10. g[t] = f[t] /\ g[s] = h[s] /\ Total(g) \in Nat
  BY <1>2, <1>3, TotalType, SlotsFinite
<1>11. h[s] - f[s] = Gain(pb, qb, k, 1, a) /\ h[t] - f[t] = Gain(pb, qb, k, 2, a)
  BY <1>6, <1>7 DEF Gain
<1>12. f[s] \in Nat /\ f[t] \in Nat /\ h[s] \in Nat /\ h[t] \in Nat
  BY <1>1, <1>2
<1>13. QED
  BY <1>1, <1>8, <1>9, <1>10, <1>11, <1>12

(* Writing an empty entry, new or over an old one, adds nothing to the book. *)
LEMMA BookOfEmpty ==
  ASSUME NEW pb, IsBook(pb), NEW k \in PairKeys, NEW e \in Asset \X Asset,
         \A i \in {1, 2} : e[i].amount = 0, NEW a
  PROVE  Book(Put(pb, k, e), a) <= Book(pb, a)
<1> DEFINE qb == Put(pb, k, e)
           f == SlotAmounts(pb, a)
           h == SlotAmounts(qb, a)
<1>1. DOMAIN qb = DOMAIN pb \cup {k} /\ \A c \in DOMAIN qb : qb[c] = IF c = k THEN e ELSE pb[c]
  BY DEF Put
<1> HIDE DEF qb
<1>2. IsBook(qb)
  BY <1>1 DEF IsBook
<1>3. /\ f \in [Slots -> Nat] /\ h \in [Slots -> Nat]
      /\ Book(pb, a) = Total(f) /\ Book(qb, a) = Total(h)
  BY <1>2, BookType
<1>4. \A c \in Slots : h[c] <= f[c]
  <2> SUFFICES ASSUME NEW c \in Slots PROVE h[c] <= f[c]
    OBVIOUS
  <2>1. CASE c[1] = k
    <3>1. c[2] \in {1, 2} /\ qb[k] = e /\ k \in DOMAIN qb
      BY <1>1 DEF Slots
    <3>2. h[c] = 0
      BY <2>1, <3>1 DEF SlotAmounts
    <3>3. f[c] \in Nat
      BY <1>3
    <3>4. QED
      BY <3>2, <3>3
  <2>2. CASE c[1] # k
    <3>1. h[c] = f[c]
      BY <1>1, <2>2 DEF SlotAmounts
    <3>2. f[c] \in Nat
      BY <1>3
    <3>3. QED
      BY <3>1, <3>2
  <2>3. QED
    BY <2>1, <2>2
<1> HIDE DEF f, h
<1>5. Total(h) <= Total(f)
  BY <1>3, <1>4, TotalMonotone, SlotsFinite
<1>6. QED
  BY <1>3, <1>5 DEF qb
-----------------------------------------------------------------------------
(* What is still to be dispatched. *)

ToCome(q, n, ops, a) ==
  [m \in 1..Len(q) |-> IF m > n /\ q[m].op \in ops /\ q[m].asset = a
                       THEN q[m].amount ELSE 0]

LEMMA PendingIs ==
  /\ \A ops, a : Pending(ops, a) = Total(ToCome(msgs, next, ops, a))
  /\ \A ops, a : Pending(ops, a)' = Total(ToCome(msgs', next', ops, a))
BY DEF Pending, ToCome

LEMMA ToComeType ==
  ASSUME NEW q \in Seq(Messages), NEW n \in Nat, NEW ops, NEW a
  PROVE  /\ ToCome(q, n, ops, a) \in [1..Len(q) -> Nat]
         /\ Total(ToCome(q, n, ops, a)) \in Nat
<1>1. Len(q) \in Nat /\ IsFiniteSet(1..Len(q))
  BY FS_Interval
<1>2. \A m \in 1..Len(q) : q[m].amount \in Nat
  <2> SUFFICES ASSUME NEW m \in 1..Len(q) PROVE q[m].amount \in Nat
    OBVIOUS
  <2>1. q[m] \in Messages
    OBVIOUS
  <2>2. QED
    BY <2>1, PinaColadaAssumption DEF Messages, Uint128
<1>3. ToCome(q, n, ops, a) \in [1..Len(q) -> Nat]
  BY <1>2 DEF ToCome
<1>4. QED
  BY <1>1, <1>3, TotalType

(* Messages of other kinds do not count. *)
LEMMA NothingToCome ==
  ASSUME NEW q \in Seq(Messages), NEW n \in Nat, NEW ops, NEW a,
         \A m \in 1..Len(q) : m > n => q[m].op \notin ops
  PROVE  Total(ToCome(q, n, ops, a)) = 0
<1>1. \A m \in 1..Len(q) : ToCome(q, n, ops, a)[m] = 0
  BY DEF ToCome
<1>2. ToCome(q, n, ops, a) \in [1..Len(q) -> Nat]
  BY ToComeType
<1>3. QED
  BY <1>1, <1>2, TotalZero

Counted(m, ops, a) == IF m.op \in ops /\ m.asset = a THEN m.amount ELSE 0

(* Dispatching a message takes it off what is to come. *)
LEMMA Dispatching1 ==
  ASSUME NEW q \in Seq(Messages), NEW n \in Nat, n < Len(q), NEW ops, NEW a
  PROVE  /\ Total(ToCome(q, n + 1, ops, a))
              = Total(ToCome(q, n, ops, a)) - Counted(q[n + 1], ops, a)
         /\ Counted(q[n + 1], ops, a) \in Nat
<1> DEFINE f == ToCome(q, n, ops, a)
           g == ToCome(q, n + 1, ops, a)
           S == 1..Len(q)
<1>1. /\ f \in [S -> Nat] /\ g \in [S -> Nat] /\ Total(f) \in Nat
      /\ IsFiniteSet(S) /\ n + 1 \in S
  <2>1. Len(q) \in Nat /\ n + 1 \in Nat /\ n + 1 \in S
    OBVIOUS
  <2>2. IsFiniteSet(S)
    BY <2>1, FS_Interval
  <2>3. f \in [S -> Nat] /\ Total(f) \in Nat
    BY ToComeType
  <2>4. g \in [S -> Nat]
    BY <2>1, ToComeType
  <2>5. QED
    BY <2>1, <2>2, <2>3, <2>4
<1>2. \A m \in S \ {n + 1} : f[m] = g[m]
  BY DEF ToCome
<1>3. g[n + 1] = 0 /\ f[n + 1] = Counted(q[n + 1], ops, a)
  BY <1>1 DEF ToCome, Counted
<1> HIDE DEF f, g, S
<1>4. Total(g) = Total(f) - f[n + 1] + g[n + 1]
  BY <1>1, <1>2, TotalUpdate
<1>5. f[n + 1] \in Nat
  BY <1>1
<1>6. QED
  BY <1>1, <1>3, <1>4, <1>5 DEF f, g

(* A message that is to come counts in full. *)
LEMMA AtLeastOne ==
  ASSUME NEW q \in Seq(Messages), NEW n \in Nat, NEW ops, NEW a, NEW m \in 1..Len(q),
         m > n
  PROVE  Counted(q[m], ops, a) <= Total(ToCome(q, n, ops, a))
<1> DEFINE f == ToCome(q, n, ops, a)
           S == 1..Len(q)
           g == [f EXCEPT ![m] = 0]
<1>1. f \in [S -> Nat] /\ g \in [S -> Nat] /\ IsFiniteSet(S) /\ m \in S
  <2>1. Len(q) \in Nat /\ m \in S
    OBVIOUS
  <2>2. IsFiniteSet(S)
    BY <2>1, FS_Interval
  <2>3. f \in [S -> Nat]
    BY ToComeType
  <2>4. g \in [S -> Nat]
    BY <2>3
  <2>5. QED
    BY <2>1, <2>2, <2>3, <2>4
<1>2. f[m] = Counted(q[m], ops, a) /\ g[m] = 0 /\ f[m] \in Nat
  BY <1>1 DEF ToCome, Counted
<1>3. \A j \in S \ {m} : f[j] = g[j]
  BY <1>1
<1> HIDE DEF f, g, S
<1>4. Total(g) = Total(f) - f[m] + g[m]
  BY <1>1, <1>3, TotalUpdate
<1>5. Total(f) \in Nat /\ Total(g) \in Nat
  BY <1>1, TotalType
<1>6. QED
  BY <1>2, <1>4, <1>5 DEF f

(* One message, and three. *)
LEMMA OneToCome ==
  ASSUME NEW q \in Seq(Messages), Len(q) = 1, NEW ops, NEW a
  PROVE  Total(ToCome(q, 0, ops, a)) = Counted(q[1], ops, a)
<1>1. Total(ToCome(q, 1, ops, a)) = Total(ToCome(q, 0, ops, a)) - Counted(q[1], ops, a)
      /\ Counted(q[1], ops, a) \in Nat
  BY Dispatching1, 0 + 1 = 1
<1>2. Total(ToCome(q, 1, ops, a)) = 0
  BY NothingToCome
<1>3. Total(ToCome(q, 0, ops, a)) \in Nat
  BY ToComeType
<1>4. QED
  BY <1>1, <1>2, <1>3

LEMMA ThreeToCome ==
  ASSUME NEW q \in Seq(Messages), Len(q) = 3, NEW ops, NEW a
  PROVE  Total(ToCome(q, 0, ops, a))
           = Counted(q[1], ops, a) + Counted(q[2], ops, a) + Counted(q[3], ops, a)
<1>1. Total(ToCome(q, 1, ops, a)) = Total(ToCome(q, 0, ops, a)) - Counted(q[1], ops, a)
      /\ Counted(q[1], ops, a) \in Nat
  BY Dispatching1, 0 + 1 = 1
<1>2. Total(ToCome(q, 2, ops, a)) = Total(ToCome(q, 1, ops, a)) - Counted(q[2], ops, a)
      /\ Counted(q[2], ops, a) \in Nat
  BY Dispatching1, 1 + 1 = 2
<1>3. Total(ToCome(q, 3, ops, a)) = Total(ToCome(q, 2, ops, a)) - Counted(q[3], ops, a)
      /\ Counted(q[3], ops, a) \in Nat
  <2>1. 2 \in Nat /\ 2 < Len(q) /\ 2 + 1 = 3
    OBVIOUS
  <2>2. /\ Total(ToCome(q, 2 + 1, ops, a))
             = Total(ToCome(q, 2, ops, a)) - Counted(q[2 + 1], ops, a)
        /\ Counted(q[2 + 1], ops, a) \in Nat
    BY <2>1, Dispatching1
  <2>3. QED
    BY <2>1, <2>2
<1>4. Total(ToCome(q, 3, ops, a)) = 0
  BY NothingToCome
<1>5. Total(ToCome(q, 0, ops, a)) \in Nat /\ Total(ToCome(q, 1, ops, a)) \in Nat
      /\ Total(ToCome(q, 2, ops, a)) \in Nat
  BY ToComeType
<1>6. QED
  BY <1>1, <1>2, <1>3, <1>4, <1>5, SMTT(30)
-----------------------------------------------------------------------------
(* The inductive invariant of Backed. *)

(* A pool's entry holds the two assets of its key. *)
PoolsOK(pb) ==
  \A k \in DOMAIN pb : k = {pb[k][1].info, pb[k][2].info} /\ pb[k][1].info # pb[k][2].info

PathOK == kind = "swap" => ValidOperations(path)

(* The messages a transaction of each kind sends. *)
Kinds(k) == CASE k = "provide"  -> {"transfer_from", "mint"}
              [] k = "swap"     -> {"transfer"}
              [] k = "withdraw" -> {"transfer", "burn"}
              [] OTHER          -> {"instantiate", "reply"}
MessageKinds == \A m \in 1..Len(msgs) : msgs[m].op \in Kinds(kind)

(* The minimum liquidity is minted to the contract before anything else of *)
(* a new LP token.                                                         *)
Locks(msg, l) ==
  /\ msg.op = "mint" /\ msg.asset = l
  /\ msg.to = PoolManager /\ msg.amount = MINIMUM_LIQUIDITY_AMOUNT
LockFirst ==
  \A m \in 1..Len(msgs) :
    m > next /\ msgs[m].op = "mint" /\ supply[msgs[m].asset] = 0 =>
      \E j \in 1..m : j > next /\ Locks(msgs[j], msgs[m].asset)

LockedIn(s, a) == IF a \in LpTokens /\ s[a] > 0 THEN MINIMUM_LIQUIDITY_AMOUNT ELSE 0

(* Backed, between transactions *)
RestBacked(st) ==
  \A a \in Assets :
    st.bal[PoolManager][a] + st.shortfall[a] >= Book(st.pair_balances, a) + LockedIn(st.supply, a)

Inv2 ==
  /\ Inv1
  /\ PoolsOK(pair_balances)
  /\ PathOK
  /\ MessageKinds
  /\ LockFirst
  /\ Backed
  /\ ~Idle => PoolsOK(saved.pair_balances) /\ RestBacked(saved)

In(a) == Pending({"transfer_from"}, a)
Out(a) == Pending({"transfer", "burn"}, a)

Parts ==
  \A a \in Assets :
    /\ bal[PoolManager][a] \in Nat /\ shortfall[a] \in Nat
    /\ Book(pair_balances, a) \in Nat /\ Locked(a) \in Nat /\ InHop(a) \in Nat
    /\ In(a) \in Nat /\ Out(a) \in Nat

LEMMA PartTypes == Inv1 => Parts
<1> SUFFICES ASSUME Inv1, NEW a \in Assets
             PROVE  /\ bal[PoolManager][a] \in Nat /\ shortfall[a] \in Nat
                    /\ Book(pair_balances, a) \in Nat /\ Locked(a) \in Nat /\ InHop(a) \in Nat
                    /\ In(a) \in Nat /\ Out(a) \in Nat
  BY DEF Parts
<1>1. StorageTypes /\ TxnTypes
  BY TypeOKIff DEF Inv1
<1>2. bal[PoolManager][a] \in Nat /\ shortfall[a] \in Nat
  BY <1>1, PinaColadaAssumption DEF StorageTypes, Holdings, Accounts
<1>3. Book(pair_balances, a) \in Nat
  BY <1>1, BookType DEF StorageTypes
<1>4. Locked(a) \in Nat
  BY PinaColadaAssumption DEF Locked
<1>5. InHop(a) \in Nat
  BY <1>1, PinaColadaAssumption DEF InHop, TxnTypes, Uint128
<1>6. msgs \in Seq(Messages) /\ next \in Nat
  BY <1>1 DEF TxnTypes
<1>7. In(a) \in Nat /\ Out(a) \in Nat
  BY <1>6, PendingIs, ToComeType DEF In, Out
<1>8. QED
  BY <1>2, <1>3, <1>4, <1>5, <1>7

LEMMA PartTypesNext == Inv1' => Parts'
BY PartTypes, PTL

(* Backed with its terms named. *)
LEMMA BackedIff ==
  /\ Backed <=> \A a \in Assets :
       bal[PoolManager][a] + In(a) + shortfall[a]
         >= Book(pair_balances, a) + Locked(a) + Out(a) + InHop(a)
  /\ Backed' <=> \A a \in Assets :
       bal'[PoolManager][a] + In(a)' + shortfall'[a]
         >= Book(pair_balances', a) + Locked(a)' + Out(a)' + InHop(a)'
BY DEF Backed, In, Out, Book

LEMMA LockedIff ==
  \A a : Locked(a) = LockedIn(supply, a) /\ Locked(a)' = LockedIn(supply', a)
BY DEF Locked, LockedIn

(* Without messages nothing is to come. *)
LEMMA NoMessages ==
  /\ msgs = <<>> /\ next = 0 => \A a : In(a) = 0 /\ Out(a) = 0
  /\ msgs' = <<>> /\ next' = 0 => \A a : In(a)' = 0 /\ Out(a)' = 0
<1>1. \A ops, a : Total(ToCome(<<>>, 0, ops, a)) = 0
  <2> TAKE ops, a
  <2> DEFINE q == <<>>
  <2>1. q \in Seq(Messages) /\ \A m \in 1..Len(q) : FALSE
    OBVIOUS
  <2> HIDE DEF q
  <2>2. Total(ToCome(q, 0, ops, a)) = 0
    BY <2>1, NothingToCome
  <2>3. QED
    BY <2>2 DEF q
<1>2. QED
  BY <1>1, PendingIs DEF In, Out

LEMMA IdleParts ==
  ASSUME Inv1, Idle
  PROVE  \A a \in Assets : In(a) = 0 /\ Out(a) = 0 /\ InHop(a) = 0
<1>1. msgs = <<>> /\ next = 0
  BY TypeOKIff DEF Inv1, TxnTypes
<1>2. ~InSwapLoop
  BY DEF Idle, InSwapLoop
<1>3. QED
  BY <1>1, <1>2, NoMessages DEF InHop

LEMMA SavedBacked ==
  ASSUME Inv2, Idle, saved' = Snapshot
  PROVE  PoolsOK(saved'.pair_balances) /\ RestBacked(saved')
<1>1. PoolsOK(saved'.pair_balances)
  BY DEF Inv2, Snapshot
<1>2. RestBacked(Snapshot)
  <2> SUFFICES ASSUME NEW a \in Assets
               PROVE  bal[PoolManager][a] + shortfall[a]
                        >= Book(pair_balances, a) + LockedIn(supply, a)
    BY DEF RestBacked, Snapshot
  <2>1. In(a) = 0 /\ Out(a) = 0 /\ InHop(a) = 0
    BY IdleParts DEF Inv2
  <2>2. bal[PoolManager][a] + In(a) + shortfall[a]
          >= Book(pair_balances, a) + Locked(a) + Out(a) + InHop(a)
    BY BackedIff DEF Inv2
  <2>3. Parts
    BY PartTypes DEF Inv2
  <2>4. QED
    BY <2>1, <2>2, <2>3, LockedIff DEF Parts
<1>3. QED
  BY <1>1, <1>2

LEMMA SamePools ==
  ASSUME NEW pb, NEW qb, NEW k \in DOMAIN pb, SameButAmounts(pb, qb, k), PoolsOK(pb)
  PROVE  PoolsOK(qb)
<1> SUFFICES ASSUME NEW j \in DOMAIN qb
             PROVE  j = {qb[j][1].info, qb[j][2].info} /\ qb[j][1].info # qb[j][2].info
  BY DEF PoolsOK
<1>1. j \in DOMAIN pb /\ \A i \in {1, 2} : qb[j][i].info = pb[j][i].info
  BY DEF SameButAmounts
<1>2. QED
  BY <1>1 DEF PoolsOK

(* What a transfer does to each holding. *)
LEMMA MoveEffect ==
  ASSUME NEW b \in Holdings, NEW from \in Accounts, NEW to \in Accounts, NEW a \in Assets,
         NEW n \in Nat, n <= b[from][a], NEW w \in Accounts, NEW z \in Assets
  PROVE  Move(b, from, to, a, n)[w][z]
           = b[w][z] - (IF w = from /\ z = a THEN n ELSE 0) + (IF w = to /\ z = a THEN n ELSE 0)
<1> DEFINE d == Debit(b, from, a, n)
<1>1. d \in Holdings
  BY DebitLedger
<1>2. d[w][z] = b[w][z] - (IF w = from /\ z = a THEN n ELSE 0)
  BY DEF Debit, Holdings
<1> HIDE DEF d
<1>3. Credit(d, to, a, n)[w][z] = d[w][z] + (IF w = to /\ z = a THEN n ELSE 0)
  BY <1>1 DEF Credit, Holdings
<1>4. QED
  BY <1>2, <1>3 DEF Move, d

LEMMA InitInv2 == Init => Inv2
<1> SUFFICES ASSUME Init PROVE Inv2
  OBVIOUS
<1>1. Inv1
  BY InitInv1
<1>2. PoolsOK(pair_balances) /\ PathOK /\ MessageKinds /\ LockFirst /\ Idle
  BY DEF Init, PoolsOK, PathOK, MessageKinds, LockFirst, Idle
<1>3. Backed
  <2> SUFFICES ASSUME NEW a \in Assets
               PROVE  bal[PoolManager][a] + In(a) + shortfall[a]
                        >= Book(pair_balances, a) + Locked(a) + Out(a) + InHop(a)
    BY BackedIff
  <2>1. In(a) = 0 /\ Out(a) = 0 /\ InHop(a) = 0
    BY <1>1, <1>2, IdleParts
  <2>2. Book(pair_balances, a) = 0
    <3>1. IsBook(pair_balances) /\ DOMAIN pair_balances = {}
      BY DEF Init, IsBook
    <3>2. \A c \in Slots : SlotAmounts(pair_balances, a)[c] = 0
      BY <3>1 DEF SlotAmounts
    <3>3. QED
      BY <3>1, <3>2, BookType, TotalZero
  <2>3. Locked(a) = 0
    BY DEF Init, Locked
  <2>4. Parts
    BY <1>1, PartTypes
  <2>5. QED
    BY <2>1, <2>2, <2>3, <2>4 DEF Parts
<1>4. QED
  BY <1>1, <1>2, <1>3 DEF Inv2
-----------------------------------------------------------------------------
(* One lemma per action. *)

LEMMA CreatePairInv2 ==
  ASSUME Inv2, Inv1', NEW req \in PairRequests, CreatePair(req)
  PROVE  Inv2'
<1> DEFINE infos == req.asset_infos
           k == PairKey(infos[1], infos[2])
           empty == <<[info |-> infos[1], amount |-> 0], [info |-> infos[2], amount |-> 0]>>
<1>1. StorageTypes /\ Inv1
  BY TypeOKIff DEF Inv1, Inv2
<1>2. infos \in Assets \X Assets /\ infos[1] # infos[2]
  BY PinaColadaAssumption DEF CreatePair
<1>3. k \in PairKeys /\ k = {infos[1], infos[2]}
  BY <1>2, KeyType DEF PairKey
<1>4. /\ Idle /\ kind' = "create" /\ saved' = Snapshot
      /\ msgs' = InstantiateLpToken /\ next' = 0
      /\ UNCHANGED <<supply, bal, shortfall>>
      /\ pair_balances' = Put(pair_balances, k, empty)
  BY DEF CreatePair, Begin, tokens
<1>5. /\ empty \in Asset \X Asset
      /\ empty[1].info = infos[1] /\ empty[2].info = infos[2]
      /\ \A i \in {1, 2} : empty[i].amount = 0
  BY <1>2, PinaColadaAssumption DEF Asset, Uint128
<1> HIDE DEF infos, k, empty
<1>6. PoolsOK(pair_balances')
  <2> SUFFICES ASSUME NEW j \in DOMAIN pair_balances'
               PROVE  /\ j = {pair_balances'[j][1].info, pair_balances'[j][2].info}
                      /\ pair_balances'[j][1].info # pair_balances'[j][2].info
    BY DEF PoolsOK
  <2>1. pair_balances'[j] = (IF j = k THEN empty ELSE pair_balances[j])
        /\ (j = k \/ j \in DOMAIN pair_balances)
    BY <1>4 DEF Put
  <2>2. CASE j = k
    BY <1>2, <1>3, <1>5, <2>1, <2>2
  <2>3. CASE j # k
    BY <2>1, <2>3 DEF Inv2, PoolsOK
  <2>4. QED
    BY <2>2, <2>3
<1>7. Len(msgs') = 1 /\ msgs'[1].op = "instantiate"
  BY <1>4 DEF InstantiateLpToken, Message
<1>8. MessageKinds' /\ LockFirst' /\ PathOK'
  BY <1>4, <1>7 DEF MessageKinds, Kinds, LockFirst, PathOK
<1>9. Backed'
  <2> SUFFICES ASSUME NEW a \in Assets
               PROVE  bal'[PoolManager][a] + In(a)' + shortfall'[a]
                        >= Book(pair_balances', a) + Locked(a)' + Out(a)' + InHop(a)'
    BY BackedIff
  <2>1. bal[PoolManager][a] + In(a) + shortfall[a]
          >= Book(pair_balances, a) + Locked(a) + Out(a) + InHop(a)
    BY BackedIff DEF Inv2
  <2>2. In(a) = 0 /\ Out(a) = 0 /\ InHop(a) = 0
    BY <1>1, <1>4, IdleParts
  <2>3. Book(pair_balances', a) <= Book(pair_balances, a)
    BY <1>1, <1>3, <1>4, <1>5, BookOfEmpty DEF StorageTypes
  <2>4. In(a)' = 0 /\ Out(a)' = 0
    <3>1. msgs' \in Seq(Messages)
      BY TypeOKIff DEF Inv1, TxnTypes
    <3>2. QED
      BY <1>4, <1>7, <3>1, PendingIs, NothingToCome DEF In, Out
  <2>5. InHop(a)' = 0 /\ Locked(a)' = Locked(a)
    BY <1>4 DEF InHop, InSwapLoop, Locked
  <2>6. Parts /\ Parts'
    BY <1>1, PartTypes, PartTypesNext
  <2>7. QED
    BY <1>4, <2>1, <2>2, <2>3, <2>4, <2>5, <2>6 DEF Parts
<1>10. QED
  BY <1>4, <1>6, <1>8, <1>9, SavedBacked DEF Inv2

(* While a pool is created nothing is to come. *)
LEMMA CreateParts ==
  ASSUME Inv1, MessageKinds, kind = "create"
  PROVE  \A a \in Assets : In(a) = 0 /\ Out(a) = 0 /\ InHop(a) = 0
<1>1. msgs \in Seq(Messages) /\ next \in Nat
  BY TypeOKIff DEF Inv1, TxnTypes
<1>2. \A m \in 1..Len(msgs) : msgs[m].op \in {"instantiate", "reply"}
  BY DEF MessageKinds, Kinds
<1>3. \A a \in Assets : In(a) = 0 /\ Out(a) = 0
  BY <1>1, <1>2, PendingIs, NothingToCome DEF In, Out
<1>4. QED
  BY <1>3 DEF InHop, InSwapLoop

LEMMA CreatePartsNext ==
  ASSUME Inv1', MessageKinds', kind' = "create"
  PROVE  \A a \in Assets : In(a)' = 0 /\ Out(a)' = 0 /\ InHop(a)' = 0
<1>1. msgs' \in Seq(Messages) /\ next' \in Nat
  BY TypeOKIff DEF Inv1, TxnTypes
<1>2. \A m \in 1..Len(msgs') : msgs'[m].op \in {"instantiate", "reply"}
  BY DEF MessageKinds, Kinds
<1>3. \A a \in Assets : In(a)' = 0 /\ Out(a)' = 0
  BY <1>1, <1>2, PendingIs, NothingToCome DEF In, Out
<1>4. QED
  BY <1>3 DEF InHop, InSwapLoop

(* The steps of a creation after the handler's touch neither the account   *)
(* nor the book.                                                           *)
LEMMA CreationInv2 ==
  ASSUME Inv2, Inv1', kind = "create", MessageKinds',
         \A m \in 1..Len(msgs') : msgs'[m].op # "mint",
         UNCHANGED <<pair_balances, supply, bal, kind, saved, shortfall>>
  PROVE  Inv2'
<1>1. \A a \in Assets : In(a) = 0 /\ Out(a) = 0 /\ InHop(a) = 0
  BY CreateParts DEF Inv2
<1>2. \A a \in Assets : In(a)' = 0 /\ Out(a)' = 0 /\ InHop(a)' = 0
  BY CreatePartsNext
<1>3. \A a : Locked(a)' = Locked(a)
  BY DEF Locked
<1>4. Backed'
  BY <1>1, <1>2, <1>3, BackedIff DEF Inv2
<1>5. LockFirst' /\ PathOK'
  BY DEF LockFirst, PathOK
<1>6. QED
  BY <1>4, <1>5 DEF Inv2, Idle

LEMMA InstantiateInv2 ==
  ASSUME Inv2, Inv1', NEW l \in LpTokens, Instantiate(l)
  PROVE  Inv2'
<1> DEFINE m == Message("reply", l, PoolManager, PoolManager, 0)
<1>1. /\ next < Len(msgs) /\ msgs[next + 1].op = "instantiate" /\ msgs' = Append(msgs, m)
      /\ UNCHANGED <<pair_balances, supply, bal, kind, saved, shortfall>>
  BY DEF Instantiate, storage
<1>2. msgs \in Seq(Messages) /\ next \in 0..Len(msgs)
  BY TypeOKIff DEF Inv2, Inv1, TxnTypes
<1>3. kind = "create"
  <2>1. next + 1 \in 1..Len(msgs)
    BY <1>1, <1>2
  <2>2. CreateProtocol
    BY DEF Inv2, Inv1
  <2>3. QED
    BY <1>1, <2>1, <2>2 DEF CreateProtocol
<1>4. m.op = "reply"
  BY DEF Message
<1> HIDE DEF m
<1>5. \A j \in 1..Len(msgs') : (j \in 1..Len(msgs) /\ msgs'[j] = msgs[j]) \/ msgs'[j] = m
  BY <1>1, <1>2
<1>6. \A j \in 1..Len(msgs') : msgs'[j].op \in {"instantiate", "reply"}
  <2>1. \A j \in 1..Len(msgs) : msgs[j].op \in {"instantiate", "reply"}
    BY <1>3 DEF Inv2, MessageKinds, Kinds
  <2>2. QED
    BY <1>4, <1>5, <2>1
<1>7. MessageKinds'
  BY <1>1, <1>3, <1>6 DEF MessageKinds, Kinds
<1>8. QED
  BY <1>1, <1>3, <1>6, <1>7, CreationInv2

LEMMA ReplyInv2 ==
  ASSUME Inv2, Inv1', Reply
  PROVE  Inv2'
<1>1. /\ next < Len(msgs) /\ msgs[next + 1].op = "reply" /\ msgs' = msgs
      /\ UNCHANGED <<pair_balances, supply, bal, kind, saved, shortfall>>
  BY DEF Reply, tokens
<1>2. kind = "create"
  <2>1. next + 1 \in 1..Len(msgs)
    BY <1>1, TypeOKIff DEF Inv2, Inv1, TxnTypes
  <2>2. CreateProtocol
    BY DEF Inv2, Inv1
  <2>3. QED
    BY <1>1, <2>1, <2>2 DEF CreateProtocol
<1>3. MessageKinds'
  BY <1>1 DEF Inv2, MessageKinds
<1>4. \A j \in 1..Len(msgs') : msgs'[j].op # "mint"
  BY <1>1, <1>2 DEF Inv2, MessageKinds, Kinds
<1>5. QED
  BY <1>1, <1>2, <1>3, <1>4, CreationInv2

(* The messages of a deposit: what they are and what they pull in. *)
DepositOf(u, assets, lp, first, to, share) ==
  Pull(u, assets[1]) \o Pull(u, assets[2]) \o Mints(lp, first, to, share)

(* Every cw20 deposit is pulled in, every mint is of the pool's LP token,  *)
(* and the first deposit's mint to the provider comes after the lock.      *)
ShapedLike(q, assets, lp, first) ==
  /\ q \in Seq(DepositMessages)
  /\ \A i \in {1, 2} : assets[i].info \notin Denoms /\ assets[i].amount # 0 =>
       \E m \in 1..Len(q) : /\ q[m].op = "transfer_from" /\ q[m].asset = assets[i].info
                            /\ q[m].amount = assets[i].amount
  /\ \A m \in 1..Len(q) : q[m].op = "mint" =>
       /\ q[m].asset = lp
       /\ first => \E j \in 1..m : Locks(q[j], lp)

LEMMA Concat3 ==
  ASSUME NEW T, NEW p1 \in Seq(T), NEW p2 \in Seq(T), NEW p3 \in Seq(T),
         NEW q, q = (p1 \o p2) \o p3
  PROVE  /\ Len(q) = Len(p1) + Len(p2) + Len(p3)
         /\ \A m \in 1..Len(q) : q[m] = IF m <= Len(p1) THEN p1[m]
                                       ELSE IF m <= Len(p1) + Len(p2) THEN p2[m - Len(p1)]
                                       ELSE p3[m - (Len(p1) + Len(p2))]
<1> DEFINE x == p1 \o p2
<1>1. /\ x \in Seq(T) /\ Len(x) = Len(p1) + Len(p2)
      /\ \A i \in 1..Len(p1) + Len(p2) : x[i] = IF i <= Len(p1) THEN p1[i] ELSE p2[i - Len(p1)]
  BY ConcatProperties, Zenon
<1>2. q = x \o p3
  OBVIOUS
<1>2a. x \in Seq(T)
  BY <1>1
<1> HIDE DEF x
<1>3. /\ Len(x \o p3) = Len(x) + Len(p3)
      /\ \A i \in 1..Len(x) + Len(p3) :
           (x \o p3)[i] = IF i <= Len(x) THEN x[i] ELSE p3[i - Len(x)]
  BY <1>2a, ConcatProperties, Zenon
<1> DEFINE y == x \o p3
<1> HIDE DEF y
<1>4. Len(p1) \in Nat /\ Len(p2) \in Nat /\ Len(p3) \in Nat
  OBVIOUS
<1>5. q = y /\ Len(y) = Len(x) + Len(p3)
      /\ \A i \in 1..Len(x) + Len(p3) : y[i] = IF i <= Len(x) THEN x[i] ELSE p3[i - Len(x)]
  BY <1>2, <1>3 DEF y
<1>6. QED
  BY <1>1, <1>4, <1>5

LEMMA DepositShape ==
  ASSUME NEW u \in Users, NEW assets \in Asset \X Asset, NEW lp \in LpTokens,
         NEW first \in BOOLEAN, NEW to \in Accounts, NEW share \in Uint128,
         NEW q, q = DepositOf(u, assets, lp, first, to, share)
  PROVE  ShapedLike(q, assets, lp, first)
<1> DEFINE p1 == Pull(u, assets[1])
           p2 == Pull(u, assets[2])
           mi == Mints(lp, first, to, share)
           tf(i) == Message("transfer_from", assets[i].info, u, PoolManager, assets[i].amount)
           lock == Message("mint", lp, PoolManager, PoolManager, MINIMUM_LIQUIDITY_AMOUNT)
           one == Message("mint", lp, PoolManager, to, share)
           pulled(i) == assets[i].info \notin Denoms /\ assets[i].amount # 0
<1>1. q \in Seq(DepositMessages)
  BY ProvideMessages DEF DepositOf
<1>2. /\ p1 = (IF pulled(1) THEN <<tf(1)>> ELSE <<>>)
      /\ p2 = (IF pulled(2) THEN <<tf(2)>> ELSE <<>>)
      /\ mi = (IF first THEN <<lock>> ELSE <<>>) \o <<one>>
  BY DEF Pull, Mints
<1>3. q = (p1 \o p2) \o mi
  BY DEF DepositOf
<1>4. /\ \A i \in {1, 2} : /\ tf(i).op = "transfer_from" /\ tf(i).asset = assets[i].info
                           /\ tf(i).amount = assets[i].amount
      /\ lock.op = "mint" /\ lock.asset = lp /\ Locks(lock, lp)
      /\ one.op = "mint" /\ one.asset = lp
  BY DEF Message, Locks
<1> HIDE DEF p1, p2, mi, tf, lock, one, pulled
<1> DEFINE t1 == tf(1)
           t2 == tf(2)
<1> HIDE DEF t1, t2
<1>5. /\ p1 = (IF pulled(1) THEN <<t1>> ELSE <<>>) /\ p2 = (IF pulled(2) THEN <<t2>> ELSE <<>>)
      /\ t1.op = "transfer_from" /\ t1.asset = assets[1].info /\ t1.amount = assets[1].amount
      /\ t2.op = "transfer_from" /\ t2.asset = assets[2].info /\ t2.amount = assets[2].amount
  BY <1>2, <1>4 DEF t1, t2
<1> DEFINE T == {t1, t2, lock, one}
           n1 == Len(p1)
           n2 == Len(p2)
<1>a. /\ p1 \in Seq(T) /\ n1 \in {0, 1} /\ (pulled(1) <=> n1 = 1) /\ (n1 = 1 => p1[1] = t1)
      /\ p2 \in Seq(T) /\ n2 \in {0, 1} /\ (pulled(2) <=> n2 = 1) /\ (n2 = 1 => p2[1] = t2)
  <2>1. /\ <<t1>> \in Seq(T) /\ Len(<<t1>>) = 1 /\ <<t1>>[1] = t1
        /\ <<t2>> \in Seq(T) /\ Len(<<t2>>) = 1 /\ <<t2>>[1] = t2
        /\ <<>> \in Seq(T) /\ Len(<<>>) = 0
    OBVIOUS
  <2>2. CASE pulled(1) /\ pulled(2)
    BY <1>5, <2>1, <2>2
  <2>3. CASE pulled(1) /\ ~pulled(2)
    BY <1>5, <2>1, <2>3
  <2>4. CASE ~pulled(1) /\ pulled(2)
    BY <1>5, <2>1, <2>4
  <2>5. CASE ~pulled(1) /\ ~pulled(2)
    BY <1>5, <2>1, <2>5
  <2>6. QED
    BY <2>2, <2>3, <2>4, <2>5
<1>b. /\ mi \in Seq(T)
      /\ first => Len(mi) = 2 /\ mi[1] = lock /\ mi[2] = one
      /\ ~first => Len(mi) = 1 /\ mi[1] = one
  <2> DEFINE x == IF first THEN <<lock>> ELSE <<>>
  <2>1. x \in Seq(T) /\ <<one>> \in Seq(T) /\ Len(<<one>>) = 1 /\ <<one>>[1] = one
    OBVIOUS
  <2>2. (first => Len(x) = 1 /\ x[1] = lock) /\ (~first => Len(x) = 0)
    OBVIOUS
  <2>3. mi = x \o <<one>>
    BY <1>2
  <2> HIDE DEF x, T
  <2>4. /\ mi \in Seq(T) /\ Len(mi) = Len(x) + Len(<<one>>)
        /\ \A i \in 1..Len(x) + Len(<<one>>) :
             mi[i] = IF i <= Len(x) THEN x[i] ELSE <<one>>[i - Len(x)]
    BY <2>1, <2>3, ConcatProperties
  <2>5. CASE first
    <3>0. Len(x) = 1 /\ x[1] = lock
      BY <2>2, <2>5
    <3>1. Len(x) + Len(<<one>>) = 2
      BY <3>0
    <3>2. mi[1] = x[1] /\ mi[2] = <<one>>[1]
      BY <2>4, <3>0, <3>1
    <3>3. QED
      BY <2>1, <2>4, <2>5, <3>0, <3>1, <3>2
  <2>6. CASE ~first
    <3>1. Len(x) = 0 /\ Len(x) + Len(<<one>>) = 1
      BY <2>1, <2>2, <2>6
    <3>2. mi[1] = <<one>>[1]
      BY <2>4, <3>1
    <3>3. QED
      BY <2>1, <2>4, <2>6, <3>1, <3>2
  <2>7. QED
    BY <2>4, <2>5, <2>6
<1> HIDE DEF T
<1> DEFINE n3 == Len(mi)
<1>c. /\ Len(q) = n1 + n2 + n3
      /\ \A m \in 1..Len(q) : q[m] = IF m <= n1 THEN p1[m]
                                    ELSE IF m <= n1 + n2 THEN p2[m - n1]
                                    ELSE mi[m - (n1 + n2)]
  BY <1>3, <1>a, <1>b, Concat3
<1>d. n3 \in {1, 2} /\ (first <=> n3 = 2)
  BY <1>b
<1> HIDE DEF n1, n2, n3
<1>e. n1 + n2 \in Nat /\ n1 \in Nat
  BY <1>a
<1>6. \A m \in 1..Len(q) :
        \/ q[m] = t1 \/ q[m] = t2
        \/ q[m] = lock
        \/ q[m] = one /\ (first => m > 1 /\ q[m - 1] = lock)
  <2> SUFFICES ASSUME NEW m \in 1..Len(q)
               PROVE  \/ q[m] = t1 \/ q[m] = t2
                      \/ q[m] = lock
                      \/ q[m] = one /\ (first => m > 1 /\ q[m - 1] = lock)
    OBVIOUS
  <2>1. CASE m <= n1
    BY <1>a, <1>c, <2>1
  <2>2. CASE m > n1 /\ m <= n1 + n2
    BY <1>a, <1>c, <2>2
  <2>3. CASE m > n1 + n2 /\ n3 = 1
    <3>1. m = n1 + n2 + 1
      BY <1>c, <1>e, <2>3, <1>a
    <3>2. q[m] = mi[1]
      BY <1>a, <1>c, <3>1
    <3>3. ~first /\ mi[1] = one
      BY <1>b, <1>d, <2>3
    <3>4. QED
      BY <3>2, <3>3
  <2>4. CASE m = n1 + n2 + 1 /\ n3 = 2
    <3>1. q[m] = mi[1]
      BY <1>a, <1>c, <2>4
    <3>2. QED
      BY <1>b, <1>d, <2>4, <3>1
  <2>5. CASE m = n1 + n2 + 2 /\ n3 = 2
    <3>1. q[m] = mi[2]
      BY <1>a, <1>c, <2>5
    <3>2. m > 1 /\ m - 1 \in 1..Len(q) /\ m - 1 = n1 + n2 + 1
      BY <1>a, <1>c, <2>5
    <3>3. q[m - 1] = mi[1]
      BY <1>a, <1>c, <2>5, <3>2
    <3>4. mi[2] = one /\ mi[1] = lock
      BY <1>b, <1>d, <2>5
    <3>5. QED
      BY <3>1, <3>2, <3>3, <3>4
  <2>6. m \in Nat /\ m <= n1 + n2 + n3 /\ n1 \in Nat /\ n2 \in Nat
    BY <1>a, <1>c, <1>d, <1>e
  <2>7. CASE m > n1 + n2 /\ n3 = 2
    <3>1. m = n1 + n2 + 1 \/ m = n1 + n2 + 2
      BY <2>6, <2>7
    <3>2. QED
      BY <2>4, <2>5, <2>7, <3>1
  <2>8. CASE m > n1 + n2
    BY <1>d, <2>3, <2>7, <2>8
  <2>9. (m > n1 \/ m <= n1) /\ (m > n1 + n2 \/ m <= n1 + n2)
    BY <2>6
  <2>10. QED
    BY <2>1, <2>2, <2>8, <2>9
<1>7. \A m \in 1..Len(q) : q[m].op = "mint" =>
        q[m].asset = lp /\ (first => \E j \in 1..m : Locks(q[j], lp))
  <2> SUFFICES ASSUME NEW m \in 1..Len(q), q[m].op = "mint"
               PROVE  q[m].asset = lp /\ (first => \E j \in 1..m : Locks(q[j], lp))
    OBVIOUS
  <2>1. q[m] = lock \/ (q[m] = one /\ (first => m > 1 /\ q[m - 1] = lock))
    BY <1>5, <1>6
  <2>2. q[m].asset = lp
    BY <1>4, <2>1
  <2>3. ASSUME first PROVE \E j \in 1..m : Locks(q[j], lp)
    <3>1. CASE q[m] = lock
      BY <1>4, <3>1
    <3>2. CASE m > 1 /\ q[m - 1] = lock
      <4>1. m - 1 \in 1..m
        BY <3>2
      <4>2. QED
        BY <1>4, <3>2, <4>1
    <3>3. QED
      BY <2>1, <2>3, <3>1, <3>2
  <2>4. QED
    BY <2>2, <2>3
<1>8. pulled(1) => 1 \in 1..Len(q) /\ q[1] = t1
  <2>1. n1 = 1 => 1 \in 1..Len(q) /\ q[1] = t1
    BY <1>a, <1>c, <1>d, SMTT(30)
  <2>2. QED
    BY <1>a, <2>1
<1>9. pulled(2) => n1 + 1 \in 1..Len(q) /\ q[n1 + 1] = t2
  <2>1. n2 = 1 => n1 + 1 \in 1..Len(q) /\ p2[1] = t2
    BY <1>a, <1>c, <1>d
  <2>2. n2 = 1 => q[n1 + 1] = p2[1]
    BY <1>a, <1>c, <1>d, <2>1
  <2>3. QED
    BY <1>a, <2>1, <2>2
<1>10. \A i \in {1, 2} : pulled(i) =>
         \E m \in 1..Len(q) : /\ q[m].op = "transfer_from" /\ q[m].asset = assets[i].info
                              /\ q[m].amount = assets[i].amount
  BY <1>5, <1>8, <1>9
<1>11. QED
  BY <1>1, <1>7, <1>10 DEF pulled, ShapedLike
(* The handler compares the deposit with the pool's own order of assets. *)
LEMMA DepositOrder ==
  ASSUME IsBook(pair_balances), PoolsOK(pair_balances), NEW sent \in Asset \X Asset,
         NEW k, k = PairKey(sent[1].info, sent[2].info), k \in DOMAIN pair_balances
  PROVE  /\ InPoolOrder(k, sent) \in Asset \X Asset
         /\ \A i \in {1, 2} : InPoolOrder(k, sent)[i].info = pair_balances[k][i].info
         /\ pair_balances[k][1].info # pair_balances[k][2].info
         /\ \A a : NativePart(sent, a) = NativePart(InPoolOrder(k, sent), a)
<1>1. k = {sent[1].info, sent[2].info} /\ sent[1] \in Asset /\ sent[2] \in Asset
  BY DEF PairKey
<1>2. k = {pair_balances[k][1].info, pair_balances[k][2].info}
      /\ pair_balances[k][1].info # pair_balances[k][2].info
  BY DEF PoolsOK
<1>3. CASE pair_balances[k][1].info = sent[2].info
  <2>1. InPoolOrder(k, sent) = <<sent[2], sent[1]>>
    BY <1>3 DEF InPoolOrder
  <2>2. pair_balances[k][2].info = sent[1].info
    BY <1>1, <1>2, <1>3
  <2>3. \A a : NativePart(sent, a) = NativePart(<<sent[2], sent[1]>>, a)
    BY <1>2, <1>3, <2>2 DEF NativePart
  <2>4. QED
    BY <1>1, <1>2, <1>3, <2>1, <2>2, <2>3
<1>4. CASE pair_balances[k][1].info # sent[2].info
  <2>1. InPoolOrder(k, sent) = sent
    BY <1>4 DEF InPoolOrder
  <2>2. pair_balances[k][1].info = sent[1].info /\ pair_balances[k][2].info = sent[2].info
    BY <1>1, <1>2, <1>4
  <2>3. QED
    BY <1>2, <2>1, <2>2
<1>5. QED
  BY <1>3, <1>4

LEMMA ProvideInv2 ==
  ASSUME Inv2, Inv1', NEW u \in Users, NEW sent \in Asset \X Asset, NEW to \in Receivers,
         NEW share \in CurveOutputs, ProvideLiquidity(u, sent, to, share)
  PROVE  Inv2'
<1> DEFINE k == PairKey(sent[1].info, sent[2].info)
           assets == InPoolOrder(k, sent)
           deposits == <<assets[1].amount, assets[2].amount>>
           lp == pools[k].liquidity_token
           first == supply[lp] = 0
           ms == DepositOf(u, assets, lp, first, to, share)
<1>1. Inv1 /\ StorageTypes
  BY TypeOKIff DEF Inv1, Inv2
<1>2. /\ Idle /\ kind' = "provide" /\ saved' = Snapshot /\ msgs' = ms /\ next' = 0
      /\ UNCHANGED <<pools, supply, shortfall>>
  BY DEF ProvideLiquidity, Begin, DepositOf
<1>3. /\ Loadable(k)
      /\ \A a \in Denoms : NativePart(sent, a) <= bal[u][a]
      /\ \A i \in 1..2 : pair_balances[k][i].amount + deposits[i] <= MaxUint
      /\ bal' = FundsSent(bal, u, sent)
      /\ pair_balances' = IncrementPair(pair_balances, k, deposits)
  BY DEF ProvideLiquidity
<1>4. k \in DOMAIN pools /\ k \in DOMAIN pair_balances /\ k \in PairKeys
      /\ IsBook(pair_balances)
  BY <1>1, <1>3 DEF Loadable, StorageTypes
<1>5. /\ assets \in Asset \X Asset
      /\ \A i \in {1, 2} : assets[i].info = pair_balances[k][i].info
      /\ pair_balances[k][1].info # pair_balances[k][2].info
      /\ \A a : NativePart(sent, a) = NativePart(assets, a)
  <2> HIDE DEF k
  <2>1. k = PairKey(sent[1].info, sent[2].info)
    BY DEF k
  <2>2. QED
    BY <1>4, <2>1, DepositOrder DEF Inv2
<1>6. /\ \A i \in {1, 2} : assets[i].amount \in Nat /\ assets[i].info \in Assets
      /\ deposits \in Nat \X Nat /\ deposits[1] = assets[1].amount
      /\ deposits[2] = assets[2].amount
  <2> HIDE DEF assets
  <2>1. assets[1] \in Asset /\ assets[2] \in Asset
    BY <1>5
  <2>2. QED
    BY <2>1, PinaColadaAssumption DEF Asset, Uint128
<1>7. lp \in LpTokens
  <2>1. queued_mint = NoKey /\ k # NoKey
    BY <1>1, <1>2, <1>4, KeyShape DEF Inv1, LpBinding, Idle
  <2>2. QED
    BY <1>1, <1>4, <2>1 DEF Inv1, LpBinding, StorageTypes
<1>8. to \in Accounts /\ share \in Uint128 /\ first \in BOOLEAN
  BY PinaColadaAssumption
<1> HIDE DEF k, assets, deposits, lp, first
<1>9. ShapedLike(ms, assets, lp, first)
  <2> HIDE DEF ms
  <2>1. ms = DepositOf(u, assets, lp, first, to, share)
    BY DEF ms
  <2>2. QED
    BY <1>5, <1>7, <1>8, <2>1, DepositShape, Zenon
<1> HIDE DEF ms
<1>10. ms \in Seq(Messages) /\ \A m \in 1..Len(ms) : ms[m].op \in {"transfer_from", "mint"}
  BY <1>9 DEF ShapedLike, DepositMessages
<1>11. /\ IsBook(pair_balances') /\ SameButAmounts(pair_balances, pair_balances', k)
       /\ \A i \in {1, 2} : pair_balances'[k][i].amount
                              = pair_balances[k][i].amount + assets[i].amount
  BY <1>3, <1>4, <1>6, IncrementFacts
<1>12. PoolsOK(pair_balances')
  BY <1>4, <1>11, SamePools DEF Inv2
<1>13. MessageKinds' /\ PathOK'
  BY <1>2, <1>10 DEF MessageKinds, Kinds, PathOK
<1>14. LockFirst'
  <2> SUFFICES ASSUME NEW m \in 1..Len(ms), ms[m].op = "mint", supply[ms[m].asset] = 0
               PROVE  \E j \in 1..m : j > 0 /\ Locks(ms[j], ms[m].asset)
    BY <1>2 DEF LockFirst
  <2>1. ms[m].asset = lp /\ first
    BY <1>9 DEF ShapedLike, first
  <2>2. PICK j \in 1..m : Locks(ms[j], lp)
    BY <1>9, <2>1 DEF ShapedLike
  <2>3. QED
    BY <2>1, <2>2
<1>15. ASSUME NEW a \in Assets
       PROVE  bal'[PoolManager][a] + In(a)' + shortfall'[a]
                >= Book(pair_balances', a) + Locked(a)' + Out(a)' + InHop(a)'
  <2> DEFINE g1 == IF assets[1].info = a THEN assets[1].amount ELSE 0
             g2 == IF assets[2].info = a THEN assets[2].amount ELSE 0
             np == NativePart(assets, a)
  <2>1. bal[PoolManager][a] + shortfall[a] >= Book(pair_balances, a) + Locked(a)
    <3>1. bal[PoolManager][a] + In(a) + shortfall[a]
            >= Book(pair_balances, a) + Locked(a) + Out(a) + InHop(a)
      BY BackedIff DEF Inv2
    <3>2. In(a) = 0 /\ Out(a) = 0 /\ InHop(a) = 0
      BY <1>1, <1>2, IdleParts
    <3>3. Parts
      BY <1>1, PartTypes
    <3>4. QED
      BY <3>1, <3>2, <3>3 DEF Parts
  <2>2. bal'[PoolManager][a] = bal[PoolManager][a] + np
    <3>1. u # PoolManager /\ PoolManager \in Accounts
      BY PinaColadaAssumption DEF Accounts
    <3>2. QED
      BY <1>3, <1>5, <3>1 DEF FundsSent
  <2>3. Book(pair_balances', a) = Book(pair_balances, a) + g1 + g2
    <3>1. Gain(pair_balances, pair_balances', k, 1, a) = g1
          /\ Gain(pair_balances, pair_balances', k, 2, a) = g2
      <4>1. \A i \in {1, 2} : pair_balances[k][i].amount \in Nat
        <5>1. pair_balances[k] \in Asset \X Asset
          BY <1>4 DEF IsBook
        <5>2. pair_balances[k][1] \in Asset /\ pair_balances[k][2] \in Asset
          BY <5>1
        <5>3. QED
          BY <5>2, PinaColadaAssumption DEF Asset, Uint128
      <4>2. QED
        BY <1>5, <1>6, <1>11, <4>1 DEF Gain
    <3>2. QED
      BY <1>4, <1>11, <3>1, BookChange
  <2>4. \A i \in {1, 2} : assets[i].info = a /\ a \notin Denoms => assets[i].amount <= In(a)'
    <3> SUFFICES ASSUME NEW i \in {1, 2}, assets[i].info = a, a \notin Denoms,
                        assets[i].amount # 0
                 PROVE  assets[i].amount <= In(a)'
      <4>1. In(a)' \in Nat
        BY PartTypesNext DEF Parts
      <4>2. QED
        BY <1>6, <4>1
    <3>1. PICK m \in 1..Len(ms) : ms[m].op = "transfer_from" /\ ms[m].asset = a
                                  /\ ms[m].amount = assets[i].amount
      BY <1>9 DEF ShapedLike
    <3>2. Counted(ms[m], {"transfer_from"}, a) = assets[i].amount
      BY <3>1 DEF Counted
    <3>3. m > 0
      OBVIOUS
    <3>4. Counted(ms[m], {"transfer_from"}, a) <= Total(ToCome(ms, 0, {"transfer_from"}, a))
      BY <1>10, <3>3, AtLeastOne
    <3>5. QED
      BY <1>2, <3>2, <3>4, PendingIs DEF In
  <2>5. Out(a)' = 0
    BY <1>2, <1>10, PendingIs, NothingToCome DEF Out
  <2>6. InHop(a)' = 0 /\ Locked(a)' = Locked(a) /\ shortfall'[a] = shortfall[a]
    BY <1>2 DEF InHop, InSwapLoop, Locked
  <2>7. Parts /\ Parts'
    BY <1>1, PartTypes, PartTypesNext
  <2>8. np + In(a)' >= g1 + g2
    <3>1. In(a)' \in Nat
      BY <2>7 DEF Parts
    <3>2. CASE a = assets[1].info
      <4>1. assets[2].info # a /\ (a \in Denoms => np = assets[1].amount)
            /\ (a \notin Denoms => np = 0)
        BY <1>5, <3>2 DEF NativePart
      <4>2. QED
        BY <1>6, <2>4, <3>1, <3>2, <4>1
    <3>3. CASE a = assets[2].info
      <4>1. assets[1].info # a /\ (a \in Denoms => np = assets[2].amount)
            /\ (a \notin Denoms => np = 0)
        BY <1>5, <3>3 DEF NativePart
      <4>2. QED
        BY <1>6, <2>4, <3>1, <3>3, <4>1
    <3>4. CASE a # assets[1].info /\ a # assets[2].info
      <4>1. np = 0
        BY <3>4 DEF NativePart
      <4>2. QED
        BY <3>1, <3>4, <4>1
    <3>5. QED
      BY <3>2, <3>3, <3>4
  <2>9. np \in Nat /\ g1 \in Nat /\ g2 \in Nat
    BY <1>6 DEF NativePart
  <2> HIDE DEF np, g1, g2
  <2>10. QED
    BY <2>1, <2>2, <2>3, <2>5, <2>6, <2>7, <2>8, <2>9 DEF Parts
<1>16. Backed'
  BY <1>15, BackedIff
<1>17. QED
  BY <1>2, <1>12, <1>13, <1>14, <1>16, SavedBacked DEF Inv2

(* When a transaction starts, the account covers the books and the lock. *)
LEMMA IdleBacked ==
  ASSUME Inv2, Idle, NEW a \in Assets
  PROVE  /\ bal[PoolManager][a] + shortfall[a] >= Book(pair_balances, a) + Locked(a)
         /\ bal[PoolManager][a] \in Nat /\ shortfall[a] \in Nat
         /\ Book(pair_balances, a) \in Nat /\ Locked(a) \in Nat
<1>1. bal[PoolManager][a] + In(a) + shortfall[a]
        >= Book(pair_balances, a) + Locked(a) + Out(a) + InHop(a)
  BY BackedIff DEF Inv2
<1>2. In(a) = 0 /\ Out(a) = 0 /\ InHop(a) = 0
  BY IdleParts DEF Inv2
<1>3. Parts
  BY PartTypes DEF Inv2
<1>4. QED
  BY <1>1, <1>2, <1>3 DEF Parts

(* What is sent with a swap is carried by its first hop. *)
LEMMA StartSwapInv2 ==
  ASSUME Inv2, Inv1', NEW ops \in Paths, NEW n \in Amounts, NEW to \in Receivers,
         NEW t \in Assets, StartSwap(ops, n, to),
         \A a \in Assets :
           bal'[PoolManager][a] = bal[PoolManager][a] + (IF a = t THEN n ELSE 0),
         \A a \in Assets :
           shortfall'[a] = shortfall[a]
             + (IF a = ops[1].offer_asset_info /\ a # t THEN n ELSE 0)
  PROVE  Inv2'
<1>1. /\ Idle /\ kind' = "swap" /\ saved' = Snapshot /\ msgs' = <<>> /\ next' = 0
      /\ path' = ops /\ hop' = 0 /\ amount' = n /\ ValidOperations(ops)
      /\ pair_balances' = pair_balances /\ supply' = supply
  BY DEF StartSwap, Begin, storage
<1>2. n \in Nat
  BY PinaColadaAssumption DEF Uint128
<1>3. \A a : In(a)' = 0 /\ Out(a)' = 0 /\ Locked(a)' = Locked(a)
  BY <1>1, NoMessages DEF Locked
<1>4. \A a : InHop(a)' = IF ops[1].offer_asset_info = a THEN n ELSE 0
  <2>1. 0 < Len(ops) /\ 0 + 1 = 1
    BY <1>1, PinaColadaAssumption DEF ValidOperations
  <2>2. InSwapLoop'
    BY <1>1, <2>1 DEF InSwapLoop
  <2>3. QED
    BY <1>1, <2>1, <2>2 DEF InHop
<1>5. ASSUME NEW a \in Assets
      PROVE  bal'[PoolManager][a] + In(a)' + shortfall'[a]
               >= Book(pair_balances', a) + Locked(a)' + Out(a)' + InHop(a)'
  <2>1. /\ bal[PoolManager][a] + shortfall[a] >= Book(pair_balances, a) + Locked(a)
        /\ bal[PoolManager][a] \in Nat /\ shortfall[a] \in Nat
        /\ Book(pair_balances, a) \in Nat /\ Locked(a) \in Nat
    BY <1>1, IdleBacked
  <2> DEFINE s == shortfall'[a]
             b == bal'[PoolManager][a]
             h == InHop(a)'
  <2>2. /\ s = shortfall[a] + (IF a = ops[1].offer_asset_info /\ a # t THEN n ELSE 0)
        /\ b = bal[PoolManager][a] + (IF a = t THEN n ELSE 0)
        /\ h = IF ops[1].offer_asset_info = a THEN n ELSE 0
    BY <1>4
  <2> HIDE DEF s, b, h
  <2>3. b + s >= Book(pair_balances, a) + Locked(a) + h /\ b \in Nat /\ s \in Nat /\ h \in Nat
    BY <1>2, <2>1, <2>2
  <2>4. b + 0 + s >= Book(pair_balances, a) + Locked(a) + 0 + h
    BY <2>1, <2>3
  <2>5. QED
    BY <1>1, <1>3, <2>4 DEF b, s, h
<1>6. Backed'
  BY <1>5, BackedIff
<1>7. PathOK' /\ MessageKinds' /\ LockFirst'
  BY <1>1 DEF PathOK, MessageKinds, LockFirst
<1>8. PoolsOK(pair_balances')
  BY <1>1 DEF Inv2
<1>9. QED
  BY <1>1, <1>6, <1>7, <1>8, SavedBacked DEF Inv2

(* A user's tokens arrive at the contract's account. *)
LEMMA PaidIn ==
  ASSUME Inv1, NEW u \in Users, NEW t \in Assets, NEW n \in Nat, n <= bal[u][t],
         bal' = Move(bal, u, PoolManager, t, n)
  PROVE  \A a \in Assets :
           bal'[PoolManager][a] = bal[PoolManager][a] + (IF a = t THEN n ELSE 0)
<1>1. u \in Accounts /\ PoolManager \in Accounts /\ u # PoolManager
  BY PinaColadaAssumption DEF Accounts
<1>2. bal \in Holdings
  BY TypeOKIff DEF Inv1, StorageTypes
<1>3. ASSUME NEW a \in Assets
      PROVE  bal'[PoolManager][a] = bal[PoolManager][a] + (IF a = t THEN n ELSE 0)
  <2>1. Move(bal, u, PoolManager, t, n)[PoolManager][a]
          = bal[PoolManager][a] - (IF PoolManager = u /\ a = t THEN n ELSE 0)
              + (IF PoolManager = PoolManager /\ a = t THEN n ELSE 0)
    BY <1>1, <1>2, MoveEffect
  <2>2. bal[PoolManager][a] \in Nat
    BY <1>1, <1>2 DEF Holdings
  <2>3. QED
    BY <1>1, <2>1, <2>2
<1>4. QED
  BY <1>3

LEMMA ExecuteSwapInv2 ==
  ASSUME Inv2, Inv1', NEW u \in Users, NEW ops \in Paths, NEW n \in Amounts,
         NEW to \in Receivers, ExecuteSwapOperations(u, ops, n, to)
  PROVE  Inv2'
<1>1. /\ n <= bal[u][DENOM] /\ StartSwap(ops, n, to) /\ ops[1].offer_asset_info = DENOM
      /\ bal' = Move(bal, u, PoolManager, DENOM, n) /\ shortfall' = shortfall
  BY DEF ExecuteSwapOperations
<1>2. DENOM \in Assets /\ n \in Nat
  BY PinaColadaAssumption DEF Assets, Uint128
<1>3. \A a \in Assets :
        bal'[PoolManager][a] = bal[PoolManager][a] + (IF a = DENOM THEN n ELSE 0)
  BY <1>1, <1>2, PaidIn DEF Inv2
<1>4. \A a \in Assets : shortfall[a] \in Nat
  BY PartTypes DEF Inv2, Parts
<1>5. \A a \in Assets :
        shortfall'[a] = shortfall[a]
          + (IF a = ops[1].offer_asset_info /\ a # DENOM THEN n ELSE 0)
  BY <1>1, <1>4
<1>6. QED
  BY <1>1, <1>2, <1>3, <1>5, StartSwapInv2

(* What FallsShort adds to the history. *)
LEMMA FallsShortEffect ==
  ASSUME Inv1, NEW z \in Assets, NEW n \in Nat, FallsShort(z, n)
  PROVE  \A a \in Assets : shortfall'[a] = shortfall[a] + (IF a = z THEN n ELSE 0)
<1>1. shortfall \in [Assets -> Nat]
  BY TypeOKIff, PinaColadaAssumption DEF Inv1, StorageTypes
<1>2. QED
  BY <1>1 DEF FallsShort

LEMMA ReceiveSwapInv2 ==
  ASSUME Inv2, Inv1', NEW u \in Users, NEW t \in Cw20s \cup LpTokens, NEW ops \in Paths,
         NEW n \in Amounts, NEW to \in Receivers, ReceiveSwap(u, t, ops, n, to)
  PROVE  Inv2'
<1> DEFINE o == ops[1].offer_asset_info
<1>1. /\ n <= bal[u][t] /\ Len(ops) > 0 /\ StartSwap(ops, n, to)
      /\ bal' = Move(bal, u, PoolManager, t, n)
      /\ IF t # o THEN FallsShort(o, n) ELSE UNCHANGED shortfall
  BY DEF ReceiveSwap
<1>2. t \in Assets /\ n \in Nat
  BY PinaColadaAssumption DEF Assets, Uint128
<1>3. \A a \in Assets :
        bal'[PoolManager][a] = bal[PoolManager][a] + (IF a = t THEN n ELSE 0)
  BY <1>1, <1>2, PaidIn DEF Inv2
<1>4. o \in Assets
  <2>1. ops \in Seq(SwapOperation)
    BY PinaColadaAssumption
  <2>2. ops[1] \in SwapOperation
    BY <1>1, <2>1
  <2>3. QED
    BY <2>2 DEF SwapOperation
<1>5. \A a \in Assets : shortfall[a] \in Nat
  BY PartTypes DEF Inv2, Parts
<1>6. \A a \in Assets : shortfall'[a] = shortfall[a] + (IF a = o /\ a # t THEN n ELSE 0)
  <2> HIDE DEF o
  <2>1. CASE t # o
    <3>1. \A a \in Assets : shortfall'[a] = shortfall[a] + (IF a = o THEN n ELSE 0)
      BY <1>1, <1>2, <1>4, <2>1, FallsShortEffect DEF Inv2
    <3>2. QED
      BY <2>1, <3>1
  <2>2. CASE t = o
    BY <1>1, <1>5, <2>2
  <2>3. QED
    BY <2>1, <2>2
<1>7. QED
  BY <1>1, <1>2, <1>3, <1>6, StartSwapInv2

(* The pool of an operation, and the side FindAssetIndex finds. *)
LEMMA HopSides ==
  ASSUME PoolsOK(pair_balances), NEW o, NEW s, o # s,
         NEW k, k = PairKey(o, s), k \in DOMAIN pair_balances
  PROVE  LET i == FindAssetIndex(k, o)
         IN /\ i \in {1, 2}
            /\ pair_balances[k][i].info = o /\ pair_balances[k][Other(i)].info = s
<1>1. k = {o, s}
  BY DEF PairKey
<1>2. k = {pair_balances[k][1].info, pair_balances[k][2].info}
      /\ pair_balances[k][1].info # pair_balances[k][2].info
  BY DEF PoolsOK
<1>3. CASE pair_balances[k][1].info = o
  <2>1. FindAssetIndex(k, o) = 1 /\ Other(1) = 2
    BY <1>3 DEF FindAssetIndex, Other
  <2>2. pair_balances[k][2].info = s
    BY <1>1, <1>2, <1>3
  <2>3. QED
    BY <1>3, <2>1, <2>2
<1>4. CASE pair_balances[k][1].info # o
  <2>1. FindAssetIndex(k, o) = 2 /\ Other(2) = 1
    BY <1>4 DEF FindAssetIndex, Other
  <2>2. pair_balances[k][2].info = o /\ pair_balances[k][1].info = s
    BY <1>1, <1>2, <1>4
  <2>3. QED
    BY <2>1, <2>2
<1>5. QED
  BY <1>3, <1>4

(* A hop books what is offered and takes what is returned off the book. *)
LEMMA HopBook ==
  ASSUME NEW pb, IsBook(pb), NEW k \in DOMAIN pb, k \in PairKeys, NEW i \in {1, 2},
         NEW m \in Nat, NEW n \in Nat, NEW o, NEW s,
         pb[k][i].info = o, pb[k][Other(i)].info = s, o # s,
         pb[k][i].amount + m <= MaxUint, n <= pb[k][Other(i)].amount, NEW a
  PROVE  Book(AfterSwap(pb, k, i, m, n), a)
           = Book(pb, a) + (IF a = o THEN m ELSE 0) - (IF a = s THEN n ELSE 0)
<1> DEFINE qb == AfterSwap(pb, k, i, m, n)
<1>1. /\ IsBook(qb) /\ SameButAmounts(pb, qb, k)
      /\ qb[k][i].amount = pb[k][i].amount + m
      /\ qb[k][Other(i)].amount = pb[k][Other(i)].amount - n
  BY AfterSwapFacts
<1> HIDE DEF qb
<1>2. Book(qb, a) = Book(pb, a) + Gain(pb, qb, k, 1, a) + Gain(pb, qb, k, 2, a)
  BY <1>1, BookChange
<1>3. pb[k][1].amount \in Nat /\ pb[k][2].amount \in Nat
  <2>1. pb[k] \in Asset \X Asset
    BY DEF IsBook
  <2>2. pb[k][1] \in Asset /\ pb[k][2] \in Asset
    BY <2>1
  <2>3. QED
    BY <2>2, PinaColadaAssumption DEF Asset, Uint128
<1>4. Book(pb, a) \in Nat
  BY BookType
<1>5. CASE i = 1
  <2>1. Other(i) = 2
    BY <1>5 DEF Other
  <2>2. Gain(pb, qb, k, 1, a) = IF a = o THEN m ELSE 0
    BY <1>1, <1>3, <1>5 DEF Gain
  <2>3. Gain(pb, qb, k, 2, a) = IF a = s THEN -n ELSE 0
    BY <1>1, <1>3, <2>1 DEF Gain
  <2>4. QED
    BY <1>2, <1>4, <2>2, <2>3 DEF qb
<1>6. CASE i = 2
  <2>1. Other(i) = 1
    BY <1>6 DEF Other
  <2>2. Gain(pb, qb, k, 2, a) = IF a = o THEN m ELSE 0
    BY <1>1, <1>3, <1>6 DEF Gain
  <2>3. Gain(pb, qb, k, 1, a) = IF a = s THEN -n ELSE 0
    BY <1>1, <1>3, <2>1 DEF Gain
  <2>4. QED
    BY <1>2, <1>4, <2>2, <2>3 DEF qb
<1>7. QED
  BY <1>5, <1>6

LEMMA SwapHopInv2 ==
  ASSUME Inv2, Inv1', NEW returned \in CurveOutputs, SwapHop(returned)
  PROVE  Inv2'
<1> DEFINE op == path[hop + 1]
           o == op.offer_asset_info
           s == op.ask_asset_info
           k == PairKey(o, s)
           i == FindAssetIndex(k, o)
           last == hop + 1 = Len(path)
           paid == Paid(s)
           pay == Message("transfer", paid, PoolManager, recipient, returned)
<1>1. Inv1 /\ StorageTypes /\ TxnTypes
  BY TypeOKIff DEF Inv1, Inv2
<1>2. /\ InSwapLoop /\ Loadable(k) /\ hop' = hop + 1 /\ amount' = returned
      /\ pair_balances[k][i].amount + amount <= MaxUint
      /\ returned <= pair_balances[k][Other(i)].amount
      /\ pair_balances' = AfterSwap(pair_balances, k, i, amount, returned)
      /\ supply' = supply /\ bal' = bal /\ kind' = kind /\ path' = path /\ next' = next
      /\ saved' = saved
  BY DEF SwapHop, tokens
<1>3. /\ msgs' = IF last THEN <<pay>> ELSE <<>>
      /\ IF last /\ paid # s THEN FallsShort(paid, returned) ELSE UNCHANGED shortfall
  BY DEF SwapHop
<1>4. /\ op \in SwapOperation /\ kind = "swap" /\ hop \in Nat /\ Len(path) \in Nat
      /\ hop + 1 \in 1..Len(path)
  BY <1>1, <1>2 DEF InSwapLoop, TxnTypes
<1>5. ValidOperations(path) /\ o # s
  BY <1>4 DEF Inv2, PathOK, ValidOperations
<1>6. k \in DOMAIN pair_balances /\ k \in PairKeys /\ IsBook(pair_balances)
  BY <1>1, <1>2 DEF Loadable, StorageTypes
<1>7. amount \in Nat /\ returned \in Nat /\ returned \in Uint128 /\ recipient \in Accounts
  BY <1>1, PinaColadaAssumption DEF TxnTypes, Uint128
<1>8. s \in Assets /\ paid \in Assets
  BY <1>4, PinaColadaAssumption DEF Paid, SwapOperation, Assets
<1>9. pay \in Messages /\ pay.op = "transfer" /\ pay.asset = paid /\ pay.amount = returned
  BY <1>7, <1>8, MessageTypes DEF Message
<1>10. i \in {1, 2} /\ pair_balances[k][i].info = o /\ pair_balances[k][Other(i)].info = s
  <2> HIDE DEF op
  <2>1. QED
    BY <1>5, <1>6, HopSides DEF Inv2
<1>11. /\ \A a : InHop(a) = IF a = o THEN amount ELSE 0
       /\ \A a : InHop(a)' = IF ~last /\ a = s THEN returned ELSE 0
  <2>1. \A a : InHop(a) = IF a = o THEN amount ELSE 0
    BY <1>2 DEF InHop
  <2>2. CASE last
    BY <1>2, <2>2 DEF InHop, InSwapLoop
  <2>3. CASE ~last
    <3> DEFINE j == hop + 2
    <3>1. j \in 2..Len(path) /\ j - 1 = hop + 1 /\ hop + 1 + 1 = j
      BY <1>4, <2>3
    <3> HIDE DEF j
    <3>2. path[j].offer_asset_info = path[j - 1].ask_asset_info
      BY <1>5, <3>1 DEF ValidOperations
    <3>3. path'[hop' + 1].offer_asset_info = s
      BY <1>2, <3>1, <3>2
    <3>4. InSwapLoop'
      BY <1>2, <1>4, <2>3 DEF InSwapLoop
    <3>5. QED
      BY <1>2, <2>1, <2>3, <3>3, <3>4 DEF InHop
  <2>4. QED
    BY <2>2, <2>3
<1> HIDE DEF op, o, s, k, i, last, paid, pay
<1>12. msgs = <<>> /\ next = 0
  BY <1>1, <1>2 DEF Inv1, TxnTypes
<1>13. msgs' \in Seq(Messages) /\ \A m \in 1..Len(msgs') : msgs'[m].op = "transfer"
  BY <1>3, <1>9
<1>14. PathOK' /\ MessageKinds' /\ LockFirst'
  BY <1>2, <1>4, <1>5, <1>13 DEF PathOK, MessageKinds, Kinds, LockFirst
<1>15. PoolsOK(pair_balances')
  <2>1. SameButAmounts(pair_balances, pair_balances', k)
    BY <1>2, <1>6, <1>7, <1>10, AfterSwapFacts
  <2>2. QED
    BY <1>6, <2>1, SamePools DEF Inv2
<1>16. \A a : In(a) = 0 /\ Out(a) = 0 /\ In(a)' = 0
  <2>1. \A a : In(a) = 0 /\ Out(a) = 0
    BY <1>12, NoMessages
  <2>2. \A a : In(a)' = 0
    BY <1>2, <1>12, <1>13, PendingIs, NothingToCome DEF In
  <2>3. QED
    BY <2>1, <2>2
<1>17. \A a : Out(a)' = IF last /\ a = paid THEN returned ELSE 0
  <2>1. CASE last
    <3>1. Len(msgs') = 1 /\ msgs'[1] = pay /\ next' = 0
      BY <1>2, <1>3, <1>12, <2>1
    <3>2. \A a : Counted(pay, {"transfer", "burn"}, a) = IF a = paid THEN returned ELSE 0
      BY <1>9 DEF Counted
    <3>3. QED
      BY <1>13, <2>1, <3>1, <3>2, OneToCome, PendingIs DEF Out
  <2>2. CASE ~last
    BY <1>2, <1>3, <1>12, <2>2, NoMessages
  <2>3. QED
    BY <2>1, <2>2
<1>18. \A a \in Assets : /\ shortfall[a] \in Nat
                         /\ shortfall'[a] = shortfall[a]
                              + (IF last /\ paid # s /\ a = paid THEN returned ELSE 0)
  <2>1. \A a \in Assets : shortfall[a] \in Nat
    BY <1>1, PartTypes DEF Parts
  <2>2. CASE last /\ paid # s
    BY <1>1, <1>3, <1>7, <1>8, <2>1, <2>2, FallsShortEffect
  <2>3. CASE ~(last /\ paid # s)
    BY <1>3, <2>1, <2>3
  <2>4. QED
    BY <2>2, <2>3
<1>19. ASSUME NEW a \in Assets
       PROVE  bal'[PoolManager][a] + In(a)' + shortfall'[a]
                >= Book(pair_balances', a) + Locked(a)' + Out(a)' + InHop(a)'
  <2> DEFINE q == IF last /\ paid # s /\ a = paid THEN returned ELSE 0
             f == shortfall'[a]
             w == Out(a)'
             h == InHop(a)'
             b == Book(pair_balances', a)
             l == Locked(a)'
             n == In(a)'
  <2>1. b = Book(pair_balances, a) + (IF a = o THEN amount ELSE 0)
                                   - (IF a = s THEN returned ELSE 0)
    BY <1>2, <1>5, <1>6, <1>7, <1>10, HopBook
  <2>2. bal[PoolManager][a] + In(a) + shortfall[a]
          >= Book(pair_balances, a) + Locked(a) + Out(a) + InHop(a)
    BY BackedIff DEF Inv2
  <2>3. Parts
    BY <1>1, PartTypes
  <2>4. w + h <= (IF a = s THEN returned ELSE 0) + q
        /\ w \in Nat /\ h \in Nat /\ q \in Nat
    BY <1>7, <1>11, <1>17
  <2>5. f = shortfall[a] + q /\ l = Locked(a) /\ n = 0 /\ bal' = bal
    BY <1>2, <1>16, <1>18 DEF Locked
  <2>6. InHop(a) = (IF a = o THEN amount ELSE 0) /\ In(a) = 0 /\ Out(a) = 0
    BY <1>11, <1>16
  <2> HIDE DEF q, f, w, h, b, l, n
  <2>7. bal[PoolManager][a] + n + f >= b + l + w + h
    BY <1>7, <2>1, <2>2, <2>3, <2>4, <2>5, <2>6 DEF Parts
  <2>8. QED
    BY <2>5, <2>7 DEF f, w, h, b, l, n
<1>20. Backed'
  BY <1>19, BackedIff
<1>21. ~Idle' => PoolsOK(saved'.pair_balances) /\ RestBacked(saved')
  BY <1>2 DEF Inv2, Idle
<1>22. QED
  BY <1>14, <1>15, <1>20, <1>21 DEF Inv2

(* Both sides of the book fall by n. *)
LEMMA WithdrawBook ==
  ASSUME NEW pb, IsBook(pb), PoolsOK(pb), NEW k \in DOMAIN pb, k \in PairKeys, NEW n \in Nat,
         \A i \in 1..2 : n <= pb[k][i].amount, NEW a
  PROVE  /\ SameButAmounts(pb, DecreasePair(pb, k, <<n, n>>), k)
         /\ Book(DecreasePair(pb, k, <<n, n>>), a)
              = Book(pb, a) - (IF a = pb[k][1].info \/ a = pb[k][2].info THEN n ELSE 0)
<1> DEFINE qb == DecreasePair(pb, k, <<n, n>>)
<1>1. /\ IsBook(qb) /\ SameButAmounts(pb, qb, k)
      /\ \A i \in {1, 2} : qb[k][i].amount = pb[k][i].amount - n
  BY DecreaseFacts
<1> HIDE DEF qb
<1>2. Book(qb, a) = Book(pb, a) + Gain(pb, qb, k, 1, a) + Gain(pb, qb, k, 2, a)
  BY <1>1, BookChange
<1>3. pb[k][1].amount \in Nat /\ pb[k][2].amount \in Nat
  <2>1. pb[k] \in Asset \X Asset
    BY DEF IsBook
  <2>2. pb[k][1] \in Asset /\ pb[k][2] \in Asset
    BY <2>1
  <2>3. QED
    BY <2>2, PinaColadaAssumption DEF Asset, Uint128
<1>4. Book(pb, a) \in Nat
  BY BookType
<1>5. /\ Gain(pb, qb, k, 1, a) = IF a = pb[k][1].info THEN -n ELSE 0
      /\ Gain(pb, qb, k, 2, a) = IF a = pb[k][2].info THEN -n ELSE 0
  BY <1>1, <1>3 DEF Gain
<1>6. pb[k][1].info # pb[k][2].info
  BY DEF PoolsOK
<1>7. QED
  BY <1>1, <1>2, <1>4, <1>5, <1>6 DEF qb

LEMMA WithdrawInv2 ==
  ASSUME Inv2, Inv1', NEW u \in Users, NEW t \in LpTokens, NEW k \in DOMAIN pools,
         NEW n \in Amounts, WithdrawLiquidity(u, t, k, n)
  PROVE  Inv2'
<1> DEFINE pb == pair_balances[k]
           refund == [i \in 1..2 |-> ShareInAssets(pb[i].amount, n, supply[t])]
           x1 == pb[1].info
           x2 == pb[2].info
           r1 == refund[1]
           r2 == refund[2]
           m1 == Message("transfer", x1, PoolManager, t, r1)
           m2 == Message("transfer", x2, PoolManager, t, r2)
           m3 == Message("burn", t, PoolManager, PoolManager, n)
<1>1. Inv1 /\ StorageTypes
  BY TypeOKIff DEF Inv1, Inv2
<1>2. /\ Idle /\ kind' = "withdraw" /\ saved' = Snapshot /\ msgs' = <<m1, m2, m3>> /\ next' = 0
      /\ supply' = supply
  BY DEF WithdrawLiquidity, Begin
<1>3. /\ n > 0 /\ n <= bal[u][t] /\ n < supply[t]
      /\ \A i \in 1..2 : n <= pb[i].amount
      /\ bal' = Move(bal, u, PoolManager, t, n)
      /\ pair_balances' = DecreasePair(pair_balances, k, <<n, n>>)
  BY DEF WithdrawLiquidity
<1>4. shortfall' = [a \in Assets |-> shortfall[a]
                      + (CASE a = x1 -> Excess(r1, n)
                           [] a = x2 -> Excess(r2, n)
                           [] OTHER -> 0)]
  BY DEF WithdrawLiquidity
<1>5. k \in DOMAIN pair_balances /\ k \in PairKeys /\ IsBook(pair_balances)
  BY <1>1 DEF StorageTypes
<1>6. n \in Nat /\ t \in Assets /\ t \in Accounts /\ supply[t] \in Nat
      /\ x1 \in Assets /\ x2 \in Assets /\ x1 # x2
  <2>1. pb \in Asset \X Asset
    BY <1>5 DEF IsBook
  <2>2. pb[1] \in Asset /\ pb[2] \in Asset
    BY <2>1
  <2>3. x1 # x2
    BY <1>5 DEF Inv2, PoolsOK
  <2>4. QED
    BY <1>1, <2>2, <2>3, PinaColadaAssumption
       DEF StorageTypes, Asset, Uint128, Assets, Accounts
<1>7. r1 \in Nat /\ r2 \in Nat
  <2>1. pb \in Asset \X Asset
    BY <1>5 DEF IsBook
  <2>2. pb[1].amount \in Nat /\ pb[2].amount \in Nat
    BY <2>1, PinaColadaAssumption DEF Asset, Uint128
  <2>3. /\ ShareInAssets(pb[1].amount, n, supply[t]) \in 0..pb[1].amount
        /\ ShareInAssets(pb[2].amount, n, supply[t]) \in 0..pb[2].amount
    BY <1>3, <1>6, <2>2, ShareBound
  <2>4. QED
    BY <2>2, <2>3
<1> HIDE DEF pb, refund, x1, x2, r1, r2
<1>8. /\ m1.op = "transfer" /\ m1.asset = x1 /\ m1.amount = r1
      /\ m2.op = "transfer" /\ m2.asset = x2 /\ m2.amount = r2
      /\ m3.op = "burn" /\ m3.asset = t /\ m3.amount = n
  BY DEF Message
<1> HIDE DEF m1, m2, m3
<1>9. /\ msgs' \in Seq(Messages) /\ Len(msgs') = 3
      /\ msgs'[1] = m1 /\ msgs'[2] = m2 /\ msgs'[3] = m3
  <2>1. msgs' \in Seq(Messages)
    BY TypeOKIff DEF Inv1, TxnTypes
  <2>2. QED
    BY <1>2, <2>1
<1>10. \A m \in 1..Len(msgs') : msgs'[m].op \in {"transfer", "burn"}
  <2> SUFFICES ASSUME NEW m \in 1..3 PROVE msgs'[m].op \in {"transfer", "burn"}
    BY <1>9
  <2>1. m = 1 \/ m = 2 \/ m = 3
    OBVIOUS
  <2>2. QED
    BY <1>8, <1>9, <2>1
<1>11. PathOK' /\ MessageKinds' /\ LockFirst'
  BY <1>2, <1>10 DEF PathOK, MessageKinds, Kinds, LockFirst
<1>12. PoolsOK(pair_balances')
  BY <1>3, <1>5, <1>6, WithdrawBook, SamePools DEF Inv2, pb
<1>13. ASSUME NEW a \in Assets
       PROVE  bal'[PoolManager][a] + In(a)' + shortfall'[a]
                >= Book(pair_balances', a) + Locked(a)' + Out(a)' + InHop(a)'
  <2> DEFINE e == shortfall'[a]
             w == Out(a)'
             b == Book(pair_balances', a)
             h == bal'[PoolManager][a]
  <2>1. /\ bal[PoolManager][a] + shortfall[a] >= Book(pair_balances, a) + Locked(a)
        /\ bal[PoolManager][a] \in Nat /\ shortfall[a] \in Nat
        /\ Book(pair_balances, a) \in Nat /\ Locked(a) \in Nat
    BY <1>2, IdleBacked
  <2>2. h = bal[PoolManager][a] + (IF a = t THEN n ELSE 0)
    BY <1>1, <1>3, <1>6, PaidIn
  <2>3. b = Book(pair_balances, a) - (IF a = x1 \/ a = x2 THEN n ELSE 0)
    BY <1>3, <1>5, <1>6, WithdrawBook DEF Inv2, pb, x1, x2
  <2>4. w = (IF a = x1 THEN r1 ELSE 0) + (IF a = x2 THEN r2 ELSE 0) + (IF a = t THEN n ELSE 0)
    <3>1. /\ Counted(m1, {"transfer", "burn"}, a) = IF a = x1 THEN r1 ELSE 0
          /\ Counted(m2, {"transfer", "burn"}, a) = IF a = x2 THEN r2 ELSE 0
          /\ Counted(m3, {"transfer", "burn"}, a) = IF a = t THEN n ELSE 0
      BY <1>8 DEF Counted
    <3>2. w = Total(ToCome(msgs', 0, {"transfer", "burn"}, a))
      BY <1>2, PendingIs DEF Out
    <3>3. QED
      BY <1>9, <3>1, <3>2, ThreeToCome
  <2>5. e = shortfall[a] + (IF a = x1 THEN Excess(r1, n)
                            ELSE IF a = x2 THEN Excess(r2, n) ELSE 0)
    <3>1. CASE a = x1
      BY <1>4, <1>6, <3>1
    <3>2. CASE a = x2
      BY <1>4, <1>6, <3>2
    <3>3. CASE a # x1 /\ a # x2
      BY <1>4, <3>3
    <3>4. QED
      BY <3>1, <3>2, <3>3
  <2>6. In(a)' = 0 /\ InHop(a)' = 0 /\ Locked(a)' = Locked(a)
    <3>1. In(a)' = 0
      BY <1>2, <1>9, <1>10, PendingIs, NothingToCome DEF In
    <3>2. QED
      BY <1>2, <3>1 DEF InHop, InSwapLoop, Locked
  <2> HIDE DEF e, w, b, h
  <2>7. h + 0 + e >= b + Locked(a) + w + 0
    BY <1>6, <1>7, <2>1, <2>2, <2>3, <2>4, <2>5 DEF Excess
  <2>8. QED
    BY <2>6, <2>7 DEF e, w, b, h
<1>14. Backed'
  BY <1>13, BackedIff
<1>15. QED
  BY <1>2, <1>11, <1>12, <1>14, SavedBacked DEF Inv2
-----------------------------------------------------------------------------
(* Dispatching a message: what leaves the account was to leave it, and what *)
(* arrives was to arrive.                                                  *)
LEMMA DispatchedInv2 ==
  ASSUME Inv2, Inv1', Dispatched, next < Len(msgs), LockFirst',
         \A a \in Assets :
           bal'[PoolManager][a] + Counted(Current, {"transfer", "burn"}, a) + Locked(a)
             >= bal[PoolManager][a] + Counted(Current, {"transfer_from"}, a) + Locked(a)'
  PROVE  Inv2'
<1>1. Inv1 /\ msgs \in Seq(Messages) /\ next \in Nat
  BY TypeOKIff DEF Inv1, Inv2, TxnTypes
<1>2. /\ next' = next + 1
      /\ UNCHANGED <<pair_balances, kind, path, hop, amount, msgs, saved, shortfall>>
  BY DEF Dispatched, storage
<1>3. \A a : /\ In(a)' = In(a) - Counted(Current, {"transfer_from"}, a)
             /\ Out(a)' = Out(a) - Counted(Current, {"transfer", "burn"}, a)
             /\ Counted(Current, {"transfer_from"}, a) \in Nat
             /\ Counted(Current, {"transfer", "burn"}, a) \in Nat
  BY <1>1, <1>2, Dispatching1, PendingIs DEF In, Out, Current
<1>4. ASSUME NEW a \in Assets
      PROVE  bal'[PoolManager][a] + In(a)' + shortfall'[a]
               >= Book(pair_balances', a) + Locked(a)' + Out(a)' + InHop(a)'
  <2> DEFINE b == bal'[PoolManager][a]
             i == In(a)'
             w == Out(a)'
             l == Locked(a)'
             x == Counted(Current, {"transfer_from"}, a)
             y == Counted(Current, {"transfer", "burn"}, a)
  <2>1. bal[PoolManager][a] + In(a) + shortfall[a]
          >= Book(pair_balances, a) + Locked(a) + Out(a) + InHop(a)
    BY BackedIff DEF Inv2
  <2>2. /\ bal[PoolManager][a] \in Nat /\ shortfall[a] \in Nat
        /\ Book(pair_balances, a) \in Nat /\ Locked(a) \in Nat /\ InHop(a) \in Nat
        /\ In(a) \in Nat /\ Out(a) \in Nat
    BY <1>1, PartTypes DEF Parts
  <2>3. b \in Nat /\ i \in Nat /\ w \in Nat /\ l \in Nat
    BY PartTypesNext DEF Parts
  <2>4. i = In(a) - x /\ w = Out(a) - y /\ x \in Nat /\ y \in Nat
    BY <1>3
  <2>5. b + y + Locked(a) >= bal[PoolManager][a] + x + l
    OBVIOUS
  <2>6. InHop(a)' = InHop(a)
    BY <1>2 DEF InHop, InSwapLoop
  <2> HIDE DEF b, i, w, l, x, y
  <2>7. b + i + shortfall[a] >= Book(pair_balances, a) + l + w + InHop(a)
    <3> DEFINE B == Book(pair_balances, a)
               L == Locked(a)
               H == InHop(a)
               n == bal[PoolManager][a]
               s == shortfall[a]
               I == In(a)
               O == Out(a)
    <3> HIDE DEF B, L, H, n, s, I, O
    <3>1. /\ n \in Nat /\ s \in Nat /\ B \in Nat /\ L \in Nat /\ H \in Nat
          /\ I \in Nat /\ O \in Nat
      BY <2>2 DEF n, s, B, L, H, I, O
    <3>2. n + I + s >= B + L + O + H
      BY <2>1 DEF n, s, B, L, H, I, O
    <3>3. b + y + L >= n + x + l
      BY <2>5 DEF n, L
    <3>4. I = i + x /\ O = w + y /\ x \in Nat /\ y \in Nat
      BY <2>3, <2>4, <3>1 DEF I, O
    <3>5. n + (i + x) + s >= B + L + (w + y) + H
      BY <3>2, <3>4
    <3>6. b + i + s >= B + l + w + H
      BY <2>3, <3>1, <3>3, <3>4, <3>5
    <3>7. QED
      BY <3>6 DEF B, s, H
  <2>8. QED
    BY <1>2, <2>6, <2>7 DEF b, i, w, l
<1>5. Backed'
  BY <1>4, BackedIff
<1>6. PathOK' /\ MessageKinds' /\ PoolsOK(pair_balances')
  BY <1>2 DEF Inv2, PathOK, MessageKinds
<1>7. ~Idle' => PoolsOK(saved'.pair_balances) /\ RestBacked(saved')
  BY <1>2 DEF Inv2, Idle
<1>8. QED
  BY <1>5, <1>6, <1>7 DEF Inv2

(* The lock still stands before the other mints when another message than  *)
(* the lock itself has been dispatched.                                    *)
LEMMA LockFirstNext ==
  ASSUME Inv2, Dispatched, next < Len(msgs),
         \A m \in 1..Len(msgs) : msgs[m].op = "mint" /\ supply'[msgs[m].asset] = 0 =>
           supply[msgs[m].asset] = 0 /\ ~Locks(Current, msgs[m].asset)
  PROVE  LockFirst'
<1>1. next' = next + 1 /\ msgs' = msgs
  BY DEF Dispatched
<1>2. next \in Nat /\ Len(msgs) \in Nat
  BY TypeOKIff DEF Inv2, Inv1, TxnTypes
<1> SUFFICES ASSUME NEW m \in 1..Len(msgs), m > next + 1, msgs[m].op = "mint",
                    supply'[msgs[m].asset] = 0
             PROVE  \E j \in 1..m : j > next + 1 /\ Locks(msgs[j], msgs[m].asset)
  BY <1>1 DEF LockFirst
<1>3. m > next
  BY <1>2
<1>4. PICK j \in 1..m : j > next /\ Locks(msgs[j], msgs[m].asset)
  BY <1>3 DEF Inv2, LockFirst
<1>5. j # next + 1
  BY <1>4 DEF Current
<1>6. QED
  BY <1>2, <1>4, <1>5

LEMMA DispatchTransferInv2 ==
  ASSUME Inv2, Inv1', DispatchTransfer
  PROVE  Inv2'
<1> DEFINE m == Current
<1>1. /\ next < Len(msgs) /\ m.op \in {"transfer", "transfer_from"}
      /\ m.amount <= bal[m.from][m.asset]
      /\ bal' = Move(bal, m.from, m.to, m.asset, m.amount)
      /\ Dispatched /\ supply' = supply
  BY DEF DispatchTransfer, Dispatching
<1>2. m \in Messages /\ bal \in Holdings
  BY <1>1, CurrentType, TypeOKIff DEF Inv2, Inv1, StorageTypes
<1> HIDE DEF m
<1>3. /\ m.from \in Accounts /\ m.to \in Accounts /\ m.asset \in Assets /\ m.amount \in Nat
      /\ m.op = "transfer" => m.from = PoolManager
      /\ m.op = "transfer_from" => m.from # PoolManager /\ m.to = PoolManager
  BY <1>1, <1>2, PinaColadaAssumption DEF Messages, Accounts, Uint128
<1>4. PoolManager \in Accounts
  BY DEF Accounts
<1>5. ASSUME NEW a \in Assets
      PROVE  bal'[PoolManager][a] + Counted(m, {"transfer", "burn"}, a) + Locked(a)
               >= bal[PoolManager][a] + Counted(m, {"transfer_from"}, a) + Locked(a)'
  <2> DEFINE b == bal'[PoolManager][a]
             x == Counted(m, {"transfer_from"}, a)
             y == Counted(m, {"transfer", "burn"}, a)
  <2>1. b = bal[PoolManager][a]
              - (IF PoolManager = m.from /\ a = m.asset THEN m.amount ELSE 0)
              + (IF PoolManager = m.to /\ a = m.asset THEN m.amount ELSE 0)
    BY <1>1, <1>2, <1>3, <1>4, MoveEffect
  <2>2. Locked(a)' = Locked(a) /\ Locked(a) \in Nat /\ bal[PoolManager][a] \in Nat
    BY <1>1, PartTypes DEF Locked, Inv2, Parts
  <2>3. x = (IF m.op = "transfer_from" /\ a = m.asset THEN m.amount ELSE 0)
        /\ y = (IF m.op = "transfer" /\ a = m.asset THEN m.amount ELSE 0)
    BY <1>1 DEF Counted
  <2> HIDE DEF b, x, y
  <2>4. b + y >= bal[PoolManager][a] + x
    <3>1. CASE m.op = "transfer"
      BY <1>3, <2>1, <2>2, <2>3, <3>1
    <3>2. CASE m.op = "transfer_from"
      BY <1>3, <2>1, <2>2, <2>3, <3>2
    <3>3. QED
      BY <1>1, <3>1, <3>2
  <2>5. b \in Int /\ x \in Int /\ y \in Int
    BY <1>3, <2>1, <2>2, <2>3
  <2>6. QED
    BY <2>2, <2>4, <2>5 DEF b, x, y
<1>6. LockFirst'
  <2>1. \A l : ~Locks(Current, l)
    BY <1>1 DEF Locks, m
  <2>2. QED
    BY <1>1, <2>1, LockFirstNext
<1>7. QED
  BY <1>1, <1>5, <1>6, DispatchedInv2 DEF m

(* The first mint of an LP token is the minimum liquidity. *)
LEMMA DispatchMintInv2 ==
  ASSUME Inv2, Inv1', DispatchMint
  PROVE  Inv2'
<1> DEFINE m == Current
           l == m.asset
<1>1. /\ next < Len(msgs) /\ m.op = "mint" /\ m.amount > 0
      /\ supply' = [supply EXCEPT ![l] = @ + m.amount]
      /\ bal' = Credit(bal, m.to, l, m.amount)
      /\ Dispatched
  BY DEF DispatchMint, Dispatching
<1>2. m \in Messages /\ bal \in Holdings /\ supply \in [LpTokens -> Nat] /\ next \in Nat
  BY <1>1, CurrentType, TypeOKIff, PinaColadaAssumption
     DEF Inv2, Inv1, StorageTypes, TxnTypes, Uint128
<1>3. supply[l] = 0 => Locks(m, l)
  <2> SUFFICES ASSUME supply[l] = 0 PROVE Locks(m, l)
    OBVIOUS
  <2>1. next + 1 \in 1..Len(msgs) /\ next + 1 > next /\ m = msgs[next + 1]
    BY <1>1, TypeOKIff DEF Inv2, Inv1, TxnTypes, Current
  <2>2. PICK j \in 1..(next + 1) : j > next /\ Locks(msgs[j], l)
    BY <1>1, <2>1 DEF Inv2, LockFirst
  <2>3. j = next + 1
    BY <1>2, <2>2
  <2>4. QED
    BY <2>1, <2>2, <2>3
<1> HIDE DEF m
<1>4. m.to \in Accounts /\ l \in LpTokens /\ l \in Assets /\ m.amount \in Nat
  BY <1>1, <1>2, PinaColadaAssumption DEF Messages, Assets, Uint128
<1>5. PoolManager \in Accounts /\ MINIMUM_LIQUIDITY_AMOUNT \in Nat
  BY PinaColadaAssumption DEF Accounts
<1>6. /\ \A z \in LpTokens \ {l} : supply'[z] = supply[z]
      /\ supply[l] \in Nat /\ supply'[l] = supply[l] + m.amount
  BY <1>1, <1>2, <1>4
<1>7. ASSUME NEW a \in Assets
      PROVE  bal'[PoolManager][a] + Counted(m, {"transfer", "burn"}, a) + Locked(a)
               >= bal[PoolManager][a] + Counted(m, {"transfer_from"}, a) + Locked(a)'
  <2> DEFINE b == bal'[PoolManager][a]
             k == Locked(a)'
  <2>1. b = bal[PoolManager][a] + (IF PoolManager = m.to /\ a = l THEN m.amount ELSE 0)
    BY <1>1, <1>2, <1>4, <1>5 DEF Credit, Holdings
  <2>2. bal[PoolManager][a] \in Nat
    BY PartTypes DEF Inv2, Parts
  <2>3. Counted(m, {"transfer_from"}, a) = 0 /\ Counted(m, {"transfer", "burn"}, a) = 0
    BY <1>1 DEF Counted
  <2>4. k = LockedIn(supply', a) /\ Locked(a) = LockedIn(supply, a)
    BY LockedIff
  <2> HIDE DEF b, k
  <2>5. b + Locked(a) >= bal[PoolManager][a] + k /\ b \in Nat /\ Locked(a) \in Nat /\ k \in Nat
    <3>1. CASE a # l
      <4>1. k = Locked(a) /\ k \in Nat
        BY <1>5, <1>6, <2>4, <3>1 DEF LockedIn
      <4>2. QED
        BY <2>1, <2>2, <3>1, <4>1
    <3>2. CASE a = l /\ supply[l] > 0
      <4>1. k = Locked(a) /\ k \in Nat
        BY <1>4, <1>5, <1>6, <2>4, <3>2 DEF LockedIn
      <4>2. QED
        BY <1>4, <2>1, <2>2, <3>2, <4>1
    <3>3. CASE a = l /\ supply[l] = 0
      <4>1. k = MINIMUM_LIQUIDITY_AMOUNT /\ Locked(a) = 0
        BY <1>1, <1>4, <1>6, <2>4, <3>3 DEF LockedIn
      <4>2. m.to = PoolManager /\ m.amount = MINIMUM_LIQUIDITY_AMOUNT
        BY <1>3, <3>3 DEF Locks
      <4>3. QED
        BY <1>5, <2>1, <2>2, <3>3, <4>1, <4>2
    <3>4. QED
      BY <1>6, <3>1, <3>2, <3>3
  <2>6. QED
    BY <2>2, <2>3, <2>5 DEF b, k
<1>8. LockFirst'
  <2>1. ASSUME NEW j \in 1..Len(msgs), msgs[j].op = "mint", supply'[msgs[j].asset] = 0
        PROVE  supply[msgs[j].asset] = 0 /\ ~Locks(m, msgs[j].asset)
    <3>1. msgs[j].asset # l
      BY <1>1, <1>4, <1>6, <2>1
    <3>2. msgs[j].asset \in LpTokens
      <4>1. msgs[j] \in Messages
        BY TypeOKIff DEF Inv2, Inv1, TxnTypes
      <4>2. QED
        BY <2>1, <4>1 DEF Messages
    <3>3. QED
      BY <1>6, <2>1, <3>1, <3>2 DEF Locks
  <2>2. QED
    BY <1>1, <2>1, LockFirstNext DEF m
<1>9. QED
  BY <1>1, <1>7, <1>8, DispatchedInv2 DEF m

LEMMA DispatchBurnInv2 ==
  ASSUME Inv2, Inv1', DispatchBurn
  PROVE  Inv2'
<1> DEFINE m == Current
           l == m.asset
<1>1. /\ next < Len(msgs) /\ m.op = "burn" /\ m.amount <= bal[PoolManager][l]
      /\ supply' = [supply EXCEPT ![l] = @ - m.amount]
      /\ bal' = Debit(bal, PoolManager, l, m.amount)
      /\ Dispatched
  BY DEF DispatchBurn, Dispatching
<1>2. m \in Messages /\ bal \in Holdings /\ supply \in [LpTokens -> Nat]
  BY <1>1, CurrentType, TypeOKIff, PinaColadaAssumption DEF Inv2, Inv1, StorageTypes, Uint128
<1>3. kind = "withdraw"
  <2>1. next + 1 \in 1..Len(msgs) /\ m = msgs[next + 1]
    BY <1>1, TypeOKIff DEF Inv2, Inv1, TxnTypes, Current
  <2>2. m.op \in Kinds(kind)
    BY <2>1 DEF Inv2, MessageKinds
  <2>3. QED
    BY <1>1, <2>2, TypeOKIff DEF Kinds, Inv2, Inv1, TxnTypes
<1> HIDE DEF m
<1>4. l \in LpTokens /\ l \in Assets /\ m.amount \in Nat /\ PoolManager \in Accounts
      /\ MINIMUM_LIQUIDITY_AMOUNT \in Nat
  BY <1>1, <1>2, PinaColadaAssumption DEF Messages, Assets, Uint128, Accounts
<1>5. /\ \A z \in LpTokens \ {l} : supply'[z] = supply[z]
      /\ supply[l] \in Nat /\ supply'[l] = supply[l] - m.amount
  BY <1>1, <1>2, <1>4
<1>6. ASSUME NEW a \in Assets
      PROVE  bal'[PoolManager][a] + Counted(m, {"transfer", "burn"}, a) + Locked(a)
               >= bal[PoolManager][a] + Counted(m, {"transfer_from"}, a) + Locked(a)'
  <2> DEFINE b == bal'[PoolManager][a]
             k == Locked(a)'
             y == Counted(m, {"transfer", "burn"}, a)
  <2>1. b = bal[PoolManager][a] - (IF a = l THEN m.amount ELSE 0)
    BY <1>1, <1>2, <1>4, PartTypes, SMTT(30) DEF Debit, Holdings, Inv2, Parts
  <2>2. bal[PoolManager][a] \in Nat
    BY PartTypes DEF Inv2, Parts
  <2>3. Counted(m, {"transfer_from"}, a) = 0 /\ y = IF a = l THEN m.amount ELSE 0
    BY <1>1 DEF Counted
  <2>4. k = LockedIn(supply', a) /\ Locked(a) = LockedIn(supply, a)
    BY LockedIff
  <2> HIDE DEF b, k, y
  <2>5. k <= Locked(a) /\ k \in Nat /\ Locked(a) \in Nat
    <3>1. CASE a = l
      BY <1>4, <1>5, <2>4, <3>1 DEF LockedIn
    <3>2. CASE a # l
      BY <1>4, <1>5, <2>4, <3>2 DEF LockedIn
    <3>3. QED
      BY <3>1, <3>2
  <2>6. b + y = bal[PoolManager][a] /\ b \in Int /\ y \in Int
    BY <1>4, <2>1, <2>2, <2>3
  <2>7. QED
    BY <2>2, <2>3, <2>5, <2>6 DEF b, k, y
<1>7. LockFirst'
  <2>1. \A j \in 1..Len(msgs) : msgs[j].op # "mint"
    BY <1>3 DEF Inv2, MessageKinds, Kinds
  <2>2. QED
    BY <1>1, <2>1, LockFirstNext
<1>8. QED
  BY <1>1, <1>6, <1>7, DispatchedInv2 DEF m
-----------------------------------------------------------------------------
(* At a commit nothing is left to come. *)
LEMMA CommitInv2 ==
  ASSUME Inv2, Inv1', Commit
  PROVE  Inv2'
<1>1. /\ kind' = "none" /\ msgs' = <<>> /\ next' = 0
      /\ ~InSwapLoop /\ next = Len(msgs)
      /\ UNCHANGED <<pair_balances, supply, bal, shortfall>>
  BY DEF Commit, End, storage, tokens
<1>2. msgs \in Seq(Messages) /\ next \in Nat
  BY TypeOKIff DEF Inv1, Inv2, TxnTypes
<1>3. \A a : In(a) = 0 /\ Out(a) = 0 /\ InHop(a) = 0
  <2>1. \A m \in 1..Len(msgs) : ~(m > next)
    BY <1>1, <1>2
  <2>2. QED
    BY <1>1, <1>2, <2>1, PendingIs, NothingToCome DEF In, Out, InHop
<1>4. \A a : In(a)' = 0 /\ Out(a)' = 0 /\ InHop(a)' = 0 /\ Locked(a)' = Locked(a)
  BY <1>1, NoMessages DEF InHop, InSwapLoop, Locked
<1>5. Backed'
  BY <1>1, <1>3, <1>4, BackedIff DEF Inv2
<1>6. PathOK' /\ MessageKinds' /\ LockFirst' /\ Idle'
  BY <1>1 DEF PathOK, MessageKinds, LockFirst, Idle
<1>7. QED
  BY <1>1, <1>5, <1>6 DEF Inv2

(* A rollback restores what was covered when the transaction began. *)
LEMMA RevertInv2 ==
  ASSUME Inv2, Inv1', Revert
  PROVE  Inv2'
<1>1. /\ kind' = "none" /\ msgs' = <<>> /\ next' = 0 /\ ~Idle
      /\ pair_balances' = saved.pair_balances /\ supply' = saved.supply
      /\ bal' = saved.bal /\ shortfall' = saved.shortfall
  BY DEF Revert, End
<1>2. PoolsOK(saved.pair_balances) /\ RestBacked(saved)
  BY <1>1 DEF Inv2
<1>3. \A a : In(a)' = 0 /\ Out(a)' = 0 /\ InHop(a)' = 0
  BY <1>1, NoMessages DEF InHop, InSwapLoop
<1>4. ASSUME NEW a \in Assets
      PROVE  bal'[PoolManager][a] + In(a)' + shortfall'[a]
               >= Book(pair_balances', a) + Locked(a)' + Out(a)' + InHop(a)'
  <2>1. bal'[PoolManager][a] + shortfall'[a] >= Book(pair_balances', a) + Locked(a)'
    BY <1>1, <1>2, LockedIff DEF RestBacked
  <2>2. Parts'
    BY PartTypesNext
  <2>3. QED
    BY <1>3, <2>1, <2>2 DEF Parts
<1>5. Backed'
  BY <1>4, BackedIff
<1>6. PathOK' /\ MessageKinds' /\ LockFirst' /\ Idle'
  BY <1>1 DEF PathOK, MessageKinds, LockFirst, Idle
<1>7. QED
  BY <1>1, <1>2, <1>5, <1>6 DEF Inv2

(* Between transactions users can only add to what the contract holds. *)
LEMMA UserInv2 ==
  ASSUME Inv2, Inv1', Idle, UNCHANGED <<storage, deployed, txn, shortfall>>,
         \A a \in Assets : /\ bal'[PoolManager][a] >= bal[PoolManager][a]
                           /\ Locked(a)' <= Locked(a)
  PROVE  Inv2'
<1>1. UNCHANGED <<pair_balances, kind, path, hop, amount, msgs, next, shortfall>>
  BY DEF storage, txn
<1>2. msgs = <<>> /\ next = 0
  BY TypeOKIff DEF Inv2, Inv1, TxnTypes
<1>3. \A a : In(a)' = 0 /\ Out(a)' = 0 /\ InHop(a)' = 0
  BY <1>1, <1>2, NoMessages DEF InHop, InSwapLoop, Idle
<1>4. ASSUME NEW a \in Assets
      PROVE  bal'[PoolManager][a] + In(a)' + shortfall'[a]
               >= Book(pair_balances', a) + Locked(a)' + Out(a)' + InHop(a)'
  <2>1. /\ bal[PoolManager][a] + shortfall[a] >= Book(pair_balances, a) + Locked(a)
        /\ bal[PoolManager][a] \in Nat /\ shortfall[a] \in Nat
        /\ Book(pair_balances, a) \in Nat /\ Locked(a) \in Nat
    BY IdleBacked
  <2>2. bal'[PoolManager][a] \in Nat /\ Locked(a)' \in Nat
    BY PartTypesNext DEF Parts
  <2>3. QED
    BY <1>1, <1>3, <2>1, <2>2
<1>5. Backed'
  BY <1>4, BackedIff
<1>6. PathOK' /\ MessageKinds' /\ LockFirst' /\ Idle'
  BY <1>1, <1>2 DEF PathOK, MessageKinds, LockFirst, Idle
<1>7. QED
  BY <1>1, <1>5, <1>6 DEF Inv2

LEMMA UserTransferInv2 ==
  ASSUME Inv2, Inv1', NEW u \in Users, NEW to \in Receivers, NEW a \in Assets, NEW n \in Amounts,
         UserTransfer(u, to, a, n)
  PROVE  Inv2'
<1>1. /\ Idle /\ n <= bal[u][a] /\ bal' = Move(bal, u, to, a, n) /\ supply' = supply
      /\ UNCHANGED <<storage, deployed, txn, shortfall>>
  BY DEF UserTransfer
<1>2. u \in Accounts /\ to \in Accounts /\ n \in Nat /\ PoolManager \in Accounts
      /\ u # PoolManager /\ bal \in Holdings
  BY PinaColadaAssumption, TypeOKIff DEF Accounts, Uint128, Inv2, Inv1, StorageTypes
<1>3. ASSUME NEW z \in Assets
      PROVE  bal'[PoolManager][z] >= bal[PoolManager][z] /\ Locked(z)' <= Locked(z)
  <2>1. bal'[PoolManager][z] = bal[PoolManager][z]
          - (IF PoolManager = u /\ z = a THEN n ELSE 0)
          + (IF PoolManager = to /\ z = a THEN n ELSE 0)
    BY <1>1, <1>2, MoveEffect
  <2>2. bal[PoolManager][z] \in Nat /\ Locked(z) \in Nat
    BY PartTypes DEF Inv2, Parts
  <2>3. Locked(z)' = Locked(z)
    BY <1>1 DEF Locked
  <2>4. QED
    BY <1>2, <2>1, <2>2, <2>3
<1>4. QED
  BY <1>1, <1>3, UserInv2

(* A holder's burn takes nothing from the contract and may end a lock. *)
LEMMA UserBurnInv2 ==
  ASSUME Inv2, Inv1', NEW u \in Users, NEW l \in LpTokens, NEW n \in Amounts, UserBurn(u, l, n)
  PROVE  Inv2'
<1>1. /\ Idle /\ n <= bal[u][l] /\ bal' = Debit(bal, u, l, n)
      /\ supply' = [supply EXCEPT ![l] = @ - n]
      /\ UNCHANGED <<storage, deployed, txn, shortfall>>
  BY DEF UserBurn
<1>2. /\ u \in Accounts /\ n \in Nat /\ PoolManager \in Accounts /\ u # PoolManager
      /\ bal \in Holdings /\ supply \in [LpTokens -> Nat] /\ MINIMUM_LIQUIDITY_AMOUNT \in Nat
  BY PinaColadaAssumption, TypeOKIff DEF Accounts, Uint128, Inv2, Inv1, StorageTypes
<1>3. ASSUME NEW z \in Assets
      PROVE  bal'[PoolManager][z] >= bal[PoolManager][z] /\ Locked(z)' <= Locked(z)
  <2>1. bal'[PoolManager][z] = bal[PoolManager][z] /\ bal[PoolManager][z] \in Nat
    BY <1>1, <1>2 DEF Debit, Holdings
  <2>2. \A k \in LpTokens : supply'[k] > 0 => supply[k] > 0
    BY <1>1, <1>2
  <2>3. LockedIn(supply', z) <= LockedIn(supply, z)
    BY <1>2, <2>2 DEF LockedIn
  <2>4. QED
    BY <2>1, <2>3, LockedIff
<1>4. QED
  BY <1>1, <1>3, UserInv2

LEMMA StutterInv2 == Inv2 /\ UNCHANGED vars => Inv2'
<1> SUFFICES ASSUME Inv2, UNCHANGED vars PROVE Inv2'
  OBVIOUS
<1>1. UNCHANGED <<storage, tokens, txn, shortfall>>
  BY DEF vars
<1>2. UNCHANGED <<pair_balances, supply, bal, kind, path, hop, amount, msgs, next, saved,
                  shortfall>>
  BY <1>1 DEF storage, tokens, txn
<1>3. Inv1'
  BY StutterInv1 DEF Inv2
<1>4. \A a : In(a)' = In(a) /\ Out(a)' = Out(a)
  BY <1>2, PendingIs DEF In, Out
<1>5. \A a : InHop(a)' = InHop(a) /\ Locked(a)' = Locked(a)
  BY <1>2 DEF InHop, InSwapLoop, Locked
<1>6. Backed'
  BY <1>2, <1>4, <1>5, BackedIff DEF Inv2
<1>7. PathOK' /\ MessageKinds' /\ LockFirst'
  BY <1>2 DEF Inv2, PathOK, MessageKinds, LockFirst
<1>8. QED
  BY <1>2, <1>3, <1>6, <1>7 DEF Inv2, Idle

LEMMA CallInv2 == Inv2 /\ Inv1' /\ Call => Inv2'
<1> SUFFICES ASSUME Inv2, Inv1', Call PROVE Inv2'
  OBVIOUS
<1>1. CASE \E req \in PairRequests : CreatePair(req)
  BY <1>1, CreatePairInv2
<1>2. CASE \E u \in Users, k \in DOMAIN pools, n1, n2 \in Amounts,
              to \in Receivers, share \in CurveOutputs :
             \E a, b \in k :
               /\ a # b
               /\ ProvideLiquidity(u, <<[info |-> a, amount |-> n1], [info |-> b, amount |-> n2]>>,
                                   to, share)
  <2>0. PICK u \in Users, k \in DOMAIN pools, n1 \in Amounts, n2 \in Amounts,
             to \in Receivers, share \in CurveOutputs :
               \E a, b \in k :
                 ProvideLiquidity(u, <<[info |-> a, amount |-> n1], [info |-> b, amount |-> n2]>>,
                                  to, share)
    BY <1>2
  <2>1. PICK a \in k, b \in k :
               ProvideLiquidity(u, <<[info |-> a, amount |-> n1], [info |-> b, amount |-> n2]>>,
                                to, share)
    BY <2>0
  <2>2. k \in PairKeys
    BY TypeOKIff DEF Inv2, Inv1, StorageTypes
  <2>3. a \in Assets /\ b \in Assets
    BY <2>2, KeyShape
  <2>4. <<[info |-> a, amount |-> n1], [info |-> b, amount |-> n2]>> \in Asset \X Asset
    BY <2>3, PinaColadaAssumption DEF Asset
  <2>5. QED
    BY <2>1, <2>4, ProvideInv2
<1>3. CASE \E u \in Users, ops \in Paths, n \in Amounts, to \in Receivers :
             ExecuteSwapOperations(u, ops, n, to)
  BY <1>3, ExecuteSwapInv2
<1>4. CASE \E u \in Users, t \in Cw20s \cup LpTokens, ops \in Paths, n \in Amounts,
              to \in Receivers : ReceiveSwap(u, t, ops, n, to)
  BY <1>4, ReceiveSwapInv2
<1>5. CASE \E u \in Users, t \in LpTokens, k \in DOMAIN pools, n \in Amounts :
             WithdrawLiquidity(u, t, k, n)
  BY <1>5, WithdrawInv2
<1>6. QED
  BY <1>1, <1>2, <1>3, <1>4, <1>5 DEF Call

LEMMA NextInv2 == Inv2 /\ [Next]_vars => Inv2'
<1> SUFFICES ASSUME Inv2, [Next]_vars PROVE Inv2'
  OBVIOUS
<1>1. Inv1'
  BY NextInv1 DEF Inv2
<1>2. CASE Call
  BY <1>1, <1>2, CallInv2
<1>3. CASE Run
  BY <1>1, <1>3, SwapHopInv2, InstantiateInv2, ReplyInv2, DispatchTransferInv2,
     DispatchMintInv2, DispatchBurnInv2, CommitInv2, RevertInv2 DEF Run
<1>4. CASE Environment
  BY <1>1, <1>4, UserTransferInv2, UserBurnInv2 DEF Environment
<1>5. CASE UNCHANGED vars
  BY <1>5, StutterInv2
<1>6. QED
  BY <1>2, <1>3, <1>4, <1>5 DEF Next

LEMMA Inv2Holds == Spec => []Inv2
<1>1. Init => Inv2
  BY InitInv2
<1>2. Inv2 /\ [Next]_vars => Inv2'
  BY NextInv2
<1>3. QED
  BY <1>1, <1>2, PTL DEF Spec

(* The contract's one account covers the books of all pools, the locked    *)
(* minimum liquidity and everything still to be paid or burned, at every   *)
(* step of every transaction and whatever the assets, paths and amounts,   *)
(* up to what the three named operations booked without moving it.         *)
THEOREM AlwaysBacked == Spec => []Backed
<1>1. Inv2 => Backed
  BY DEF Inv2
<1>2. QED
  BY <1>1, Inv2Holds, PTL
-----------------------------------------------------------------------------
(* The first-deposit branch runs once per LP token. *)

KeepsPositive ==
  \A l \in LpTokens :
    shortfall[l] = 0 /\ supply[l] > 0 /\ supply'[l] = 0 => ~Idle /\ supply' = saved.supply

(* What the contract keeps of an LP token, the supply cannot fall below. *)
LEMMA SupplyAboveLock ==
  ASSUME Inv1', NEW l \in LpTokens, bal'[PoolManager][l] > 0
  PROVE  supply'[l] > 0
<1>1. bal' \in Holdings /\ Held(bal', supply') /\ supply' \in [LpTokens -> Nat]
  BY TypeOKIff, HeldIff, PinaColadaAssumption DEF Inv1, StorageTypes, Uint128
<1>2. PoolManager \in Accounts /\ l \in Assets
  BY DEF Accounts, Assets
<1>3. bal'[PoolManager][l] <= supply'[l]
  BY <1>1, <1>2, HoldingBound DEF Held
<1>4. bal'[PoolManager][l] \in Nat /\ supply'[l] \in Nat
  BY <1>1, <1>2 DEF Holdings
<1>5. QED
  BY <1>3, <1>4

(* A withdrawal's burn takes what was sent in for it and leaves the lock. *)
LEMMA DispatchBurnPositive ==
  ASSUME Inv2, Inv1', DispatchBurn
  PROVE  KeepsPositive
<1> SUFFICES ASSUME NEW l \in LpTokens, shortfall[l] = 0, supply[l] > 0
             PROVE  supply'[l] # 0
  BY DEF KeepsPositive
<1> DEFINE m == Current
<1>1. /\ next < Len(msgs) /\ m.op = "burn"
      /\ supply' = [supply EXCEPT ![m.asset] = @ - m.amount]
      /\ bal' = Debit(bal, PoolManager, m.asset, m.amount)
  BY DEF DispatchBurn, Dispatching
<1>2. m \in Messages /\ bal \in Holdings /\ supply \in [LpTokens -> Nat]
      /\ msgs \in Seq(Messages) /\ next \in Nat
  BY <1>1, CurrentType, TypeOKIff, PinaColadaAssumption
     DEF Inv2, Inv1, StorageTypes, TxnTypes, Uint128
<1>3. next + 1 \in 1..Len(msgs) /\ next + 1 > next /\ m = msgs[next + 1]
  BY <1>1, <1>2 DEF Current
<1>4. kind = "withdraw"
  <2>1. m.op \in Kinds(kind)
    BY <1>3 DEF Inv2, MessageKinds
  <2>2. QED
    BY <1>1, <2>1, TypeOKIff DEF Kinds, Inv2, Inv1, TxnTypes
<1> HIDE DEF m
<1>5. m.asset \in LpTokens /\ m.amount \in Nat /\ l \in Assets /\ PoolManager \in Accounts
  BY <1>1, <1>2, PinaColadaAssumption DEF Messages, Assets, Accounts, Uint128
<1>6. CASE m.asset # l
  BY <1>1, <1>2, <1>6
<1>7. CASE m.asset = l
  <2>1. In(l) = 0
    <3>1. \A j \in 1..Len(msgs) : msgs[j].op \notin {"transfer_from"}
      BY <1>4 DEF Inv2, MessageKinds, Kinds
    <3>2. QED
      BY <1>2, <3>1, PendingIs, NothingToCome DEF In
  <2>2. m.amount <= Out(l)
    <3>1. Counted(m, {"transfer", "burn"}, l) = m.amount
      BY <1>1, <1>7 DEF Counted
    <3>2. Counted(msgs[next + 1], {"transfer", "burn"}, l)
            <= Total(ToCome(msgs, next, {"transfer", "burn"}, l))
      BY <1>2, <1>3, AtLeastOne
    <3>3. QED
      BY <1>3, <3>1, <3>2, PendingIs DEF Out
  <2>3. bal[PoolManager][l] + In(l) + shortfall[l]
          >= Book(pair_balances, l) + Locked(l) + Out(l) + InHop(l)
    BY <1>5, BackedIff DEF Inv2
  <2>4. /\ bal[PoolManager][l] \in Nat /\ Book(pair_balances, l) \in Nat
        /\ InHop(l) \in Nat /\ Out(l) \in Nat
    BY <1>5, PartTypes DEF Inv2, Parts
  <2>5. Locked(l) = MINIMUM_LIQUIDITY_AMOUNT /\ MINIMUM_LIQUIDITY_AMOUNT \in Nat
        /\ MINIMUM_LIQUIDITY_AMOUNT > 0
    BY PinaColadaAssumption DEF Locked
  <2>6. bal[PoolManager][l] >= m.amount + MINIMUM_LIQUIDITY_AMOUNT
    BY <1>5, <2>1, <2>2, <2>3, <2>4, <2>5
  <2>7. bal'[PoolManager][l] = bal[PoolManager][l] - m.amount
    BY <1>1, <1>2, <1>5, <1>7 DEF Debit, Holdings
  <2>8. bal'[PoolManager][l] > 0
    BY <1>5, <2>4, <2>5, <2>6, <2>7
  <2>9. QED
    BY <2>8, SupplyAboveLock
<1>8. QED
  BY <1>6, <1>7

LEMMA UserBurnPositive ==
  ASSUME Inv2, Inv1', NEW u \in Users, NEW t \in LpTokens, NEW n \in Amounts, UserBurn(u, t, n)
  PROVE  KeepsPositive
<1> SUFFICES ASSUME NEW l \in LpTokens, shortfall[l] = 0, supply[l] > 0
             PROVE  supply'[l] # 0
  BY DEF KeepsPositive
<1>1. Idle /\ bal' = Debit(bal, u, t, n)
  BY DEF UserBurn
<1>2. /\ bal \in Holdings /\ PoolManager \in Accounts /\ u # PoolManager /\ l \in Assets
      /\ MINIMUM_LIQUIDITY_AMOUNT \in Nat /\ MINIMUM_LIQUIDITY_AMOUNT > 0
  BY PinaColadaAssumption, TypeOKIff DEF Accounts, Assets, Inv2, Inv1, StorageTypes
<1>3. /\ bal[PoolManager][l] + shortfall[l] >= Book(pair_balances, l) + Locked(l)
      /\ bal[PoolManager][l] \in Nat /\ Book(pair_balances, l) \in Nat
  BY <1>1, <1>2, IdleBacked
<1>4. Locked(l) = MINIMUM_LIQUIDITY_AMOUNT
  BY DEF Locked
<1>5. bal[PoolManager][l] > 0
  BY <1>2, <1>3, <1>4
<1>6. bal'[PoolManager][l] = bal[PoolManager][l]
  BY <1>1, <1>2 DEF Debit, Holdings
<1>7. QED
  BY <1>5, <1>6, SupplyAboveLock

LEMMA DispatchMintPositive ==
  ASSUME Inv2, DispatchMint
  PROVE  KeepsPositive
<1> SUFFICES ASSUME NEW l \in LpTokens, supply[l] > 0
             PROVE  supply'[l] # 0
  BY DEF KeepsPositive
<1>1. next < Len(msgs) /\ Current.op = "mint"
      /\ supply' = [supply EXCEPT ![Current.asset] = @ + Current.amount]
  BY DEF DispatchMint, Dispatching
<1>2. Current \in Messages /\ supply \in [LpTokens -> Nat]
  BY <1>1, CurrentType, TypeOKIff, PinaColadaAssumption DEF Inv2, Inv1, StorageTypes, Uint128
<1>3. Current.amount \in Nat
  BY <1>2, PinaColadaAssumption DEF Messages, Uint128
<1>4. QED
  BY <1>1, <1>2, <1>3

LEMMA StepPositive == Inv2 /\ [Next]_vars => KeepsPositive
<1> SUFFICES ASSUME Inv2, [Next]_vars PROVE KeepsPositive
  OBVIOUS
<1>1. Inv1'
  BY NextInv1 DEF Inv2
<1>2. supply' = supply => KeepsPositive
  BY DEF KeepsPositive
<1>3. CASE Call
  <2>1. ASSUME NEW req, CreatePair(req) PROVE supply' = supply
    BY <2>1 DEF CreatePair, tokens
  <2>2. ASSUME NEW u, NEW sent, NEW to, NEW share, ProvideLiquidity(u, sent, to, share)
        PROVE  supply' = supply
    BY <2>2 DEF ProvideLiquidity
  <2>3. ASSUME NEW ops, NEW n, NEW to, StartSwap(ops, n, to) PROVE supply' = supply
    BY <2>3 DEF StartSwap
  <2>4. ASSUME NEW u, NEW t, NEW k, NEW n, WithdrawLiquidity(u, t, k, n)
        PROVE  supply' = supply
    BY <2>4 DEF WithdrawLiquidity
  <2>5. supply' = supply
    BY <1>3, <2>1, <2>2, <2>3, <2>4, Zenon DEF Call, ExecuteSwapOperations, ReceiveSwap
  <2>6. QED
    BY <1>2, <2>5
<1>4. CASE Run
  <2>1. CASE \E returned \in CurveOutputs : SwapHop(returned)
    BY <1>2, <2>1 DEF SwapHop, tokens
  <2>2. CASE \E l \in LpTokens : Instantiate(l)
    BY <1>2, <2>2 DEF Instantiate
  <2>3. CASE Reply \/ DispatchTransfer \/ Commit
    BY <1>2, <2>3 DEF Reply, DispatchTransfer, Commit, tokens
  <2>4. CASE DispatchMint
    BY <2>4, DispatchMintPositive
  <2>5. CASE DispatchBurn
    BY <1>1, <2>5, DispatchBurnPositive
  <2>6. CASE Revert
    BY <2>6 DEF Revert, KeepsPositive
  <2>7. QED
    BY <1>4, <2>1, <2>2, <2>3, <2>4, <2>5, <2>6 DEF Run
<1>5. CASE Environment
  <2>1. CASE \E u \in Users, to \in Receivers, a \in Assets, n \in Amounts :
               UserTransfer(u, to, a, n)
    BY <1>2, <2>1 DEF UserTransfer
  <2>2. CASE \E u \in Users, l \in LpTokens, n \in Amounts : UserBurn(u, l, n)
    BY <1>1, <2>2, UserBurnPositive
  <2>3. QED
    BY <1>5, <2>1, <2>2 DEF Environment
<1>6. CASE UNCHANGED vars
  BY <1>2, <1>6 DEF vars, tokens
<1>7. QED
  BY <1>3, <1>4, <1>5, <1>6 DEF Next

(* Once minted, an LP token keeps a positive supply as long as no swap or  *)
(* withdrawal has booked LP tokens without moving them: a later deposit    *)
(* never takes the branch that sets the first share and mints the lock.    *)
THEOREM SupplyKeptPositive == Spec => SupplyStaysPositive
<1>1. Inv2 /\ [Next]_vars =>
        \A l \in LpTokens :
          shortfall[l] = 0 /\ supply[l] > 0 /\ supply'[l] = 0 => ~Idle /\ supply' = saved.supply
  BY StepPositive DEF KeepsPositive
<1>2. QED
  BY <1>1, Inv2Holds, PTL DEF Spec, SupplyStaysPositive
=============================================================================
