--------------------------- MODULE PoolKeysProofs ---------------------------
(***************************************************************************)
(* The tables keyed by byte strings are a map from two assets to a pool in *)
(* which pairs with one key exclude each other, whatever the names are.    *)
(* No pairs have one key if no name begins another, as with addresses of   *)
(* one length: a request that finds a pool then finds that of its assets.  *)
(***************************************************************************)
EXTENDS PoolKeys, TLAPS

(* Keys *)

IsPrefixOf(v, w) == Len(v) <= Len(w) /\ \A i \in 1..Len(v) : v[i] = w[i]

NoNameBeginsAnother ==
  \A s, t \in Assets : IsPrefixOf(Name[s], Name[t]) => s = t

LEMMA BeginsOther ==
  ASSUME NEW v \in Seq(Byte), NEW w \in Seq(Byte), NEW x \in Seq(Byte), NEW y \in Seq(Byte),
         v \o x = w \o y, Len(v) <= Len(w)
  PROVE  IsPrefixOf(v, w)
<1>1. ASSUME NEW i \in 1..Len(v) PROVE v[i] = w[i]
  <2>1. (v \o x)[i] = v[i]
    OBVIOUS
  <2>2. (w \o y)[i] = w[i]
    OBVIOUS
  <2>. QED BY <2>1, <2>2
<1>. QED BY <1>1 DEF IsPrefixOf

LEMMA EndsOther ==
  ASSUME NEW v \in Seq(Byte), NEW x \in Seq(Byte), NEW y \in Seq(Byte), v \o x = v \o y
  PROVE  IsPrefixOf(x, y)
<1>1. Len(x) = Len(y)
  <2>1. Len(v \o x) = Len(v) + Len(x)
    OBVIOUS
  <2>2. Len(v \o y) = Len(v) + Len(y)
    OBVIOUS
  <2>. QED BY <2>1, <2>2
<1>2. ASSUME NEW i \in 1..Len(x) PROVE x[i] = y[i]
  <2>1. (v \o x)[Len(v) + i] = x[i]
    OBVIOUS
  <2>2. (v \o y)[Len(v) + i] = y[i]
    BY <1>1
  <2>. QED BY <2>1, <2>2
<1>. QED BY <1>1, <1>2 DEF IsPrefixOf

LEMMA JoinedNames ==
  ASSUME NoNameBeginsAnother,
         NEW s \in Assets, NEW t \in Assets, NEW u \in Assets, NEW v \in Assets,
         Name[s] \o Name[t] = Name[u] \o Name[v]
  PROVE  s = u /\ t = v
<1>1. Name[s] \in Seq(Byte) /\ Name[t] \in Seq(Byte) /\ Name[u] \in Seq(Byte) /\ Name[v] \in Seq(Byte)
  BY NameAssumption
<1>2. s = u
  <2>1. Len(Name[s]) <= Len(Name[u]) \/ Len(Name[u]) <= Len(Name[s])
    BY <1>1
  <2>2. IsPrefixOf(Name[s], Name[u]) \/ IsPrefixOf(Name[u], Name[s])
    BY <1>1, <2>1, BeginsOther
  <2>. QED BY <2>2 DEF NoNameBeginsAnother
<1>3. IsPrefixOf(Name[t], Name[v])
  BY <1>1, <1>2, EndsOther
<1>. QED BY <1>2, <1>3 DEF NoNameBeginsAnother

LEMMA KeySymmetric ==
  ASSUME NEW s \in Assets, NEW t \in Assets
  PROVE  PairKey(s, t) = PairKey(t, s)
BY LeqAssumption DEF PairKey

(* pair_key gives two pairs of assets different keys if no name begins     *)
(* another.  Nothing that follows up to OwnPoolFound rests on this.        *)
LEMMA KeysDistinguishPairs ==
  ASSUME NoNameBeginsAnother,
         NEW p \in Assets \X Assets, NEW q \in Assets \X Assets
  PROVE  ~Clash(p, q)
<1>1. ASSUME NEW s \in Assets, NEW t \in Assets, NEW u \in Assets, NEW v \in Assets,
             PairKey(s, t) = PairKey(u, v)
      PROVE  (s = u /\ t = v) \/ (s = v /\ t = u)
  <2>1. PairKey(s, t) = Name[s] \o Name[t] \/ PairKey(s, t) = Name[t] \o Name[s]
    BY DEF PairKey
  <2>2. PairKey(u, v) = Name[u] \o Name[v] \/ PairKey(u, v) = Name[v] \o Name[u]
    BY DEF PairKey
  <2>3. CASE PairKey(s, t) = Name[s] \o Name[t] /\ PairKey(u, v) = Name[u] \o Name[v]
    BY <1>1, <2>3, JoinedNames
  <2>4. CASE PairKey(s, t) = Name[s] \o Name[t] /\ PairKey(u, v) = Name[v] \o Name[u]
    BY <1>1, <2>4, JoinedNames
  <2>5. CASE PairKey(s, t) = Name[t] \o Name[s] /\ PairKey(u, v) = Name[u] \o Name[v]
    BY <1>1, <2>5, JoinedNames
  <2>6. CASE PairKey(s, t) = Name[t] \o Name[s] /\ PairKey(u, v) = Name[v] \o Name[u]
    BY <1>1, <2>6, JoinedNames
  <2>. QED BY <2>1, <2>2, <2>3, <2>4, <2>5, <2>6
<1>. QED BY <1>1 DEF Clash
-----------------------------------------------------------------------------
(* The type invariant, without what follows from the rest of it. *)

Stored ==
  /\ DOMAIN balances = DOMAIN pools
  /\ \A k \in DOMAIN pools :
       /\ pools[k] \in Assets \X Assets
       /\ pools[k][1] # pools[k][2]
       /\ k = PairKey(pools[k][1], pools[k][2])
       /\ Name[pools[k][1]] \in precise /\ Name[pools[k][2]] \in precise
       /\ balances[k] \in (0..MaxReserve) \X (0..MaxReserve)
  /\ precise \subseteq {Name[s] : s \in Assets}

LEMMA StoredIsTypeOK == Stored <=> TypeOK
<1>1. ASSUME Stored, NEW k \in DOMAIN pools, NEW j \in DOMAIN pools,
             pools[j] = <<pools[k][2], pools[k][1]>>
      PROVE  FALSE
  <2>1. j = PairKey(pools[k][2], pools[k][1]) /\ k = PairKey(pools[k][1], pools[k][2])
    BY <1>1 DEF Stored
  <2>2. j = k
    BY <1>1, <2>1, KeySymmetric DEF Stored
  <2>. QED BY <1>1, <2>2 DEF Stored
<1>. QED BY <1>1 DEF Stored, TypeOK

LEMMA FirstTwo ==
  ASSUME NEW assets \in Lists, Len(assets) >= 2
  PROVE  assets[1] \in Assets /\ assets[2] \in Assets
BY BoundAssumption

LEMMA TwoAreAll ==
  ASSUME NEW assets \in Lists, Len(assets) = 2
  PROVE  assets = <<assets[1], assets[2]>>
BY BoundAssumption

LEMMA AddIsPair ==
  ASSUME NEW i \in {1, 2}, NEW m \in Int, NEW n \in Int, NEW amounts \in Int \X Int,
         Fits(Add(i, m, n, amounts))
  PROVE  Add(i, m, n, amounts) \in (0..MaxReserve) \X (0..MaxReserve)
BY DEF Fits, Add

LEMMA ReserveIsInt ==
  ASSUME Stored, NEW k \in DOMAIN pools
  PROVE  balances[k] \in Int \X Int
BY BoundAssumption DEF Stored

(* Deposits, swaps and withdrawals change one entry of PAIR_BALANCES. *)
LEMMA ChangeKeepsStored ==
  ASSUME Stored, NEW k \in DOMAIN pools, NEW new \in (0..MaxReserve) \X (0..MaxReserve),
         balances' = [balances EXCEPT ![k] = new], UNCHANGED <<pools, precise>>
  PROVE  Stored'
BY DEF Stored

LEMMA CreateKeepsStored ==
  ASSUME Stored, NEW assets \in Lists, CreatePair(assets)
  PROVE  Stored'
<1>. DEFINE k == KeyOf(assets)
<1>1. assets[1] \in Assets /\ assets[2] \in Assets /\ assets = <<assets[1], assets[2]>>
  BY FirstTwo, TwoAreAll DEF CreatePair
<1>2. DOMAIN pools' = DOMAIN pools \cup {k} /\ DOMAIN balances' = DOMAIN balances \cup {k}
  BY DEF CreatePair, Put
<1>3. pools'[k] = assets /\ balances'[k] = <<0, 0>>
  BY DEF CreatePair, Put
<1>4. \A j \in DOMAIN pools \ {k} : pools'[j] = pools[j] /\ balances'[j] = balances[j]
  BY DEF CreatePair, Put, Stored
<1>5. precise' = precise \cup {Name[assets[1]], Name[assets[2]]} /\ assets[1] # assets[2]
  BY DEF CreatePair
<1>6. ASSUME NEW j \in DOMAIN pools'
      PROVE  /\ pools'[j] \in Assets \X Assets
             /\ pools'[j][1] # pools'[j][2]
             /\ j = PairKey(pools'[j][1], pools'[j][2])
             /\ Name[pools'[j][1]] \in precise' /\ Name[pools'[j][2]] \in precise'
             /\ balances'[j] \in (0..MaxReserve) \X (0..MaxReserve)
  <2>1. CASE j = k
    <3>1. pools'[j] = <<assets[1], assets[2]>>
      BY <1>1, <1>3, <2>1
    <3>2. j = PairKey(assets[1], assets[2])
      BY <2>1 DEF KeyOf
    <3>3. pools'[j][1] = assets[1] /\ pools'[j][2] = assets[2]
      BY <3>1
    <3>4. balances'[j] \in (0..MaxReserve) \X (0..MaxReserve)
      <4>1. balances'[j] = <<0, 0>>
        BY <1>3, <2>1
      <4>2. 0 \in 0..MaxReserve
        BY BoundAssumption
      <4>. QED BY <4>1, <4>2
    <3>. HIDE DEF k
    <3>. QED BY <1>1, <1>5, <3>1, <3>2, <3>3, <3>4
  <2>2. CASE j # k
    BY <1>2, <1>4, <1>5, <2>2 DEF Stored
  <2>. QED BY <2>1, <2>2
<1>. QED BY <1>1, <1>2, <1>5, <1>6 DEF Stored, PairKey

THEOREM TypeCorrect == Spec => []TypeOK
<1>1. Init => Stored
  BY DEF Init, Stored
<1>2. Stored /\ [Next]_vars => Stored'
  <2>. SUFFICES ASSUME Stored, [Next]_vars PROVE Stored'
    OBVIOUS
  <2>1. ASSUME NEW assets \in Lists, CreatePair(assets) PROVE Stored'
    BY <2>1, CreateKeepsStored
  <2>2. ASSUME NEW assets \in Lists, NEW m \in Amounts, NEW n \in Amounts,
               ProvideLiquidity(assets, m, n)
        PROVE  Stored'
    <3>. DEFINE k == KeyOf(assets)
                i == IF pools[k][1] = assets[2] THEN 2 ELSE 1
                new == Add(i, m, n, balances[k])
    <3>1. k \in DOMAIN pools /\ Fits(new) /\ balances' = [balances EXCEPT ![k] = new]
      BY <2>2 DEF ProvideLiquidity
    <3>2. balances[k] \in Int \X Int
      BY <3>1, ReserveIsInt
    <3>3. m \in Int /\ n \in Int /\ i \in {1, 2}
      BY BoundAssumption
    <3>. HIDE DEF i
    <3>4. new \in (0..MaxReserve) \X (0..MaxReserve)
      BY <3>1, <3>2, <3>3, AddIsPair
    <3>5. UNCHANGED <<pools, precise>>
      BY <2>2 DEF ProvideLiquidity
    <3>. HIDE DEF new, k
    <3>. QED BY <3>1, <3>4, <3>5, ChangeKeepsStored
  <2>3. ASSUME NEW assets \in Lists, NEW m \in Amounts, NEW n \in Amounts,
               SwapInternal(assets, m, n)
        PROVE  Stored'
    <3>. DEFINE k == KeyOf(assets)
                i == Index(k, assets[1])
                new == Add(i, m, -n, balances[k])
    <3>1. k \in DOMAIN pools /\ Fits(new) /\ balances' = [balances EXCEPT ![k] = new]
      BY <2>3 DEF SwapInternal
    <3>2. balances[k] \in Int \X Int
      BY <3>1, ReserveIsInt
    <3>3. m \in Int /\ -n \in Int /\ i \in {1, 2}
      BY BoundAssumption DEF Index
    <3>. HIDE DEF i
    <3>4. new \in (0..MaxReserve) \X (0..MaxReserve)
      BY <3>1, <3>2, <3>3, AddIsPair
    <3>5. UNCHANGED <<pools, precise>>
      BY <2>3 DEF SwapInternal
    <3>. HIDE DEF new, k
    <3>. QED BY <3>1, <3>4, <3>5, ChangeKeepsStored
  <2>4. ASSUME NEW assets \in Lists, NEW n \in Amounts, WithdrawLiquidity(assets, n)
        PROVE  Stored'
    <3>. DEFINE k == KeyOf(assets)
                new == Add(1, -n, -n, balances[k])
    <3>1. k \in DOMAIN pools /\ Fits(new) /\ balances' = [balances EXCEPT ![k] = new]
      BY <2>4 DEF WithdrawLiquidity
    <3>2. balances[k] \in Int \X Int
      BY <3>1, ReserveIsInt
    <3>3. -n \in Int
      BY BoundAssumption
    <3>4. new \in (0..MaxReserve) \X (0..MaxReserve)
      BY <3>1, <3>2, <3>3, AddIsPair
    <3>5. UNCHANGED <<pools, precise>>
      BY <2>4 DEF WithdrawLiquidity
    <3>. HIDE DEF new, k
    <3>. QED BY <3>1, <3>4, <3>5, ChangeKeepsStored
  <2>5. CASE UNCHANGED vars
    BY <2>5 DEF Stored, vars
  <2>. QED BY <2>1, <2>2, <2>3, <2>4, <2>5 DEF Next
<1>3. Stored => TypeOK
  BY StoredIsTypeOK
<1>. QED BY <1>1, <1>2, <1>3, PTL DEF Spec
-----------------------------------------------------------------------------
(* The refinement *)

(* The pool a key leads to: that of the assets asked for or, if these have *)
(* none, one that clashes with it.                                         *)
LEMMA LeadsTo ==
  ASSUME Stored, NEW s \in Assets, NEW t \in Assets, PairKey(s, t) \in DOMAIN pools
  PROVE  LET p == pools[PairKey(s, t)]
             q == <<p[2], p[1]>>
         IN /\ p[1] \in Assets /\ p[2] \in Assets
            /\ PairKey(p[1], p[2]) = PairKey(s, t) /\ PairKey(p[2], p[1]) = PairKey(s, t)
            /\ <<p[1], p[2]>> \in open /\ q \in open
            /\ <<s, t>> \in open => (s = p[1] /\ t = p[2]) \/ (s = p[2] /\ t = p[1])
            /\ <<s, t>> \notin open => <<p[1], p[2]>> \in Addressed(s, t) /\ q \in Addressed(s, t)
<1>. DEFINE k == PairKey(s, t)
            x == pools[k][1]
            y == pools[k][2]
<1>1. x \in Assets /\ y \in Assets /\ x # y /\ PairKey(x, y) = k
  BY DEF Stored
<1>2. PairKey(y, x) = k
  BY <1>1, KeySymmetric
<1>3. <<x, y>> \in open /\ <<y, x>> \in open
  BY <1>1, <1>2 DEF open, HasPool
<1>4. <<s, t>> \in open <=> {x, y} = {s, t}
  BY <1>1 DEF open, HasPool
<1>5. <<s, t>> \in open => (s = x /\ t = y) \/ (s = y /\ t = x)
  BY <1>1, <1>4
<1>6. ASSUME <<s, t>> \notin open
      PROVE  <<x, y>> \in Addressed(s, t) /\ <<y, x>> \in Addressed(s, t)
  <2>1. Clash(<<x, y>>, <<s, t>>) /\ Clash(<<y, x>>, <<s, t>>)
    BY <1>1, <1>2, <1>4, <1>6 DEF Clash
  <2>. QED BY <1>3, <1>6, <2>1 DEF Addressed
<1>. QED BY <1>1, <1>2, <1>3, <1>5, <1>6

LEMMA HeldType ==
  ASSUME Stored
  PROVE  held \in [Assets -> [Assets -> Int]]
<1>1. ASSUME NEW u \in Assets, NEW v \in Assets, HasPool(u, v)
      PROVE  balances[PairKey(u, v)][Index(PairKey(u, v), u)] \in Int
  <2>1. balances[PairKey(u, v)] \in Int \X Int
    BY <1>1, ReserveIsInt DEF HasPool
  <2>. QED BY <2>1 DEF Index
<1>. QED BY <1>1 DEF held

(* What a step that changes one entry does to the reserves, by asset. *)
Entry(s, t, m, n) == Add(Index(PairKey(s, t), s), m, n, balances[PairKey(s, t)])
Books(s, t, m, n) == balances' = [balances EXCEPT ![PairKey(s, t)] = Entry(s, t, m, n)]
Moves(s, t, m, n) == held' = [held EXCEPT ![s][t] = @ + m, ![t][s] = @ + n]

LEMMA ChangeByAsset ==
  ASSUME Stored, NEW s \in Assets, NEW t \in Assets,
         <<s, t>> \in open,
         NEW m \in Int, NEW n \in Int,
         Books(s, t, m, n), UNCHANGED pools
  PROVE  /\ open' = open
         /\ Moves(s, t, m, n)
         /\ held'[s][t] = held[s][t] + m /\ held'[t][s] = held[t][s] + n
         /\ Entry(s, t, m, n) \in
              {<<held'[s][t], held'[t][s]>>, <<held'[t][s], held'[s][t]>>}
<1>. DEFINE k == PairKey(s, t)
            new == Add(Index(k, s), m, n, balances[k])
<1>1. /\ s # t /\ k \in DOMAIN pools
      /\ (pools[k][1] = s /\ pools[k][2] = t) \/ (pools[k][1] = t /\ pools[k][2] = s)
  BY DEF open, HasPool, Stored
<1>2. PairKey(t, s) = k
  BY KeySymmetric
<1>3. open' = open
  BY DEF open, HasPool, PairKey
<1>4. \A u, v \in Assets : HasPool(u, v)' <=> HasPool(u, v)
  BY DEF HasPool, PairKey
<1>5. \A u, v \in Assets : PairKey(u, v)' = PairKey(u, v)
  BY DEF PairKey
<1>6. \A j, u : Index(j, u)' = Index(j, u)
  BY DEF Index
<1>7. balances[k] \in Int \X Int /\ k \in DOMAIN balances
  BY <1>1, ReserveIsInt DEF Stored
<1>8. balances'[k] = new /\ \A j \in DOMAIN balances \ {k} : balances'[j] = balances[j]
  BY <1>7 DEF Books, Entry
<1>9. new[Index(k, s)] = balances[k][Index(k, s)] + m /\ new[Index(k, t)] = balances[k][Index(k, t)] + n
  BY <1>1, <1>7 DEF Add, Index
<1>10. HasPool(s, t) /\ HasPool(t, s)
  BY <1>1, <1>2 DEF HasPool
<1>11. ASSUME NEW u \in Assets, NEW v \in Assets
       PROVE  held'[u][v] = IF u = s /\ v = t THEN held[u][v] + m
                            ELSE IF u = t /\ v = s THEN held[u][v] + n ELSE held[u][v]
  <2>1. held[u][v] = IF HasPool(u, v) THEN balances[PairKey(u, v)][Index(PairKey(u, v), u)] ELSE 0
    BY DEF held
  <2>2. held'[u][v] = IF HasPool(u, v) THEN balances'[PairKey(u, v)][Index(PairKey(u, v), u)] ELSE 0
    BY <1>4, <1>5, <1>6 DEF held
  <2>3. CASE u = s /\ v = t
    BY <1>8, <1>9, <1>10, <2>1, <2>2, <2>3
  <2>4. CASE u = t /\ v = s
    BY <1>1, <1>2, <1>8, <1>9, <1>10, <2>1, <2>2, <2>4
  <2>5. CASE ~(u = s /\ v = t) /\ ~(u = t /\ v = s)
    <3>1. HasPool(u, v) => PairKey(u, v) \in DOMAIN balances \ {k}
      BY <1>1, <2>5 DEF HasPool, Stored
    <3>. QED BY <1>8, <2>1, <2>2, <2>5, <3>1
  <2>. QED BY <2>3, <2>4, <2>5
<1>12. held \in [Assets -> [Assets -> Int]]
  BY HeldType
<1>13. held' = [u \in Assets |-> [v \in Assets |-> held'[u][v]]]
  BY DEF held
<1>14. held' = [held EXCEPT ![s][t] = @ + m, ![t][s] = @ + n]
  BY <1>1, <1>11, <1>12, <1>13
<1>15. held'[s][t] = new[Index(k, s)] /\ held'[t][s] = new[Index(k, t)]
  BY <1>1, <1>2, <1>4, <1>5, <1>6, <1>8, <1>10 DEF held
<1>16. new \in {<<held'[s][t], held'[t][s]>>, <<held'[t][s], held'[s][t]>>}
  BY <1>1, <1>7, <1>15 DEF Add, Index
<1>17. held'[s][t] = held[s][t] + m /\ held'[t][s] = held[t][s] + n
  BY <1>1, <1>11
<1>. QED BY <1>3, <1>14, <1>16, <1>17 DEF Moves, Entry

LEMMA InitRefines == Init => Map!Init
BY DEF Init, Map!Init, open, held, HasPool

LEMMA CreateRefines ==
  ASSUME Stored, NEW assets \in Lists, CreatePair(assets)
  PROVE  Map!Open(assets[1], assets[2])
<1>. DEFINE s == assets[1]
            t == assets[2]
            k == PairKey(s, t)
<1>1. s \in Assets /\ t \in Assets /\ s # t /\ assets = <<s, t>>
  BY FirstTwo, TwoAreAll DEF CreatePair
<1>2. DOMAIN pools' = DOMAIN pools \cup {k} /\ k = KeyOf(assets)
  BY DEF CreatePair, Put, KeyOf
<1>3. pools'[k][1] = s /\ pools'[k][2] = t /\ balances'[k] = <<0, 0>>
  BY <1>1, <1>2 DEF CreatePair, Put
<1>4. \A j \in DOMAIN pools \ {k} : pools'[j] = pools[j] /\ balances'[j] = balances[j]
  BY <1>2 DEF CreatePair, Put, Stored
<1>5. PairKey(t, s) = k
  BY <1>1, KeySymmetric
<1>. DEFINE pair == {<<s, t>>, <<t, s>>}
            gone == {p \in open : Clash(p, <<s, t>>)}
<1>6. \A u, v \in Assets : PairKey(u, v)' = PairKey(u, v)
  BY DEF PairKey
<1>7. ASSUME NEW u \in Assets, NEW v \in Assets
      PROVE  <<u, v>> \in open' <=> (<<u, v>> \in open \ gone \/ <<u, v>> \in pair)
  <2>1. CASE PairKey(u, v) = k
    <3>1. HasPool(u, v)' <=> u # v /\ {u, v} = {s, t}
      BY <1>2, <1>3, <1>6, <2>1 DEF HasPool
    <3>2. <<u, v>> \in gone <=> <<u, v>> \in open /\ {u, v} # {s, t}
      BY <2>1 DEF Clash
    <3>3. HasPool(u, v)' <=> <<u, v>> \in pair
      BY <1>1, <3>1
    <3>4. <<u, v>> \in open \ gone => <<u, v>> \in pair
      BY <1>1, <3>2 DEF open, HasPool
    <3>. QED BY <3>3, <3>4 DEF open
  <2>2. CASE PairKey(u, v) # k
    <3>1. <<u, v>> \notin pair /\ <<u, v>> \notin gone
      BY <1>5, <2>2 DEF Clash
    <3>2. PairKey(u, v) \in DOMAIN pools' <=> PairKey(u, v) \in DOMAIN pools
      BY <1>2, <2>2
    <3>3. HasPool(u, v)' <=> HasPool(u, v)
      BY <1>4, <1>6, <2>2, <3>2 DEF HasPool
    <3>. QED BY <3>1, <3>3 DEF open
  <2>. QED BY <2>1, <2>2
<1>8. open' = (open \ gone) \cup pair
  <2>1. open' \subseteq Assets \X Assets /\ open \subseteq Assets \X Assets /\ pair \subseteq Assets \X Assets
    BY <1>1 DEF open
  <2>. HIDE DEF pair, gone
  <2>. QED BY <1>7, <2>1
<1>9. ASSUME NEW u \in Assets, NEW v \in Assets
      PROVE  held'[u][v] = IF <<u, v>> \in gone \cup pair THEN 0 ELSE held[u][v]
  <2>1. held[u][v] = IF HasPool(u, v) THEN balances[PairKey(u, v)][Index(PairKey(u, v), u)] ELSE 0
    BY DEF held
  <2>2. held'[u][v] = IF HasPool(u, v)' THEN balances'[PairKey(u, v)][Index(PairKey(u, v), u)'] ELSE 0
    BY <1>6 DEF held, Index
  <2>3. HasPool(u, v)' <=> (<<u, v>> \in open \ gone \/ <<u, v>> \in pair)
    BY <1>7 DEF open
  <2>4. CASE <<u, v>> \in pair
    <3>1. PairKey(u, v) = k
      BY <1>5, <2>4
    <3>2. Index(k, u)' \in {1, 2}
      BY DEF Index
    <3>. QED BY <1>3, <2>2, <2>4, <3>1, <3>2
  <2>5. CASE <<u, v>> \in gone /\ <<u, v>> \notin pair
    <3>. HIDE DEF pair, gone
    <3>. QED BY <2>2, <2>3, <2>5
  <2>6. CASE <<u, v>> \notin gone \cup pair
    <3>1. HasPool(u, v)' <=> HasPool(u, v)
      <4>. HIDE DEF pair, gone
      <4>. QED BY <2>3, <2>6 DEF open
    <3>2. HasPool(u, v) => PairKey(u, v) \in DOMAIN pools \ {k}
      <4>1. ASSUME HasPool(u, v), PairKey(u, v) = k PROVE FALSE
        <5>1. <<u, v>> \in open /\ u # v
          BY <4>1 DEF open, HasPool
        <5>2. {u, v} = {s, t}
          BY <2>6, <4>1, <5>1 DEF Clash
        <5>. QED BY <1>1, <2>6, <5>1, <5>2
      <4>. QED BY <4>1 DEF HasPool
    <3>3. HasPool(u, v) => Index(PairKey(u, v), u)' = Index(PairKey(u, v), u)
      BY <1>4, <1>6, <3>2 DEF Index
    <3>. QED BY <1>4, <2>1, <2>2, <2>6, <3>1, <3>2, <3>3
  <2>. QED BY <2>4, <2>5, <2>6
<1>10. held' = [u \in Assets |-> [v \in Assets |->
                  IF <<u, v>> \in gone \cup pair THEN 0 ELSE held[u][v]]]
  <2>1. held' = [u \in Assets |-> [v \in Assets |-> held'[u][v]]]
    BY DEF held
  <2>. HIDE DEF pair, gone
  <2>. QED BY <1>9, <2>1
<1>. QED BY <1>1, <1>8, <1>10 DEF Map!Open

(* A change of the entry at k, as a step of the map on s and t. *)
LEMMA DepositOf ==
  ASSUME Stored, NEW s \in Assets, NEW t \in Assets, <<s, t>> \in open,
         NEW m \in Int, NEW n \in Int, Books(s, t, m, n), UNCHANGED pools
  PROVE  Map!Deposit(s, t, m, n)
<1>1. open' = open /\ Moves(s, t, m, n)
  BY ChangeByAsset
<1>. QED BY <1>1 DEF Map!Deposit, Moves

LEMMA ExchangeOf ==
  ASSUME Stored, NEW s \in Assets, NEW t \in Assets, <<s, t>> \in open,
         NEW m \in Int, NEW n \in Int, Books(s, t, m, -n), UNCHANGED pools,
         Fits(Entry(s, t, m, -n))
  PROVE  Map!Exchange(s, t, m, n)
<1>1. -n \in Int
  OBVIOUS
<1>2. /\ open' = open /\ Moves(s, t, m, -n)
      /\ held'[t][s] = held[t][s] + (-n)
      /\ Entry(s, t, m, -n) \in {<<held'[s][t], held'[t][s]>>, <<held'[t][s], held'[s][t]>>}
  BY <1>1, ChangeByAsset
<1>3. held \in [Assets -> [Assets -> Int]]
  BY HeldType
<1>4. held'[t][s] >= 0
  BY <1>2, BoundAssumption DEF Fits
<1>5. n <= held[t][s]
  BY <1>2, <1>3, <1>4
<1>6. held' = [held EXCEPT ![s][t] = @ + m, ![t][s] = @ - n]
  BY <1>2, <1>3 DEF Moves
<1>. QED BY <1>2, <1>5, <1>6 DEF Map!Exchange

LEMMA WithdrawOf ==
  ASSUME Stored, NEW s \in Assets, NEW t \in Assets, <<s, t>> \in open,
         NEW n \in Int, Books(s, t, -n, -n), UNCHANGED pools,
         Fits(Entry(s, t, -n, -n))
  PROVE  Map!Withdraw(s, t, n)
<1>1. -n \in Int
  OBVIOUS
<1>2. /\ open' = open /\ Moves(s, t, -n, -n)
      /\ held'[s][t] = held[s][t] + (-n) /\ held'[t][s] = held[t][s] + (-n)
      /\ Entry(s, t, -n, -n) \in {<<held'[s][t], held'[t][s]>>, <<held'[t][s], held'[s][t]>>}
  BY <1>1, ChangeByAsset
<1>3. held \in [Assets -> [Assets -> Int]]
  BY HeldType
<1>4. held'[s][t] >= 0 /\ held'[t][s] >= 0
  BY <1>2, BoundAssumption DEF Fits
<1>5. n <= held[s][t] /\ n <= held[t][s]
  BY <1>2, <1>3, <1>4
<1>6. held' = [held EXCEPT ![s][t] = @ - n, ![t][s] = @ - n]
  BY <1>2, <1>3 DEF Moves
<1>. QED BY <1>2, <1>5, <1>6 DEF Map!Withdraw

LEMMA ProvideRefines ==
  ASSUME Stored, NEW assets \in Lists, NEW m \in Amounts, NEW n \in Amounts,
         ProvideLiquidity(assets, m, n)
  PROVE  /\ assets[1] \in Assets /\ assets[2] \in Assets
         /\ \E p \in Addressed(assets[1], assets[2]) : Map!Deposit(p[1], p[2], m, n)
<1>. DEFINE s == assets[1]
            t == assets[2]
            k == PairKey(s, t)
            x == pools[k][1]
            y == pools[k][2]
            i == IF x = t THEN 2 ELSE 1
<1>1. s \in Assets /\ t \in Assets
  BY FirstTwo, SMTT(30) DEF ProvideLiquidity
<1>2. k \in DOMAIN pools /\ UNCHANGED pools
      /\ balances' = [balances EXCEPT ![k] = Add(i, m, n, balances[k])]
  BY DEF ProvideLiquidity, KeyOf
<1>3. m \in Int /\ n \in Int
  BY BoundAssumption
<1>. HIDE DEF s, t
<1>4. /\ x \in Assets /\ y \in Assets /\ PairKey(x, y) = k /\ PairKey(y, x) = k
      /\ <<x, y>> \in open /\ <<y, x>> \in open
      /\ <<s, t>> \in open => (s = x /\ t = y) \/ (s = y /\ t = x)
      /\ <<s, t>> \notin open => <<x, y>> \in Addressed(s, t) /\ <<y, x>> \in Addressed(s, t)
  BY <1>1, <1>2, LeadsTo
<1>5. CASE <<s, t>> \in open
  <2>1. s # t
    BY <1>5 DEF open, HasPool
  <2>2. Books(s, t, m, n)
    BY <1>2, <1>4, <1>5, <2>1 DEF Books, Entry, Index
  <2>3. Map!Deposit(s, t, m, n)
    BY <1>1, <1>2, <1>3, <1>5, <2>2, DepositOf
  <2>4. Addressed(s, t) = {<<s, t>>}
    BY <1>5 DEF Addressed
  <2>. QED BY <1>1, <2>3, <2>4 DEF s, t
<1>6. CASE <<s, t>> \notin open
  <2>1. x # y
    BY <1>4 DEF open, HasPool
  <2>2. CASE i = 1
    <3>1. Books(x, y, m, n)
      BY <1>2, <1>4, <2>2 DEF Books, Entry, Index
    <3>2. Map!Deposit(x, y, m, n)
      BY <1>2, <1>3, <1>4, <3>1, DepositOf
    <3>. HIDE DEF x, y
    <3>. QED BY <1>1, <1>4, <1>6, <3>2 DEF s, t
  <2>3. CASE i = 2
    <3>1. Books(y, x, m, n)
      BY <1>2, <1>4, <2>1, <2>3 DEF Books, Entry, Index
    <3>2. Map!Deposit(y, x, m, n)
      BY <1>2, <1>3, <1>4, <3>1, DepositOf
    <3>. HIDE DEF x, y
    <3>. QED BY <1>1, <1>4, <1>6, <3>2 DEF s, t
  <2>. QED BY <2>2, <2>3
<1>. QED BY <1>5, <1>6

LEMMA SwapRefines ==
  ASSUME Stored, NEW assets \in Lists, NEW m \in Amounts, NEW n \in Amounts,
         SwapInternal(assets, m, n)
  PROVE  /\ assets[1] \in Assets /\ assets[2] \in Assets
         /\ \E p \in Addressed(assets[1], assets[2]) :
              p[1] = assets[1] /\ Map!Exchange(p[1], p[2], m, n)
<1>. DEFINE s == assets[1]
            t == assets[2]
            k == PairKey(s, t)
            x == pools[k][1]
            y == pools[k][2]
<1>1. s \in Assets /\ t \in Assets
  <2>1. Len(assets) = 2
    BY DEF SwapInternal
  <2>. QED BY <2>1, FirstTwo
<1>2. /\ k \in DOMAIN pools /\ UNCHANGED pools /\ (x = s \/ y = s)
      /\ balances' = [balances EXCEPT ![k] = Add(Index(k, s), m, -n, balances[k])]
      /\ Fits(Add(Index(k, s), m, -n, balances[k]))
  BY DEF SwapInternal, KeyOf, HasAsset
<1>3. m \in Int /\ n \in Int
  BY BoundAssumption
<1>. HIDE DEF s, t
<1>4. /\ x \in Assets /\ y \in Assets /\ PairKey(x, y) = k /\ PairKey(y, x) = k
      /\ <<x, y>> \in open /\ <<y, x>> \in open
      /\ <<s, t>> \notin open => <<x, y>> \in Addressed(s, t) /\ <<y, x>> \in Addressed(s, t)
  BY <1>1, <1>2, LeadsTo
<1>5. CASE <<s, t>> \in open
  <2>1. Books(s, t, m, -n) /\ Fits(Entry(s, t, m, -n))
    BY <1>2 DEF Books, Entry
  <2>2. Map!Exchange(s, t, m, n)
    BY <1>1, <1>2, <1>3, <1>5, <2>1, ExchangeOf
  <2>3. Addressed(s, t) = {<<s, t>>}
    BY <1>5 DEF Addressed
  <2>. QED BY <1>1, <2>2, <2>3 DEF s, t
<1>6. CASE <<s, t>> \notin open
  <2>1. x # y
    BY <1>4 DEF open, HasPool
  <2>2. CASE x = s
    <3>1. Books(x, y, m, -n) /\ Fits(Entry(x, y, m, -n))
      BY <1>2, <1>4, <2>2 DEF Books, Entry
    <3>2. Map!Exchange(x, y, m, n)
      BY <1>2, <1>3, <1>4, <3>1, ExchangeOf
    <3>. HIDE DEF x, y
    <3>. QED BY <1>1, <1>4, <1>6, <2>2, <3>2 DEF s, t
  <2>3. CASE y = s
    <3>1. Books(y, x, m, -n) /\ Fits(Entry(y, x, m, -n))
      BY <1>2, <1>4, <2>3 DEF Books, Entry
    <3>2. Map!Exchange(y, x, m, n)
      BY <1>2, <1>3, <1>4, <3>1, ExchangeOf
    <3>. HIDE DEF x, y
    <3>. QED BY <1>1, <1>4, <1>6, <2>3, <3>2 DEF s, t
  <2>. QED BY <1>2, <2>2, <2>3
<1>. QED BY <1>5, <1>6

LEMMA WithdrawRefines ==
  ASSUME Stored, NEW assets \in Lists, NEW n \in Amounts, WithdrawLiquidity(assets, n)
  PROVE  /\ assets[1] \in Assets /\ assets[2] \in Assets
         /\ \E p \in Addressed(assets[1], assets[2]) : Map!Withdraw(p[1], p[2], n)
<1>. DEFINE s == assets[1]
            t == assets[2]
            k == PairKey(s, t)
            x == pools[k][1]
            y == pools[k][2]
            new == Add(1, -n, -n, balances[k])
<1>1. s \in Assets /\ t \in Assets
  BY FirstTwo DEF WithdrawLiquidity, HasKey
<1>2. k \in DOMAIN pools /\ UNCHANGED pools /\ balances' = [balances EXCEPT ![k] = new] /\ Fits(new)
  BY DEF WithdrawLiquidity, KeyOf
<1>3. n \in Int
  BY BoundAssumption
<1>. HIDE DEF s, t
<1>4. /\ x \in Assets /\ y \in Assets /\ PairKey(x, y) = k /\ <<x, y>> \in open
      /\ <<s, t>> \notin open => <<x, y>> \in Addressed(s, t)
  BY <1>1, <1>2, LeadsTo
<1>5. ASSUME NEW u, NEW v, PairKey(u, v) = k
      PROVE  Books(u, v, -n, -n) /\ Fits(Entry(u, v, -n, -n))
  BY <1>2, <1>5 DEF Books, Entry, Add, Index
<1>6. CASE <<s, t>> \in open
  <2>1. Map!Withdraw(s, t, n)
    BY <1>1, <1>2, <1>3, <1>5, <1>6, WithdrawOf
  <2>2. Addressed(s, t) = {<<s, t>>}
    BY <1>6 DEF Addressed
  <2>. QED BY <1>1, <2>1, <2>2 DEF s, t
<1>7. CASE <<s, t>> \notin open
  <2>1. Map!Withdraw(x, y, n)
    BY <1>2, <1>3, <1>4, <1>5, WithdrawOf
  <2>. HIDE DEF x, y
  <2>. QED BY <1>1, <1>4, <1>7, <2>1 DEF s, t
<1>. QED BY <1>6, <1>7

(* The pools a request is carried out on are pools of assets. *)
LEMMA AddressedType ==
  ASSUME NEW s \in Assets, NEW t \in Assets, NEW p \in Addressed(s, t)
  PROVE  p[1] \in Assets /\ p[2] \in Assets
BY DEF Addressed, open

(* The tables keyed by byte strings implement a map from two assets to     *)
(* their pool, pairs with one key excluding each other.                    *)
THEOREM StoreIsAMap == Spec => ImplementsPairMap
<1>1. Stored /\ [Next]_vars => [Map!Next]_(Map!vars)
  <2>. SUFFICES ASSUME Stored, [Next]_vars PROVE Map!Next \/ UNCHANGED Map!vars
    OBVIOUS
  <2>1. ASSUME NEW assets \in Lists, CreatePair(assets) PROVE Map!Next
    <3>1. assets[1] \in Assets /\ assets[2] \in Assets
      BY <2>1, FirstTwo DEF CreatePair
    <3>. QED BY <2>1, <3>1, CreateRefines DEF Map!Next
  <2>2. ASSUME NEW assets \in Lists, NEW m \in Amounts, NEW n \in Amounts,
               ProvideLiquidity(assets, m, n)
        PROVE  Map!Next
    BY <2>2, ProvideRefines, AddressedType DEF Map!Next
  <2>3. ASSUME NEW assets \in Lists, NEW m \in Amounts, NEW n \in Amounts,
               SwapInternal(assets, m, n)
        PROVE  Map!Next
    BY <2>3, SwapRefines, AddressedType DEF Map!Next
  <2>4. ASSUME NEW assets \in Lists, NEW n \in Amounts, WithdrawLiquidity(assets, n)
        PROVE  Map!Next
    BY <2>4, WithdrawRefines, AddressedType DEF Map!Next
  <2>5. CASE UNCHANGED vars
    BY <2>5 DEF vars, Map!vars, open, held, HasPool, PairKey, Index
  <2>. QED BY <2>1, <2>2, <2>3, <2>4, <2>5 DEF Next
<1>2. TypeOK => Stored
  BY StoredIsTypeOK
<1>. QED BY <1>1, <1>2, InitRefines, TypeCorrect, PTL DEF Spec, ImplementsPairMap, Map!Spec

(* Each request does to the pool of the assets it names what it says; only *)
(* if these have none, it is carried out on a pool that clashes with it.   *)
THEOREM EachRequestByName == Spec => RequestsActByName
<1>. DEFINE ByName(assets) ==
       LET s == assets[1]
           t == assets[2]
       IN /\ CreatePair(assets) => Map!Open(s, t)
          /\ \A m, n \in Amounts :
               /\ ProvideLiquidity(assets, m, n) =>
                    \E p \in Addressed(s, t) : Map!Deposit(p[1], p[2], m, n)
               /\ SwapInternal(assets, m, n) =>
                    \E p \in Addressed(s, t) : p[1] = s /\ Map!Exchange(p[1], p[2], m, n)
               /\ WithdrawLiquidity(assets, n) =>
                    \E p \in Addressed(s, t) : Map!Withdraw(p[1], p[2], n)
<1>1. Stored /\ [Next]_vars => [\A assets \in Lists : ByName(assets)]_vars
  BY CreateRefines, ProvideRefines, SwapRefines, WithdrawRefines
<1>2. TypeOK => Stored
  BY StoredIsTypeOK
<1>. QED BY <1>1, <1>2, TypeCorrect, PTL DEF Spec, RequestsActByName

(* If no name begins another, whoever finds a pool finds that of the       *)
(* assets asked for.                                                       *)
THEOREM OwnPoolFound ==
  ASSUME NoNameBeginsAnother
  PROVE  Spec => [](\A s, t \in Assets : PairKey(s, t) \in DOMAIN pools => <<s, t>> \in open)
<1>1. ASSUME TypeOK, NEW s \in Assets, NEW t \in Assets, PairKey(s, t) \in DOMAIN pools
      PROVE  <<s, t>> \in open
  <2>. DEFINE p == pools[PairKey(s, t)]
  <2>1. p[1] \in Assets /\ p[2] \in Assets /\ p[1] # p[2] /\ PairKey(p[1], p[2]) = PairKey(s, t)
    BY <1>1 DEF TypeOK
  <2>2. <<p[1], p[2]>> \in Assets \X Assets /\ <<s, t>> \in Assets \X Assets
    BY <2>1
  <2>3. ~Clash(<<p[1], p[2]>>, <<s, t>>)
    BY <2>2, KeysDistinguishPairs
  <2>4. {p[1], p[2]} = {s, t}
    BY <2>1, <2>3 DEF Clash
  <2>. QED BY <1>1, <2>1, <2>4 DEF open, HasPool
<1>2. TypeOK => \A s, t \in Assets : PairKey(s, t) \in DOMAIN pools => <<s, t>> \in open
  BY <1>1
<1>. QED BY <1>2, TypeCorrect, PTL
=============================================================================
