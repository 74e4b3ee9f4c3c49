---------------------------- MODULE MarketProofs ----------------------------
(***************************************************************************)
(* Quotes, shares and profits for every curve, every number of hops and    *)
(* all amounts: proofs of the properties of Market.                        *)
(***************************************************************************)
EXTENDS MarketProperties, WellFoundedInduction, TLAPS

(* Induction over the hops of a path.  The library's theorem takes the     *)
(* predicate as an operator; here it is the set of the numbers that have   *)
(* it.                                                                     *)
LEMMA LeastNumber ==
  ASSUME NEW T, T \subseteq Nat, T # {}
  PROVE  \E m \in T : \A n \in T : m <= n
<1>. DEFINE R == OpToRel(<, Nat)
<1>1. \A x, y \in Nat : x < y => <<x, y>> \in R
  BY DEF OpToRel
<1>2. IsWellFoundedOn(R, Nat)
  BY NatLessThanWellFounded
<1>. HIDE DEF R
<1>3. PICK m \in T : \A n \in T : <<n, m>> \notin R
  BY <1>2, WFMin
<1>4. m \in Nat /\ \A n \in T : n \in Nat
  OBVIOUS
<1>5. \A n \in T : ~(n < m)
  BY <1>1, <1>3, <1>4
<1>6. \A n \in T : m <= n
  BY <1>4, <1>5
<1>. QED BY <1>6

LEMMA StepByStep ==
  ASSUME NEW n \in Nat, NEW T, 0 \in T, \A i \in 1..n : i - 1 \in T => i \in T
  PROVE  \A i \in 0..n : i \in T
<1>. DEFINE Missing == {i \in 0..n : i \notin T}
<1>. SUFFICES ASSUME Missing # {} PROVE FALSE
  OBVIOUS
<1>1. Missing \subseteq Nat
  OBVIOUS
<1>. HIDE DEF Missing
<1>2. PICK m \in Missing : \A i \in Missing : m <= i
  BY <1>1, LeastNumber
<1>3. m \in 1..n /\ m \notin T
  BY DEF Missing
<1>4. m - 1 \in 0..n /\ ~(m <= m - 1)
  BY <1>3
<1>5. m - 1 \in T
  BY <1>2, <1>4 DEF Missing
<1>. QED BY <1>3, <1>5
-----------------------------------------------------------------------------
(* The loop of a swap, hop by hop *)

Start(n) == [book |-> book, scale |-> scale, profit |-> profit, amount |-> n, ok |-> TRUE]

Loop(ops, n, pegs, f, m) ==
  f = [i \in 0..m |-> IF i = 0 THEN Start(n) ELSE Hop(f[i - 1], ops[i], pegs[i])]

LEMMA LoopRuns ==
  ASSUME NEW ops, NEW n, NEW pegs, NEW len \in Nat
  PROVE  \E f : Loop(ops, n, pegs, f, len)
<1>. DEFINE T == {m \in Nat : \E f : Loop(ops, n, pegs, f, m)}
            start == Start(n)
<1>1. 0 \in T
  <2>1. Loop(ops, n, pegs, [i \in 0..0 |-> start], 0)
    BY DEF Loop
  <2>. QED BY <2>1
<1>2. ASSUME NEW m \in 1..len, m - 1 \in T PROVE m \in T
  <2>1. m \in Nat /\ m - 1 \in Nat
    OBVIOUS
  <2>2. PICK f : Loop(ops, n, pegs, f, m - 1)
    BY <1>2
  <2>. DEFINE g == [i \in 0..m |-> IF i = m THEN Hop(f[m - 1], ops[m], pegs[m]) ELSE f[i]]
  <2>3. f = [i \in 0..(m - 1) |-> IF i = 0 THEN start ELSE Hop(f[i - 1], ops[i], pegs[i])]
    BY <2>2 DEF Loop
  <2>. HIDE DEF start
  <2>4. \A i \in 0..m : g[i] = IF i = 0 THEN start ELSE Hop(g[i - 1], ops[i], pegs[i])
    BY <2>1, <2>3
  <2>5. Loop(ops, n, pegs, g, m)
    BY <2>4 DEF Loop, start
  <2>. QED BY <2>1, <2>5
<1>. HIDE DEF T
<1>3. len \in T
  BY <1>1, <1>2, StepByStep
<1>. QED BY <1>3 DEF T

LEMMA LoopEnds ==
  ASSUME NEW ops \in Paths, NEW n, NEW pegs
  PROVE  \E f : Loop(ops, n, pegs, f, Len(ops)) /\ AfterHops(ops, n, pegs) = f[Len(ops)]
<1>1. Len(ops) \in Nat
  BY MarketAssumption
<1>2. \E f : Loop(ops, n, pegs, f, Len(ops))
  BY <1>1, LoopRuns
<1>. DEFINE g == CHOOSE f : Loop(ops, n, pegs, f, Len(ops))
<1>3. Loop(ops, n, pegs, g, Len(ops))
  BY <1>2
<1>4. AfterHops(ops, n, pegs) = g[Len(ops)]
  BY DEF AfterHops, Loop, Start
<1>. QED BY <1>3, <1>4
-----------------------------------------------------------------------------
(* Rounding down *)
LEMMA QuotientBelow ==
  ASSUME NEW x \in Nat, NEW y \in Nat, y > 0
  PROVE  x \div y \in Nat /\ y * (x \div y) <= x
OBVIOUS

LEMMA ScaledShare ==
  ASSUME NEW x \in Nat, NEW y \in Nat, y > 0, NEW fee \in Nat
  PROVE  y * (x \div y - fee) <= x
<1>1. x \div y \in Nat /\ y * (x \div y) <= x
  BY QuotientBelow
<1>. DEFINE q == x \div y
<1>2. q \in Nat /\ y * q <= x
  BY <1>1
<1>. HIDE DEF q
<1>3. y * (q - fee) <= y * q
  BY <1>2
<1>. QED BY <1>2, <1>3 DEF q

LEMMA XcpOfReserves ==
  ASSUME NEW k \in PoolIds, NEW s \in Scales, NEW reserves \in (0..MaxReserve) \X (0..MaxReserve)
  PROVE  Xcp(k, s, reserves) \in Nat
<1>1. reserves = <<reserves[1], reserves[2]>>
  OBVIOUS
<1>. QED BY <1>1, MarketAssumption DEF PoolIds

LEMMA AmountsAreNumbers == MaxReserve \in Nat /\ \A n \in 0..MaxReserve : n \in Nat
BY MarketAssumption

(* What the loop carries from hop to hop. *)
Reserves == (0..MaxReserve) \X (0..MaxReserve)
HopStates == [book : [PoolIds -> Reserves], scale : [PoolIds -> Scales],
              profit : [PoolIds -> Nat], amount : 0..MaxReserve, ok : BOOLEAN]

(* A hop that is not refused: one that leaves scale and profit alone, or   *)
(* one that update_price has seen.                                         *)
HopUnpriced(st, k, dy, end) ==
  /\ end.profit = st.profit /\ end.scale = st.scale
  /\ st.amount < MIN_TRADE_SIZE \/ dy < MIN_TRADE_SIZE \/ st.profit[k] = 0
HopPriced(st, k, to, end) ==
  /\ supply[k] > 0
  /\ \E peg \in Scales :
       /\ end.scale = [st.scale EXCEPT ![k] = peg]
       /\ end.profit = [st.profit EXCEPT ![k] = PriceOf(k, peg, to, supply[k])]

HopDone(st, op, end) ==
  LET k == PoolOf(op)
      i == OfferIndex(op)
      r == st.book[k]
      dy == Curve(k, st.scale[k], r, Other(i), st.amount)
      to == Traded(r, i, st.amount, dy)
  IN /\ HasPool(op) /\ st.ok
     /\ end = [book |-> end.book, scale |-> end.scale, profit |-> end.profit,
               amount |-> dy, ok |-> TRUE]
     /\ Tradable(r, st.amount)
     /\ r[i] + st.amount <= MaxReserve /\ dy <= r[Other(i)]
     /\ end.book = [st.book EXCEPT ![k] = to]
     /\ HopUnpriced(st, k, dy, end) \/ HopPriced(st, k, to, end)

LEMMA PoolFound ==
  ASSUME NEW op, HasPool(op)
  PROVE  PoolOf(op) \in PoolIds /\ OfferIndex(op) \in {1, 2}
BY DEF HasPool, PoolOf, OfferIndex

(* swap_internal raises the offered side first and takes the offer off     *)
(* again to ask the curve.                                                 *)
Raised(r, i, n) == [r EXCEPT ![i] = @ + n]
Lowered(r, i, n) == [r EXCEPT ![i] = @ - n]

LEMMA RaisedAndBack ==
  ASSUME NEW r \in Reserves, NEW i \in {1, 2}, NEW n \in Nat
  PROVE  /\ Raised(r, i, n)[i] = r[i] + n
         /\ BeforeOffer(Raised(r, i, n), i, n) = r
         /\ \A dy \in Nat : Lowered(Raised(r, i, n), Other(i), dy) = Traded(r, i, n, dy)
<1>. DEFINE raised == [r EXCEPT ![i] = @ + n]
<1>. SUFFICES /\ raised[i] = r[i] + n
              /\ BeforeOffer(raised, i, n) = r
              /\ \A dy \in Nat : [raised EXCEPT ![Other(i)] = @ - dy] = Traded(r, i, n, dy)
  BY Zenon DEF Raised, Lowered
<1>1. r = <<r[1], r[2]>> /\ r[1] \in Int /\ r[2] \in Int
  BY MarketAssumption DEF Reserves
<1>2. CASE i = 1
  <2>1. raised = <<r[1] + n, r[2]>>
    BY <1>1, <1>2
  <2>2. BeforeOffer(raised, i, n) = <<(r[1] + n) - n, r[2]>>
    BY <1>2, <2>1 DEF BeforeOffer
  <2>3. (r[1] + n) - n = r[1]
    BY <1>1
  <2>4. \A dy \in Nat : [raised EXCEPT ![Other(i)] = @ - dy] = <<r[1] + n, r[2] - dy>>
    BY <1>2, <2>1 DEF Other
  <2>5. raised[i] = r[i] + n
    BY <1>2, <2>1
  <2>6. BeforeOffer(raised, i, n) = r
    BY <1>1, <2>2, <2>3
  <2>7. \A dy \in Nat : [raised EXCEPT ![Other(i)] = @ - dy] = Traded(r, i, n, dy)
    BY <1>2, <2>4 DEF Traded
  <2>. QED BY <2>5, <2>6, <2>7
<1>3. CASE i = 2
  <2>1. raised = <<r[1], r[2] + n>>
    BY <1>1, <1>3
  <2>2. BeforeOffer(raised, i, n) = <<r[1], (r[2] + n) - n>>
    BY <1>3, <2>1 DEF BeforeOffer
  <2>3. (r[2] + n) - n = r[2]
    BY <1>1
  <2>4. \A dy \in Nat : [raised EXCEPT ![Other(i)] = @ - dy] = <<r[1] - dy, r[2] + n>>
    BY <1>3, <2>1 DEF Other
  <2>5. raised[i] = r[i] + n
    BY <1>3, <2>1
  <2>6. BeforeOffer(raised, i, n) = r
    BY <1>1, <2>2, <2>3
  <2>7. \A dy \in Nat : Traded(r, i, n, dy) = <<r[1] - dy, r[2] + n>>
    BY <1>3 DEF Traded
  <2>. QED BY <2>4, <2>5, <2>6, <2>7
<1>. QED BY <1>2, <1>3

LEMMA TradedType ==
  ASSUME NEW r \in Reserves, NEW i \in {1, 2}, NEW n \in Nat, NEW dy \in Nat,
         r[i] + n <= MaxReserve, dy <= r[Other(i)]
  PROVE  Traded(r, i, n, dy) \in Reserves
<1>1. r[1] \in 0..MaxReserve /\ r[2] \in 0..MaxReserve /\ MaxReserve \in Nat
  BY MarketAssumption DEF Reserves
<1>2. i = 1 => r[1] + n \in 0..MaxReserve /\ r[2] - dy \in 0..MaxReserve
  BY <1>1 DEF Other
<1>3. i = 2 => r[2] + n \in 0..MaxReserve /\ r[1] - dy \in 0..MaxReserve
  BY <1>1 DEF Other
<1>. QED BY <1>2, <1>3 DEF Traded, Reserves

LEMMA TradableRange ==
  ASSUME NEW k \in PoolIds, NEW s \in Scales, NEW r \in Reserves, NEW n \in 0..MaxReserve,
         Tradable(r, n), NEW i \in {1, 2}
  PROVE  /\ r[i] \in 1..MaxReserve /\ r[Other(i)] \in 1..MaxReserve /\ n \in 1..MaxReserve
         /\ Curve(k, s, r, Other(i), n) \in 0..MaxReserve
<1>1. MaxReserve \in Nat
  BY MarketAssumption
<1>2. r[1] \in 0..MaxReserve /\ r[2] \in 0..MaxReserve
  BY DEF Reserves
<1>3. r[1] \in 1..MaxReserve /\ r[2] \in 1..MaxReserve /\ n \in 1..MaxReserve
  BY <1>1, <1>2 DEF Tradable
<1>4. Other(i) \in {1, 2}
  BY DEF Other
<1>5. Curve(k, s, <<r[1], r[2]>>, Other(i), n) \in 0..MaxReserve
  BY <1>3, <1>4, MarketAssumption DEF PoolIds
<1>6. r = <<r[1], r[2]>> /\ i \in {1, 2}
  BY DEF Reserves
<1>. QED BY <1>3, <1>4, <1>5, <1>6

LEMMA HopIs ==
  ASSUME supply \in [PoolIds -> Nat], NEW st \in HopStates, NEW op, HasPool(op), NEW peg \in Scales
  PROVE  \/ Hop(st, op, peg) = [st EXCEPT !.ok = FALSE]
         \/ HopDone(st, op, Hop(st, op, peg))
<1>. DEFINE k == PoolOf(op)
            i == OfferIndex(op)
            r == st.book[k]
            s == st.scale[k]
            raised == Raised(r, i, st.amount)
            xs == BeforeOffer(raised, i, st.amount)
            dyx == Curve(k, s, xs, Other(i), st.amount)
            after == Lowered(raised, Other(i), dyx)
            dy == Curve(k, s, r, Other(i), st.amount)
            to == Traded(r, i, st.amount, dy)
            end == Hop(st, op, peg)
<1>1. k \in PoolIds /\ i \in {1, 2} /\ Other(i) \in {1, 2}
  BY PoolFound DEF Other
<1>2. r \in Reserves /\ st.amount \in Nat /\ st.profit \in [PoolIds -> Nat] /\ s \in Scales
  BY <1>1, MarketAssumption DEF HopStates
<1>3. end = [st EXCEPT !.ok = FALSE] \/
        /\ st.ok /\ ~(raised[i] > MaxReserve) /\ Tradable(xs, st.amount) /\ ~(dyx > xs[Other(i)])
        /\ end = [book |-> end.book, scale |-> end.scale, profit |-> end.profit,
                  amount |-> dyx, ok |-> TRUE]
        /\ end.book = [st.book EXCEPT ![k] = after]
        /\ \/ /\ end.profit = st.profit /\ end.scale = st.scale
              /\ ~(st.amount >= MIN_TRADE_SIZE /\ dyx >= MIN_TRADE_SIZE) \/ ~(st.profit[k] > 0)
           \/ /\ ~(supply[k] = 0)
              /\ end.scale = [st.scale EXCEPT ![k] = peg]
              /\ end.profit = [st.profit EXCEPT ![k] = PriceOf(k, peg, after, supply[k])]
  BY ZenonT(30) DEF Hop, Moves, Raised, Lowered
<1>. HIDE DEF k, i, r, s, raised, xs, dyx, after, dy, to, end
<1>4. CASE end # [st EXCEPT !.ok = FALSE]
  <2>1. /\ raised[i] = r[i] + st.amount /\ xs = r
        /\ \A m \in Nat : Lowered(raised, Other(i), m) = Traded(r, i, st.amount, m)
    BY <1>1, <1>2, RaisedAndBack DEF raised, xs
  <2>2. dyx = dy
    BY <2>1 DEF dyx, dy
  <2>3. Tradable(r, st.amount)
    BY <1>3, <1>4, <2>1
  <2>4. st.amount \in 0..MaxReserve
    BY DEF HopStates
  <2>5. r[i] \in Nat /\ r[Other(i)] \in Nat /\ dy \in Nat
    <3>1. r[i] \in 1..MaxReserve /\ r[Other(i)] \in 1..MaxReserve /\ dy \in 0..MaxReserve
      BY <1>1, <1>2, <2>3, <2>4, TradableRange DEF dy
    <3>2. \A m \in 1..MaxReserve : m \in Nat
      BY AmountsAreNumbers
    <3>. QED BY <3>1, <3>2, AmountsAreNumbers
  <2>6. after = to
    BY <2>1, <2>2, <2>5 DEF after, to
  <2>7. r[i] + st.amount <= MaxReserve /\ dy <= r[Other(i)]
    BY <1>3, <1>4, <2>1, <2>2, <2>4, <2>5, MarketAssumption
  <2>8. HopUnpriced(st, k, dy, end) \/ HopPriced(st, k, to, end)
    <3>1. supply[k] \in Nat /\ st.profit[k] \in Nat /\ MIN_TRADE_SIZE \in Nat
      BY <1>1, <1>2, MarketAssumption
    <3>2. CASE /\ end.profit = st.profit /\ end.scale = st.scale
               /\ ~(st.amount >= MIN_TRADE_SIZE /\ dy >= MIN_TRADE_SIZE) \/ ~(st.profit[k] > 0)
      <4>1. st.amount < MIN_TRADE_SIZE \/ dy < MIN_TRADE_SIZE \/ st.profit[k] = 0
        BY <1>2, <2>5, <3>1, <3>2
      <4>. QED BY <3>2, <4>1 DEF HopUnpriced
    <3>3. CASE /\ ~(supply[k] = 0)
               /\ end.scale = [st.scale EXCEPT ![k] = peg]
               /\ end.profit = [st.profit EXCEPT ![k] = PriceOf(k, peg, to, supply[k])]
      BY <3>1, <3>3 DEF HopPriced
    <3>. QED BY <1>3, <1>4, <2>2, <2>6, <3>2, <3>3
  <2>9. /\ st.ok
        /\ end = [book |-> end.book, scale |-> end.scale, profit |-> end.profit,
                  amount |-> dy, ok |-> TRUE]
        /\ end.book = [st.book EXCEPT ![k] = to]
    BY <1>3, <1>4, <2>2, <2>6
  <2>. QED BY <2>3, <2>7, <2>8, <2>9 DEF HopDone, k, i, r, s, dy, to, end
<1>. QED BY <1>4 DEF end

LEMMA HopType ==
  ASSUME supply \in [PoolIds -> Nat], NEW st \in HopStates, NEW op, NEW peg \in Scales
  PROVE  /\ Hop(st, op, peg) \in HopStates
         /\ Hop(st, op, peg).ok => HopDone(st, op, Hop(st, op, peg))
<1>1. CASE Hop(st, op, peg) = [st EXCEPT !.ok = FALSE]
  BY <1>1 DEF HopStates
<1>2. CASE HopDone(st, op, Hop(st, op, peg))
  <2>. DEFINE k == PoolOf(op)
              i == OfferIndex(op)
              r == st.book[k]
              dy == Curve(k, st.scale[k], r, Other(i), st.amount)
              end == Hop(st, op, peg)
              to == Traded(r, i, st.amount, dy)
  <2>1. /\ HasPool(op) /\ Tradable(r, st.amount)
        /\ r[i] + st.amount <= MaxReserve /\ dy <= r[Other(i)]
        /\ end = [book |-> end.book, scale |-> end.scale, profit |-> end.profit,
                  amount |-> dy, ok |-> TRUE]
        /\ end.book = [st.book EXCEPT ![k] = to]
        /\ HopUnpriced(st, k, dy, end) \/ HopPriced(st, k, to, end)
    BY <1>2 DEF HopDone
  <2>2. k \in PoolIds /\ i \in {1, 2} /\ Other(i) \in {1, 2}
    BY <2>1, PoolFound DEF Other
  <2>. HIDE DEF k, i, end
  <2>3. r \in Reserves /\ st.amount \in 0..MaxReserve /\ st.scale[k] \in Scales
    BY <2>2 DEF HopStates
  <2>. HIDE DEF r
  <2>4. dy \in 0..MaxReserve
    BY <2>1, <2>2, <2>3, TradableRange
  <2>5. dy \in Nat /\ st.amount \in Nat
    BY <2>3, <2>4, MarketAssumption
  <2>. HIDE DEF dy
  <2>6. to \in Reserves
    BY <2>1, <2>2, <2>3, <2>5, TradedType
  <2>. HIDE DEF to
  <2>7. ASSUME NEW q \in Scales, supply[k] > 0 PROVE PriceOf(k, q, to, supply[k]) \in Nat
    <3>1. Xcp(k, q, to) \in Nat /\ ONE \in Nat /\ supply[k] \in Nat
      BY <2>2, <2>6, XcpOfReserves, MarketAssumption DEF Reserves
    <3>2. Xcp(k, q, to) * ONE \in Nat
      BY <3>1
    <3>. QED BY <2>7, <3>1, <3>2, QuotientBelow DEF PriceOf
  <2>8. /\ end.book \in [PoolIds -> Reserves] /\ end.scale \in [PoolIds -> Scales]
        /\ end.profit \in [PoolIds -> Nat]
    <3>1. st.book \in [PoolIds -> Reserves] /\ st.scale \in [PoolIds -> Scales]
          /\ st.profit \in [PoolIds -> Nat]
      BY DEF HopStates
    <3>2. CASE HopUnpriced(st, k, dy, end)
      BY <2>1, <2>2, <2>6, <3>1, <3>2 DEF HopUnpriced
    <3>3. CASE HopPriced(st, k, to, end)
      BY <2>1, <2>2, <2>6, <2>7, <3>1, <3>3 DEF HopPriced
    <3>. QED BY <2>1, <3>2, <3>3
  <2>9. end \in HopStates
    <3>. DEFINE b == end.book
                c == end.scale
                p == end.profit
    <3>1. b \in [PoolIds -> Reserves] /\ c \in [PoolIds -> Scales] /\ p \in [PoolIds -> Nat]
      BY <2>8
    <3>2. end = [book |-> b, scale |-> c, profit |-> p, amount |-> dy, ok |-> TRUE]
      BY <2>1
    <3>. HIDE DEF b, c, p
    <3>. QED BY <2>4, <3>1, <3>2 DEF HopStates
  <2>. QED BY <1>2, <2>9 DEF end
<1>3. CASE ~HasPool(op)
  <2>1. Hop(st, op, peg) = [st EXCEPT !.ok = FALSE]
    BY <1>3, Zenon DEF Hop
  <2>. QED BY <1>1, <2>1
<1>. QED BY <1>1, <1>2, <1>3, HopIs

(* The numbers the invariants are about, before and after every hop. *)
Amounts ==
  /\ book \in [PoolIds -> Reserves] /\ profit \in [PoolIds -> Nat]
  /\ scale \in [PoolIds -> Scales] /\ supply \in [PoolIds -> Nat]

LEMMA LoopHops ==
  ASSUME Amounts, NEW ops \in Paths, NEW n \in 0..MaxReserve, NEW pegs \in Pegs(ops),
         NEW f, Loop(ops, n, pegs, f, Len(ops))
  PROVE  /\ f[0] = Start(n)
         /\ \A i \in 0..Len(ops) : f[i] \in HopStates
         /\ \A i \in 1..Len(ops) : f[i].ok => HopDone(f[i - 1], ops[i], f[i])
<1>1. Len(ops) \in Nat /\ MaxReserve \in Nat
  BY MarketAssumption
<1>2. /\ f[0] = Start(n)
      /\ \A i \in 1..Len(ops) : f[i] = Hop(f[i - 1], ops[i], pegs[i])
  <2>. DEFINE start == Start(n)
              len == Len(ops)
  <2>1. f = [i \in 0..len |-> IF i = 0 THEN start ELSE Hop(f[i - 1], ops[i], pegs[i])]
    BY DEF Loop
  <2>2. len \in Nat
    BY <1>1
  <2>. HIDE DEF start, len
  <2>3. \A i \in 0..len : f[i] = IF i = 0 THEN start ELSE Hop(f[i - 1], ops[i], pegs[i])
    BY <2>1
  <2>4. f[0] = start /\ \A i \in 1..len : f[i] = Hop(f[i - 1], ops[i], pegs[i])
    BY <2>2, <2>3
  <2>. QED BY <2>4 DEF start, len
<1>. DEFINE T == {i \in Nat : f[i] \in HopStates}
<1>3. 0 \in T
  <2>1. f[0] \in HopStates
    BY <1>1, <1>2 DEF Start, HopStates, Amounts
  <2>. QED BY <2>1
<1>4. ASSUME NEW i \in 1..Len(ops), i - 1 \in T PROVE i \in T
  <2>1. pegs[i] \in Scales
    BY DEF Pegs
  <2>. QED BY <1>2, <1>4, <2>1, HopType DEF Amounts
<1>5. \A i \in 0..Len(ops) : i \in T
  <2>. HIDE DEF T
  <2>. QED BY <1>1, <1>3, <1>4, StepByStep
<1>6. \A i \in 1..Len(ops) : f[i].ok => HopDone(f[i - 1], ops[i], f[i])
  <2>1. \A i \in 1..Len(ops) : i - 1 \in 0..Len(ops)
    BY <1>1
  <2>. QED BY <1>2, <1>5, <2>1, HopType DEF Amounts, Pegs
<1>. QED BY <1>2, <1>5, <1>6

(* A request holds what every hop of the quote answered, from the reserves *)
(* and scales it remembers to have seen.                                   *)
CurveAt(k, seen, j, n) == Curve(k, seen.price_scale, seen.reserves, Other(j), n)
Answered(seen, ops, n, g) ==
  /\ g[0] = n
  /\ \A i \in 1..Len(ops) :
       LET k == PoolOf(ops[i])
           j == OfferIndex(ops[i])
       IN /\ HasPool(ops[i]) /\ k \in DOMAIN seen
          /\ Tradable(seen[k].reserves, g[i - 1])
          /\ g[i] = CurveAt(k, seen[k], j, g[i - 1])

LEMMA HopSimulated ==
  ASSUME Amounts, NEW n \in (0..MaxReserve) \cup {Nothing}, NEW op, SimulateHop(n, op) # Nothing
  PROVE  /\ SimulateHop(n, op) \in 0..MaxReserve
         /\ n # Nothing /\ HasPool(op) /\ Tradable(book[PoolOf(op)], n)
         /\ SimulateHop(n, op) = CurveAt(PoolOf(op), PoolState(PoolOf(op)), OfferIndex(op), n)
<1>1. /\ n # Nothing /\ HasPool(op) /\ Tradable(book[PoolOf(op)], n)
      /\ SimulateHop(n, op) =
           Curve(PoolOf(op), scale[PoolOf(op)], book[PoolOf(op)], Other(OfferIndex(op)), n)
  BY Zenon DEF SimulateHop
<1>2. PoolOf(op) \in PoolIds /\ OfferIndex(op) \in {1, 2} /\ n \in 0..MaxReserve
  BY <1>1, PoolFound
<1>3. book[PoolOf(op)] \in Reserves /\ scale[PoolOf(op)] \in Scales
  BY <1>2 DEF Amounts
<1>4. SimulateHop(n, op) \in 0..MaxReserve
  BY <1>1, <1>2, <1>3, TradableRange
<1>. QED BY <1>1, <1>4 DEF CurveAt, PoolState

SimulateTo(ops, n, g, m) ==
  g = [i \in 0..m |-> IF i = 0 THEN n ELSE SimulateHop(g[i - 1], ops[i])]

LEMMA SimulateRuns ==
  ASSUME NEW ops, NEW n, NEW len \in Nat
  PROVE  \E g : SimulateTo(ops, n, g, len)
<1>. DEFINE T == {m \in Nat : \E g : SimulateTo(ops, n, g, m)}
<1>1. 0 \in T
  <2>1. SimulateTo(ops, n, [i \in 0..0 |-> n], 0)
    BY DEF SimulateTo
  <2>. QED BY <2>1
<1>2. ASSUME NEW m \in 1..len, m - 1 \in T PROVE m \in T
  <2>1. m \in Nat /\ m - 1 \in Nat
    OBVIOUS
  <2>2. PICK f : SimulateTo(ops, n, f, m - 1)
    BY <1>2
  <2>. DEFINE g == [i \in 0..m |-> IF i = m THEN SimulateHop(f[m - 1], ops[m]) ELSE f[i]]
  <2>3. f = [i \in 0..(m - 1) |-> IF i = 0 THEN n ELSE SimulateHop(f[i - 1], ops[i])]
    BY <2>2 DEF SimulateTo
  <2>4. \A i \in 0..m : g[i] = IF i = 0 THEN n ELSE SimulateHop(g[i - 1], ops[i])
    BY <2>1, <2>3
  <2>5. SimulateTo(ops, n, g, m)
    BY <2>4 DEF SimulateTo
  <2>. QED BY <2>1, <2>5
<1>. HIDE DEF T
<1>3. len \in T
  BY <1>1, <1>2, StepByStep
<1>. QED BY <1>3 DEF T

LEMMA QuoteIsAnswered ==
  ASSUME Amounts, NEW ops \in Paths, NEW n \in 0..MaxReserve, Simulate(ops, n) # Nothing
  PROVE  /\ Simulate(ops, n) \in Nat
         /\ \E g : /\ Simulate(ops, n) = g[Len(ops)]
                   /\ Answered([k \in {PoolOf(ops[i]) : i \in 1..Len(ops)} |-> PoolState(k)],
                               ops, n, g)
<1>. DEFINE len == Len(ops)
            g == CHOOSE h : SimulateTo(ops, n, h, len)
            seen == [k \in {PoolOf(ops[i]) : i \in 1..Len(ops)} |-> PoolState(k)]
<1>1. len \in Nat /\ MaxReserve \in Nat /\ n # Nothing
  BY MarketAssumption DEF Nothing
<1>2. SimulateTo(ops, n, g, len)
  <2>1. \E h : SimulateTo(ops, n, h, len)
    BY <1>1, SimulateRuns
  <2>. QED BY <2>1
<1>3. Simulate(ops, n) = g[len]
  BY DEF Simulate, SimulateTo
<1>. HIDE DEF g
<1>4. g[0] = n /\ \A i \in 1..len : g[i] = SimulateHop(g[i - 1], ops[i])
  <2>. HIDE DEF len
  <2>1. g = [i \in 0..len |-> IF i = 0 THEN n ELSE SimulateHop(g[i - 1], ops[i])]
    BY <1>2 DEF SimulateTo
  <2>2. \A i \in 0..len : g[i] = IF i = 0 THEN n ELSE SimulateHop(g[i - 1], ops[i])
    BY <2>1
  <2>. QED BY <1>1, <2>2
(* Once a hop has no answer, no later one has. *)
<1>. DEFINE T == {i \in Nat : g[i] \in (0..MaxReserve) \cup {Nothing}}
            U == {i \in Nat : g[len - i] # Nothing}
<1>5. \A i \in 0..len : g[i] \in (0..MaxReserve) \cup {Nothing}
  <2>1. 0 \in T
    BY <1>4
  <2>2. ASSUME NEW i \in 1..len, i - 1 \in T PROVE i \in T
    <3>1. g[i - 1] \in (0..MaxReserve) \cup {Nothing} /\ i \in Nat
      BY <1>1, <2>2
    <3>2. g[i] = SimulateHop(g[i - 1], ops[i])
      BY <1>4
    <3>. HIDE DEF len
    <3>3. g[i] \in (0..MaxReserve) \cup {Nothing}
      BY <3>1, <3>2, HopSimulated
    <3>. QED BY <3>1, <3>3
  <2>. HIDE DEF T
  <2>3. \A i \in 0..len : i \in T
    BY <1>1, <2>1, <2>2, StepByStep
  <2>. QED BY <2>3 DEF T
<1>6. \A i \in 0..len : g[i] # Nothing
  <2>1. 0 \in U
    BY <1>1, <1>3
  <2>2. ASSUME NEW i \in 1..len, i - 1 \in U PROVE i \in U
    <3>1. len - i \in 0..len /\ len - (i - 1) \in 1..len /\ (len - (i - 1)) - 1 = len - i /\ i \in Nat
      BY <1>1
    <3>2. SimulateHop(g[len - i], ops[len - (i - 1)]) # Nothing
      BY <1>4, <2>2, <3>1
    <3>3. g[len - i] # Nothing
      BY <1>5, <3>1, <3>2, HopSimulated
    <3>. QED BY <3>1, <3>3
  <2>. HIDE DEF U
  <2>3. \A i \in 0..len : i \in U
    BY <1>1, <2>1, <2>2, StepByStep
  <2>4. \A i \in 0..len : len - i \in 0..len /\ len - (len - i) = i
    BY <1>1
  <2>. QED BY <2>3, <2>4 DEF U
<1>7. \A i \in 1..len :
        /\ HasPool(ops[i]) /\ Tradable(book[PoolOf(ops[i])], g[i - 1])
        /\ g[i] = CurveAt(PoolOf(ops[i]), PoolState(PoolOf(ops[i])), OfferIndex(ops[i]), g[i - 1])
  <2>. SUFFICES ASSUME NEW i \in 1..len
                PROVE  /\ HasPool(ops[i]) /\ Tradable(book[PoolOf(ops[i])], g[i - 1])
                       /\ g[i] = CurveAt(PoolOf(ops[i]), PoolState(PoolOf(ops[i])),
                                         OfferIndex(ops[i]), g[i - 1])
    OBVIOUS
  <2>1. i \in 0..len /\ i - 1 \in 0..len
    BY <1>1
  <2>2. SimulateHop(g[i - 1], ops[i]) # Nothing /\ g[i] = SimulateHop(g[i - 1], ops[i])
    BY <1>4, <1>6, <2>1
  <2>. QED BY <1>5, <2>1, <2>2, HopSimulated
<1>8. \A i \in 1..len :
        /\ PoolOf(ops[i]) \in DOMAIN seen
        /\ seen[PoolOf(ops[i])] = PoolState(PoolOf(ops[i]))
  OBVIOUS
<1>9. Answered(seen, ops, n, g)
  <2>. HIDE DEF seen
  <2>1. \A k : PoolState(k).reserves = book[k]
    BY DEF PoolState
  <2>. QED BY <1>4, <1>7, <1>8, <2>1 DEF Answered
<1>10. Simulate(ops, n) \in Nat
  <2>1. len \in 0..len
    BY <1>1
  <2>. QED BY <1>3, <1>5, <1>6, <2>1, AmountsAreNumbers
<1>. QED BY <1>3, <1>9, <1>10
-----------------------------------------------------------------------------
(* What the last hop leaves *)

(* A pool without LP tokens has nothing, one with some has the minimum. *)
Accounts ==
  /\ Amounts
  /\ \A k \in PoolIds :
       supply[k] >= MINIMUM_LIQUIDITY_AMOUNT \/ (supply[k] = 0 /\ book[k] = <<0, 0>>)

LEMMA EmptyPoolStays ==
  ASSUME Accounts, NEW ops \in Paths, NEW n \in 0..MaxReserve, NEW pegs \in Pegs(ops),
         NEW f, Loop(ops, n, pegs, f, Len(ops)), f[Len(ops)].ok, NEW k \in PoolIds, supply[k] = 0
  PROVE  f[Len(ops)].book[k] = <<0, 0>>
<1>. DEFINE len == Len(ops)
            T == {i \in Nat : f[i].ok => f[i].book[k] = <<0, 0>>}
<1>1. len \in Nat /\ MINIMUM_LIQUIDITY_AMOUNT \in Nat \ {0}
  BY MarketAssumption
<1>2. /\ f[0] = Start(n)
      /\ \A i \in 0..len : f[i] \in HopStates
      /\ \A i \in 1..len : f[i].ok => HopDone(f[i - 1], ops[i], f[i])
  BY LoopHops DEF Accounts
<1>3. 0 \in T
  BY <1>1, <1>2 DEF Accounts, Start
<1>. HIDE DEF len
<1>4. ASSUME NEW i \in 1..len, i - 1 \in T PROVE i \in T
  <2>. SUFFICES ASSUME f[i].ok PROVE f[i].book[k] = <<0, 0>>
    BY <1>1
  <2>. DEFINE op == ops[i]
              l == PoolOf(op)
              st == f[i - 1]
              to == Traded(st.book[l], OfferIndex(op), st.amount,
                           Curve(l, st.scale[l], st.book[l], Other(OfferIndex(op)), st.amount))
  <2>1. HasPool(op) /\ st.ok /\ Tradable(st.book[l], st.amount) /\ f[i].book = [st.book EXCEPT ![l] = to]
    BY <1>2, Zenon DEF HopDone
  <2>2. st.book[k] = <<0, 0>> /\ i - 1 \in 0..len
    BY <1>1, <1>4, <2>1
  <2>3. st \in HopStates
    BY <1>2, <2>2
  <2>. HIDE DEF l, op, st, to
  <2>4. k # l
    BY <2>1, <2>2 DEF Tradable
  <2>. QED BY <2>1, <2>2, <2>3, <2>4 DEF HopStates
<1>5. len \in T
  <2>. HIDE DEF T
  <2>1. \A i \in 0..len : i \in T
    BY <1>1, <1>3, <1>4, StepByStep
  <2>. QED BY <1>1, <2>1
<1>. QED BY <1>5 DEF len

(* A swap that pays, seen through its hops. *)
LEMMA SwapPays ==
  ASSUME Accounts, NEW ops \in Paths, NEW n \in 0..MaxReserve, NEW pegs \in Pegs(ops),
         Swap(ops, n, pegs), paid' # Nothing
  PROVE  \E f : /\ Loop(ops, n, pegs, f, Len(ops)) /\ f[Len(ops)].ok
                /\ f[Len(ops)] \in HopStates
                /\ paid' = f[Len(ops)].amount /\ book' = f[Len(ops)].book
                /\ profit' = f[Len(ops)].profit /\ scale' = f[Len(ops)].scale
<1>1. PICK f : Loop(ops, n, pegs, f, Len(ops)) /\ AfterHops(ops, n, pegs) = f[Len(ops)]
  BY LoopEnds
<1>. DEFINE end == AfterHops(ops, n, pegs)
<1>2. /\ end.ok /\ paid' = end.amount /\ book' = end.book /\ profit' = end.profit
      /\ scale' = end.scale
  BY Zenon DEF Swap
<1>3. Len(ops) \in Nat /\ Len(ops) \in 0..Len(ops)
  BY MarketAssumption
<1>4. f[Len(ops)] \in HopStates
  BY <1>1, <1>3, LoopHops DEF Accounts
<1>. QED BY <1>1, <1>2, <1>4

LEMMA SwapRefused ==
  ASSUME NEW ops, NEW n, NEW pegs, Swap(ops, n, pegs), paid' = Nothing,
         AfterHops(ops, n, pegs).amount \in Nat
  PROVE  book' = book /\ profit' = profit /\ scale' = scale
<1>1. AfterHops(ops, n, pegs).amount # Nothing
  BY DEF Nothing
<1>. QED BY <1>1, Zenon DEF Swap

LEMMA SwapKeepsAccounts ==
  ASSUME Accounts, NEW ops \in Paths, NEW n \in 0..MaxReserve, NEW pegs \in Pegs(ops),
         Swap(ops, n, pegs)
  PROVE  Accounts' /\ paid' \in Nat \cup {Nothing}
<1>1. supply' = supply
  BY DEF Swap
<1>2. CASE paid' # Nothing
  <2>1. PICK f : /\ Loop(ops, n, pegs, f, Len(ops)) /\ f[Len(ops)].ok
                 /\ f[Len(ops)] \in HopStates
                 /\ paid' = f[Len(ops)].amount /\ book' = f[Len(ops)].book
                 /\ profit' = f[Len(ops)].profit /\ scale' = f[Len(ops)].scale
    BY <1>2, SwapPays
  <2>2. Amounts'
    BY <1>1, <2>1 DEF Accounts, Amounts, HopStates, PoolIds, Reserves
  <2>3. paid' \in Nat
    BY <2>1, AmountsAreNumbers DEF HopStates
  <2>4. \A k \in PoolIds : supply[k] = 0 => book'[k] = <<0, 0>>
    BY <2>1, EmptyPoolStays
  <2>. QED BY <1>1, <2>2, <2>3, <2>4 DEF Accounts, PoolIds
<1>3. CASE paid' = Nothing
  <2>1. PICK f : Loop(ops, n, pegs, f, Len(ops)) /\ AfterHops(ops, n, pegs) = f[Len(ops)]
    BY LoopEnds
  <2>2. Len(ops) \in Nat /\ Len(ops) \in 0..Len(ops)
    BY MarketAssumption
  <2>3. f[Len(ops)] \in HopStates
    BY <2>1, <2>2, LoopHops DEF Accounts
  <2>4. AfterHops(ops, n, pegs).amount \in Nat
    BY <2>1, <2>3, AmountsAreNumbers DEF HopStates
  <2>5. book' = book /\ profit' = profit /\ scale' = scale
    BY <1>3, <2>4, SwapRefused
  <2>. QED BY <1>1, <1>3, <2>5 DEF Accounts, Amounts, PoolIds, Reserves
<1>. QED BY <1>2, <1>3
-----------------------------------------------------------------------------
(* Deposits, withdrawals, burns *)

LEMMA ProvideIsFair ==
  ASSUME Accounts, NEW k \in PoolIds, NEW deposit \in Deposits[k], NEW fee \in Fees,
         NEW peg \in Scales, ProvideLiquidity(k, deposit, fee, peg)
  PROVE  /\ Accounts'
         /\ \A j \in PoolIds : supply[j] > 0 /\ supply'[j] > supply[j] =>
              Xcp(j, scale[j], book'[j]) * supply[j] >= Xcp(j, scale[j], book[j]) * supply'[j]
<1>. DEFINE old == book[k]
            new == <<old[1] + deposit[1], old[2] + deposit[2]>>
            first == supply[k] = 0
            s == scale[k]
            share == IF first THEN FirstShare(k, new) ELSE AccruedShare(k, old, new, supply[k]) - fee
            total == supply[k] + share
            moves == ~first /\ Moves(~Balanced(deposit, new, share, supply[k]), profit[k])
            worth == IF first THEN ONE ELSE IF moves THEN PriceOf(k, peg, new, total) ELSE profit[k]
            target == IF moves THEN peg ELSE s
<1>1. /\ new[1] \in 1..MaxReserve /\ new[2] \in 1..MaxReserve /\ share > 0
      /\ book' = [book EXCEPT ![k] = new]
      /\ supply' = [supply EXCEPT ![k] = supply[k] + share + Lock(first)]
      /\ profit' = [profit EXCEPT ![k] = worth]
      /\ scale' = IF moves THEN [scale EXCEPT ![k] = peg] ELSE scale
      /\ ~first => Xcp(k, s, old) > 0
  BY DEF ProvideLiquidity
<1>2. /\ MaxReserve \in Nat /\ MINIMUM_LIQUIDITY_AMOUNT \in Nat \ {0} /\ fee \in Nat
      /\ ONE \in Nat
  BY MarketAssumption
<1>3. new \in Reserves /\ old \in Reserves
  BY <1>1, <1>2 DEF Accounts, Amounts, Reserves
<1>4. /\ \A u \in Scales : Xcp(k, u, new) \in Nat /\ Xcp(k, u, old) \in Nat
      /\ s \in Scales /\ supply[k] \in Nat /\ profit[k] \in Nat
      /\ first \/ supply[k] >= MINIMUM_LIQUIDITY_AMOUNT
  BY <1>3, XcpOfReserves DEF Accounts, Amounts, Reserves
<1>. HIDE DEF new, old, moves, target
<1>5. ASSUME supply[k] + share + Lock(first) \in Nat, worth \in Nat,
             supply[k] + share + Lock(first) >= MINIMUM_LIQUIDITY_AMOUNT
      PROVE  Accounts'
  <2>. HIDE DEF share, worth, first
  <2>1. scale' \in [PoolIds -> Scales]
    BY <1>1 DEF Accounts, Amounts
  <2>2. Amounts'
    BY <1>1, <1>3, <1>5, <2>1 DEF Accounts, Amounts, PoolIds, Reserves
  <2>3. ASSUME NEW j \in PoolIds
        PROVE  supply'[j] >= MINIMUM_LIQUIDITY_AMOUNT \/ (supply'[j] = 0 /\ book'[j] = <<0, 0>>)
    <3>1. CASE j = k
      BY <1>1, <1>5, <3>1 DEF Accounts, Amounts
    <3>2. CASE j # k
      <4>1. supply'[j] = supply[j] /\ book'[j] = book[j]
        BY <1>1, <3>2 DEF Accounts, Amounts
      <4>. QED BY <4>1 DEF Accounts
    <3>. QED BY <3>1, <3>2
  <2>. QED BY <2>2, <2>3 DEF Accounts, PoolIds
<1>6. ASSUME NEW j \in PoolIds, j # k PROVE ~(supply'[j] > supply[j])
  <2>1. supply'[j] = supply[j] /\ supply[j] \in Nat
    BY <1>1, <1>6 DEF Accounts, Amounts
  <2>. QED BY <2>1
<1>7. CASE first
  <2>1. share \in Int
    BY <1>2, <1>4, <1>7 DEF FirstShare
  <2>2. Lock(first) = MINIMUM_LIQUIDITY_AMOUNT /\ worth = ONE
    BY <1>7 DEF Lock
  <2>. HIDE DEF share, worth
  <2>3. /\ supply[k] + share + Lock(first) \in Nat
        /\ supply[k] + share + Lock(first) >= MINIMUM_LIQUIDITY_AMOUNT
    BY <1>1, <1>2, <1>4, <2>1, <2>2
  <2>4. Accounts'
    BY <1>2, <1>5, <2>2, <2>3
  <2>. QED BY <1>4, <1>6, <1>7, <2>4
<1>8. CASE ~first
  <2>. DEFINE q == (supply[k] * Xcp(k, s, new)) \div Xcp(k, s, old)
  <2>1. supply[k] * Xcp(k, s, new) \in Nat /\ Xcp(k, s, old) > 0
    BY <1>1, <1>4, <1>8
  <2>2. q \in Nat
    BY <1>4, <2>1, QuotientBelow
  <2>3. Xcp(k, s, old) * (q - fee) <= supply[k] * Xcp(k, s, new)
    BY <1>2, <1>4, <2>1, ScaledShare
  <2>4. share = q - supply[k] - fee /\ Lock(first) = 0
    BY <1>8 DEF AccruedShare, Lock
  <2>. HIDE DEF q, share
  <2>5. total \in Nat /\ total > 0 /\ total >= supply[k] /\ supply[k] + share + Lock(first) = total
        /\ total = q - fee
    BY <1>1, <1>2, <1>4, <2>2, <2>4
  <2>6. worth \in Nat
    <3>. HIDE DEF total
    <3>1. Xcp(k, peg, new) * ONE \in Nat
      BY <1>2, <1>4
    <3>2. PriceOf(k, peg, new, total) \in Nat
      BY <2>5, <3>1, QuotientBelow DEF PriceOf
    <3>. QED BY <1>4, <1>8, <3>2
  <2>. HIDE DEF worth
  <2>7. Accounts'
    <3>1. total >= MINIMUM_LIQUIDITY_AMOUNT
      BY <1>2, <1>4, <1>8, <2>5
    <3>. QED BY <1>5, <2>5, <2>6, <3>1
  <2>8. book'[k] = new /\ supply'[k] = q - fee
    BY <1>1, <2>5 DEF Accounts, Amounts
  <2>9. Xcp(k, s, book'[k]) * supply[k] >= Xcp(k, s, book[k]) * supply'[k]
    BY <1>2, <1>4, <2>2, <2>3, <2>8 DEF old
  <2>. QED BY <1>6, <2>7, <2>9
<1>. QED BY <1>7, <1>8

LEMMA WithdrawKeepsAccounts ==
  ASSUME Accounts, NEW k \in PoolIds, NEW n \in Withdrawals[k],
         WithdrawLiquidity(k, n) \/ BurnLp(k, n)
  PROVE  /\ Accounts' /\ profit' = profit /\ scale' = scale
         /\ \A j \in PoolIds : ~(supply'[j] > supply[j])
         /\ n \in Nat /\ supply[k] - n >= MINIMUM_LIQUIDITY_AMOUNT
         /\ supply' = [supply EXCEPT ![k] = @ - n]
<1>1. n \in Nat /\ MaxReserve \in Nat /\ MINIMUM_LIQUIDITY_AMOUNT \in Nat \ {0}
  BY MarketAssumption DEF PoolIds
<1>2. supply[k] \in Nat
  BY DEF Accounts, Amounts
<1>3. n \in 1..Circulating(k) /\ supply' = [supply EXCEPT ![k] = @ - n] /\ profit' = profit
      /\ scale' = scale
  BY DEF WithdrawLiquidity, BurnLp
<1>4. supply[k] - n >= MINIMUM_LIQUIDITY_AMOUNT /\ ~(supply[k] - n > supply[k])
  BY <1>1, <1>2, <1>3 DEF Circulating
<1>5. supply[k] - n \in Nat
  BY <1>1, <1>2, <1>4
<1>6. supply' \in [PoolIds -> Nat] /\ \A j \in PoolIds : ~(supply'[j] > supply[j])
  <2>1. supply'[k] = supply[k] - n /\ \A j \in PoolIds \ {k} : supply'[j] = supply[j]
    BY <1>3 DEF Accounts, Amounts
  <2>2. \A j \in PoolIds \ {k} : ~(supply'[j] > supply[j])
    BY <2>1 DEF Accounts, Amounts
  <2>. QED BY <1>3, <1>4, <1>5, <2>1, <2>2 DEF Accounts, Amounts
<1>7. book' \in [PoolIds -> Reserves] /\ \A j \in PoolIds \ {k} : book'[j] = book[j]
  <2>1. CASE WithdrawLiquidity(k, n)
    <3>1. n <= book[k][1] /\ n <= book[k][2] /\ book' = [book EXCEPT ![k] = <<@[1] - n, @[2] - n>>]
      BY <2>1 DEF WithdrawLiquidity
    <3>2. <<book[k][1] - n, book[k][2] - n>> \in Reserves
      BY <1>1, <3>1 DEF Accounts, Amounts, Reserves
    <3>. QED BY <3>1, <3>2 DEF Accounts, Amounts
  <2>2. CASE BurnLp(k, n)
    BY <2>2 DEF BurnLp, Accounts, Amounts
  <2>. QED BY <2>1, <2>2
<1>8. Accounts'
  <2>1. Amounts'
    BY <1>3, <1>6, <1>7 DEF Accounts, Amounts, PoolIds, Reserves
  <2>2. ASSUME NEW j \in PoolIds
        PROVE  supply'[j] >= MINIMUM_LIQUIDITY_AMOUNT \/ (supply'[j] = 0 /\ book'[j] = <<0, 0>>)
    <3>1. CASE j = k
      BY <1>3, <1>4, <3>1 DEF Accounts, Amounts
    <3>2. CASE j # k
      BY <1>3, <1>7, <3>2 DEF Accounts, Amounts
    <3>. QED BY <3>1, <3>2
  <2>. QED BY <2>1, <2>2 DEF Accounts, PoolIds
<1>. QED BY <1>1, <1>3, <1>4, <1>6, <1>8
-----------------------------------------------------------------------------
(* The stored profit and the worth of an LP token *)

LEMMA QuotientAbove ==
  ASSUME NEW x \in Nat, NEW y \in Nat \ {0}, NEW q \in Nat, y * q <= x
  PROVE  q <= x \div y
<1>. DEFINE d == x \div y
<1>1. d \in Nat /\ x < y * (d + 1)
  OBVIOUS
<1>. HIDE DEF d
<1>2. y * q < y * (d + 1)
  BY <1>1
<1>3. ASSUME q >= d + 1 PROVE FALSE
  <2>1. y * q >= y * (d + 1)
    BY <1>1, <1>3
  <2>. QED BY <1>1, <1>2, <2>1
<1>4. q <= d
  BY <1>1, <1>3
<1>. QED BY <1>4 DEF d

(* Reserves worth b with m tokens price them no lower than reserves worth  *)
(* a with l tokens, if a / l <= b / m.                                     *)
LEMMA PriceRises ==
  ASSUME NEW k, NEW s, NEW x, NEW y, Xcp(k, s, x) \in Nat, Xcp(k, s, y) \in Nat,
         NEW l \in Nat \ {0}, NEW m \in Nat \ {0}, Xcp(k, s, x) * m <= Xcp(k, s, y) * l
  PROVE  PriceOf(k, s, x, l) <= PriceOf(k, s, y, m)
<1>. DEFINE a == Xcp(k, s, x)
            b == Xcp(k, s, y)
            q == (a * ONE) \div l
<1>1. ONE \in Nat
  BY MarketAssumption
<1>2. a \in Nat /\ b \in Nat /\ a * m <= b * l
  OBVIOUS
<1>3. a * ONE \in Nat /\ b * ONE \in Nat
  BY <1>1, <1>2
<1>4. q \in Nat /\ l * q <= a * ONE
  BY <1>3, QuotientBelow
<1>. HIDE DEF a, b, q
<1>5. m * (l * q) <= m * (a * ONE)
  BY <1>2, <1>3, <1>4
<1>6. ONE * (a * m) <= ONE * (b * l)
  BY <1>1, <1>2
<1>7. m * (a * ONE) = ONE * (a * m) /\ ONE * (b * l) = l * (b * ONE) /\ m * (l * q) = l * (m * q)
  BY <1>1, <1>2, <1>4
<1>8. l * (m * q) <= l * (b * ONE) /\ m * q \in Nat
  BY <1>1, <1>2, <1>3, <1>4, <1>5, <1>6, <1>7
<1>9. m * q <= b * ONE
  <2>. DEFINE u == m * q
              v == b * ONE
  <2>1. u \in Nat /\ v \in Nat /\ l * u <= l * v
    BY <1>3, <1>8
  <2>. HIDE DEF u, v
  <2>2. ASSUME u > v PROVE FALSE
    <3>1. l * u > l * v
      BY <2>1, <2>2
    <3>. QED BY <2>1, <3>1
  <2>3. u <= v
    BY <2>1, <2>2
  <2>. QED BY <2>3 DEF u, v
<1>10. q <= (b * ONE) \div m
  BY <1>3, <1>4, <1>9, QuotientAbove
<1>. QED BY <1>10 DEF PriceOf, a, b, q

LEMMA PriceIsNumber ==
  ASSUME NEW k, NEW s, NEW x, Xcp(k, s, x) \in Nat, NEW l \in Nat \ {0}
  PROVE  PriceOf(k, s, x, l) \in Nat
<1>1. ONE \in Nat
  BY MarketAssumption
<1>2. Xcp(k, s, x) * ONE \in Nat
  BY <1>1
<1>. QED BY <1>2, QuotientBelow DEF PriceOf

LEMMA HopCovers ==
  ASSUME SmallSwapsKeepValue, supply \in [PoolIds -> Nat], NEW st \in HopStates, NEW op, NEW end,
         HopDone(st, op, end), NEW j \in PoolIds, supply[j] > 0,
         st.profit[j] <= PriceOf(j, st.scale[j], st.book[j], supply[j])
  PROVE  end.profit[j] <= PriceOf(j, end.scale[j], end.book[j], supply[j])
<1>. DEFINE k == PoolOf(op)
            i == OfferIndex(op)
            r == st.book[k]
            s == st.scale[k]
            n == st.amount
            dy == Curve(k, s, r, Other(i), n)
            to == Traded(r, i, n, dy)
<1>1. /\ HasPool(op) /\ Tradable(r, n) /\ r[i] + n <= MaxReserve /\ dy <= r[Other(i)]
      /\ end.book = [st.book EXCEPT ![k] = to]
      /\ HopUnpriced(st, k, dy, end) \/ HopPriced(st, k, to, end)
  BY DEF HopDone
<1>2. k \in PoolIds /\ i \in {1, 2} /\ Other(i) \in {1, 2}
  BY <1>1, PoolFound DEF Other
<1>. HIDE DEF k, i
<1>3. /\ r \in Reserves /\ n \in 0..MaxReserve /\ s \in Scales
      /\ st.book \in [PoolIds -> Reserves] /\ st.scale \in [PoolIds -> Scales]
      /\ st.profit \in [PoolIds -> Nat] /\ supply[j] \in Nat \ {0}
  BY <1>2 DEF HopStates
<1>. HIDE DEF n, r, s
<1>4. r[i] \in 1..MaxReserve /\ r[Other(i)] \in 1..MaxReserve /\ n \in 1..MaxReserve
      /\ dy \in 0..MaxReserve
  BY <1>1, <1>2, <1>3, TradableRange
<1>5. dy \in Nat /\ n \in Nat
  BY <1>4, AmountsAreNumbers
<1>. HIDE DEF dy
<1>6. to \in Reserves
  BY <1>1, <1>2, <1>3, <1>5, TradedType
<1>. HIDE DEF to
<1>7. CASE j # k
  <2>1. end.book[j] = st.book[j]
    BY <1>1, <1>3, <1>7
  <2>2. end.scale[j] = st.scale[j] /\ end.profit[j] = st.profit[j]
    BY <1>1, <1>3, <1>7 DEF HopUnpriced, HopPriced
  <2>. QED BY <2>1, <2>2
<1>8. CASE j = k
  <2>1. end.book[j] = to /\ r = st.book[j] /\ s = st.scale[j]
    BY <1>1, <1>3, <1>8 DEF r, s
  <2>2. \A u \in Scales : Xcp(j, u, to) \in Nat /\ Xcp(j, u, r) \in Nat
    BY <1>3, <1>6, XcpOfReserves DEF Reserves
  <2>3. \A u \in Scales : PriceOf(j, u, to, supply[j]) \in Nat /\ PriceOf(j, u, r, supply[j]) \in Nat
    BY <1>3, <2>2, PriceIsNumber
  <2>4. CASE HopPriced(st, k, to, end)
    <3>1. PICK peg \in Scales :
            /\ end.scale = [st.scale EXCEPT ![k] = peg]
            /\ end.profit = [st.profit EXCEPT ![k] = PriceOf(k, peg, to, supply[k])]
      BY <2>4 DEF HopPriced
    <3>2. end.scale[j] = peg /\ end.profit[j] = PriceOf(j, peg, to, supply[j])
      BY <1>3, <1>8, <3>1
    <3>. QED BY <2>1, <2>3, <3>2
  <2>5. CASE HopUnpriced(st, k, dy, end)
    <3>1. /\ end.profit[j] = st.profit[j] /\ end.scale[j] = s
          /\ n < MIN_TRADE_SIZE \/ dy < MIN_TRADE_SIZE \/ st.profit[j] = 0
      BY <1>8, <2>1, <2>5 DEF HopUnpriced, n
    <3>2. CASE st.profit[j] = 0
      BY <1>3, <2>1, <2>3, <3>1, <3>2
    <3>3. CASE n < MIN_TRADE_SIZE \/ dy < MIN_TRADE_SIZE
      <4>1. r[1] \in 1..MaxReserve /\ r[2] \in 1..MaxReserve /\ r = <<r[1], r[2]>>
        BY <1>2, <1>3, <1>4 DEF Other, Reserves
      <4>2. Xcp(k, s, to) >= Xcp(k, s, r)
        <5>1. Xcp(k, s, Traded(<<r[1], r[2]>>, i, n, Curve(k, s, <<r[1], r[2]>>, Other(i), n)))
                >= Xcp(k, s, <<r[1], r[2]>>)
          BY <1>1, <1>2, <1>3, <1>4, <3>3, <4>1 DEF SmallSwapsKeepValue, dy
        <5>. QED BY <4>1, <5>1 DEF to, dy
      <4>3. Xcp(j, s, r) * supply[j] <= Xcp(j, s, to) * supply[j]
        BY <1>3, <1>8, <2>2, <4>2
      <4>4. PriceOf(j, s, r, supply[j]) <= PriceOf(j, s, to, supply[j])
        BY <1>3, <2>2, <4>3, PriceRises
      <4>. QED BY <1>3, <2>1, <2>3, <3>1, <4>4
    <3>. QED BY <3>1, <3>2, <3>3
  <2>. QED BY <1>1, <2>4, <2>5
<1>. QED BY <1>7, <1>8

LEMMA SwapCovers ==
  ASSUME SmallSwapsKeepValue, Accounts, ProfitCovered,
         NEW ops \in Paths, NEW n \in 0..MaxReserve, NEW pegs \in Pegs(ops), Swap(ops, n, pegs)
  PROVE  ProfitCovered'
<1>1. supply' = supply /\ withdrawn' = withdrawn
  BY DEF Swap
<1>2. CASE paid' # Nothing
  <2>1. PICK f : /\ Loop(ops, n, pegs, f, Len(ops)) /\ f[Len(ops)].ok
                 /\ book' = f[Len(ops)].book /\ profit' = f[Len(ops)].profit
                 /\ scale' = f[Len(ops)].scale
    BY <1>2, SwapPays
  <2>. SUFFICES ASSUME NEW k \in PoolIds \ withdrawn, supply[k] > 0
                PROVE  profit'[k] <= PriceOf(k, scale'[k], book'[k], supply[k])
    BY <1>1 DEF ProfitCovered, PoolIds, PriceOf
  <2>. DEFINE len == Len(ops)
              Covered(st) == st.profit[k] <= PriceOf(k, st.scale[k], st.book[k], supply[k])
              T == {i \in Nat : f[i].ok => Covered(f[i])}
  <2>2. len \in Nat
    BY MarketAssumption
  <2>3. /\ f[0] = Start(n)
        /\ \A i \in 0..len : f[i] \in HopStates
        /\ \A i \in 1..len : f[i].ok => HopDone(f[i - 1], ops[i], f[i])
    BY <2>1, LoopHops DEF Accounts
  <2>4. 0 \in T
    BY <2>3 DEF ProfitCovered, Start
  <2>. HIDE DEF len
  <2>5. ASSUME NEW i \in 1..len, i - 1 \in T PROVE i \in T
    <3>1. i \in Nat /\ i - 1 \in 0..len
      BY <2>2
    <3>2. ASSUME f[i].ok PROVE Covered(f[i])
      <4>1. HopDone(f[i - 1], ops[i], f[i]) /\ f[i - 1] \in HopStates
        BY <2>3, <3>1, <3>2
      <4>2. f[i - 1].ok
        BY <4>1 DEF HopDone
      <4>3. Covered(f[i - 1])
        BY <2>5, <4>2
      <4>4. supply \in [PoolIds -> Nat]
        BY DEF Accounts, Amounts
      <4>. QED BY <4>1, <4>3, <4>4, HopCovers
    <3>. QED BY <3>1, <3>2
  <2>6. \A i \in 0..len : i \in T
    <3>. HIDE DEF T
    <3>. QED BY <2>2, <2>4, <2>5, StepByStep
  <2>7. len \in T
    BY <2>2, <2>6
  <2>. QED BY <2>1, <2>7 DEF len
<1>3. CASE paid' = Nothing
  <2>1. PICK f : Loop(ops, n, pegs, f, Len(ops)) /\ AfterHops(ops, n, pegs) = f[Len(ops)]
    BY LoopEnds
  <2>2. Len(ops) \in Nat /\ Len(ops) \in 0..Len(ops)
    BY MarketAssumption
  <2>3. f[Len(ops)] \in HopStates
    BY <2>1, <2>2, LoopHops DEF Accounts
  <2>4. AfterHops(ops, n, pegs).amount \in Nat
    BY <2>1, <2>3, AmountsAreNumbers DEF HopStates
  <2>5. book' = book /\ profit' = profit /\ scale' = scale
    BY <1>3, <2>4, SwapRefused
  <2>. QED BY <1>1, <2>5 DEF ProfitCovered, PoolIds, PriceOf
<1>. QED BY <1>2, <1>3

LEMMA PriceStays ==
  ASSUME ProfitCovered, UNCHANGED <<book, supply, profit, scale>>, withdrawn \subseteq withdrawn'
  PROVE  ProfitCovered'
BY DEF ProfitCovered, PoolIds, PriceOf

LEMMA ProvideCovers ==
  ASSUME Accounts, ProfitCovered, NEW k \in PoolIds, NEW deposit \in Deposits[k], NEW fee \in Fees,
         NEW peg \in Scales, ProvideLiquidity(k, deposit, fee, peg)
  PROVE  ProfitCovered'
<1>. DEFINE old == book[k]
            new == <<old[1] + deposit[1], old[2] + deposit[2]>>
            first == supply[k] = 0
            s == scale[k]
            share == IF first THEN FirstShare(k, new) ELSE AccruedShare(k, old, new, supply[k]) - fee
            total == supply[k] + share
            moves == ~first /\ Moves(~Balanced(deposit, new, share, supply[k]), profit[k])
            worth == IF first THEN ONE ELSE IF moves THEN PriceOf(k, peg, new, total) ELSE profit[k]
            target == IF moves THEN peg ELSE s
<1>1. /\ book' = [book EXCEPT ![k] = new] /\ share > 0
      /\ supply' = [supply EXCEPT ![k] = total + Lock(first)]
      /\ profit' = [profit EXCEPT ![k] = worth]
      /\ scale' = IF moves THEN [scale EXCEPT ![k] = peg] ELSE scale
      /\ withdrawn' = withdrawn
  BY DEF ProvideLiquidity
<1>2. /\ Accounts'
      /\ supply[k] > 0 /\ supply'[k] > supply[k] =>
           Xcp(k, s, book'[k]) * supply[k] >= Xcp(k, s, book[k]) * supply'[k]
  BY ProvideIsFair
<1>. HIDE DEF new, old, moves
<1>3. /\ book'[k] = new /\ supply'[k] = total + Lock(first) /\ profit'[k] = worth
      /\ scale'[k] = target
      /\ \A j \in PoolIds \ {k} : /\ book'[j] = book[j] /\ supply'[j] = supply[j]
                                   /\ profit'[j] = profit[j] /\ scale'[j] = scale[j]
  <2>. HIDE DEF total, worth, first
  <2>. QED BY <1>1 DEF Accounts, Amounts
<1>4. new \in Reserves /\ old \in Reserves /\ supply[k] \in Nat /\ supply'[k] \in Nat
  BY <1>2, <1>3 DEF Accounts, Amounts, PoolIds, Reserves, old
<1>5. /\ s \in Scales /\ \A u \in Scales : Xcp(k, u, new) \in Nat /\ Xcp(k, u, old) \in Nat
      /\ ONE \in Nat /\ MINIMUM_LIQUIDITY_AMOUNT \in Nat \ {0}
  BY <1>4, XcpOfReserves, MarketAssumption DEF Accounts, Amounts, Reserves
<1>6. ASSUME k \notin withdrawn, supply'[k] > 0 PROVE worth <= PriceOf(k, target, new, supply'[k])
  <2>1. CASE first
    <3>1. worth = ONE /\ share = Xcp(k, s, new) - MINIMUM_LIQUIDITY_AMOUNT /\ supply[k] = 0
          /\ Lock(first) = MINIMUM_LIQUIDITY_AMOUNT /\ target = s
      BY <2>1 DEF FirstShare, Lock, moves
    <3>. HIDE DEF share, worth, target
    <3>2. supply'[k] = Xcp(k, s, new)
      BY <1>3, <1>5, <3>1
    <3>3. Xcp(k, s, new) * ONE <= Xcp(k, s, new) * ONE /\ Xcp(k, s, new) * ONE \in Nat
      BY <1>5
    <3>4. ONE <= (Xcp(k, s, new) * ONE) \div Xcp(k, s, new)
      BY <1>5, <1>6, <3>2, <3>3, QuotientAbove
    <3>. QED BY <3>1, <3>2, <3>4 DEF PriceOf
  <2>2. CASE ~first
    <3>1. Lock(first) = 0 /\ supply[k] > 0
      BY <1>4, <2>2 DEF Lock
    <3>2. supply'[k] = total /\ supply'[k] > supply[k]
      <4>1. supply[k] + share + 0 = supply'[k] /\ share > 0
        BY <1>1, <1>3, <3>1
      <4>2. share \in Int
        <5>1. supply[k] * Xcp(k, s, new) \in Nat /\ Xcp(k, s, old) > 0 /\ fee \in Nat
          <6>1. Xcp(k, s, old) > 0
            BY <2>2 DEF ProvideLiquidity, old
          <6>. QED BY <1>4, <1>5, <6>1, MarketAssumption
        <5>2. (supply[k] * Xcp(k, s, new)) \div Xcp(k, s, old) \in Nat
          BY <1>5, <5>1, QuotientBelow
        <5>. QED BY <1>4, <2>2, <5>1, <5>2 DEF AccruedShare
      <4>. HIDE DEF share
      <4>. QED BY <1>4, <4>1, <4>2
    <3>3. Xcp(k, s, old) * supply'[k] <= Xcp(k, s, new) * supply[k]
      <4>1. Xcp(k, s, new) * supply[k] >= Xcp(k, s, old) * supply'[k]
        BY <1>2, <1>3, <3>1, <3>2 DEF old
      <4>. QED BY <1>4, <1>5, <4>1
    <3>. HIDE DEF total, share
    <3>4. CASE moves
      <4>1. worth = PriceOf(k, peg, new, supply'[k]) /\ target = peg
        BY <2>2, <3>2, <3>4
      <4>2. PriceOf(k, peg, new, supply'[k]) \in Nat
        BY <1>4, <1>5, <1>6, PriceIsNumber
      <4>. QED BY <4>1, <4>2
    <3>5. CASE ~moves
      <4>1. worth = profit[k] /\ target = s
        BY <2>2, <3>5
      <4>2. PriceOf(k, s, old, supply[k]) <= PriceOf(k, s, new, supply'[k])
        BY <1>4, <1>5, <1>6, <3>1, <3>3, PriceRises
      <4>3. profit[k] <= PriceOf(k, s, old, supply[k])
        BY <1>6, <3>1 DEF ProfitCovered, old
      <4>4. /\ PriceOf(k, s, old, supply[k]) \in Nat /\ PriceOf(k, s, new, supply'[k]) \in Nat
            /\ profit[k] \in Nat
        BY <1>4, <1>5, <1>6, <3>1, PriceIsNumber DEF Accounts, Amounts
      <4>. QED BY <4>1, <4>2, <4>3, <4>4
    <3>. QED BY <3>4, <3>5
  <2>. QED BY <2>1, <2>2
<1>7. ASSUME NEW j \in PoolIds \ withdrawn, supply'[j] > 0
      PROVE  profit'[j] <= PriceOf(j, scale'[j], book'[j], supply'[j])
  <2>1. CASE j = k
    BY <1>3, <1>6, <1>7, <2>1
  <2>2. CASE j # k
    <3>1. supply[j] > 0 /\ profit[j] <= PriceOf(j, scale[j], book[j], supply[j])
      BY <1>3, <1>7, <2>2 DEF ProfitCovered
    <3>. QED BY <1>3, <2>2, <3>1
  <2>. QED BY <2>1, <2>2
<1>. QED BY <1>1, <1>7 DEF ProfitCovered, PoolIds, PriceOf

LEMMA BurnCovers ==
  ASSUME Accounts, ProfitCovered, NEW k \in PoolIds, NEW n \in Withdrawals[k], BurnLp(k, n)
  PROVE  ProfitCovered'
<1>1. /\ supply' = [supply EXCEPT ![k] = @ - n] /\ n \in Nat
      /\ supply[k] - n >= MINIMUM_LIQUIDITY_AMOUNT
  BY WithdrawKeepsAccounts
<1>2. book' = book /\ profit' = profit /\ scale' = scale /\ withdrawn' = withdrawn
  BY DEF BurnLp
<1>3. MINIMUM_LIQUIDITY_AMOUNT \in Nat \ {0} /\ ONE \in Nat
  BY MarketAssumption
<1>4. ASSUME NEW j \in PoolIds \ withdrawn, supply'[j] > 0
      PROVE  profit[j] <= PriceOf(j, scale[j], book[j], supply'[j])
  <2>1. supply[j] \in Nat /\ book[j] \in Reserves /\ profit[j] \in Nat /\ scale[j] \in Scales
    BY DEF Accounts, Amounts
  <2>2. ASSUME supply[j] > 0, supply'[j] \in Nat \ {0}, supply'[j] <= supply[j]
        PROVE  profit[j] <= PriceOf(j, scale[j], book[j], supply'[j])
    <3>1. Xcp(j, scale[j], book[j]) \in Nat
      BY <2>1, XcpOfReserves DEF Reserves
    <3>2. Xcp(j, scale[j], book[j]) * supply'[j] <= Xcp(j, scale[j], book[j]) * supply[j]
      BY <2>1, <2>2, <3>1
    <3>3. PriceOf(j, scale[j], book[j], supply[j]) <= PriceOf(j, scale[j], book[j], supply'[j])
      BY <2>1, <2>2, <3>1, <3>2, PriceRises
    <3>4. Xcp(j, scale[j], book[j]) * ONE \in Nat
      BY <1>3, <3>1
    <3>5. /\ PriceOf(j, scale[j], book[j], supply[j]) \in Nat
          /\ PriceOf(j, scale[j], book[j], supply'[j]) \in Nat
      BY <2>1, <2>2, <3>4, QuotientBelow DEF PriceOf
    <3>6. profit[j] <= PriceOf(j, scale[j], book[j], supply[j])
      BY <1>4, <2>2 DEF ProfitCovered
    <3>. QED BY <2>1, <3>3, <3>5, <3>6
  <2>3. CASE j = k
    <3>1. supply'[j] = supply[j] - n
      BY <1>1, <2>3 DEF Accounts, Amounts
    <3>2. supply[j] > 0 /\ supply'[j] \in Nat \ {0} /\ supply'[j] <= supply[j]
      BY <1>1, <1>3, <2>1, <2>3, <3>1
    <3>. QED BY <2>2, <3>2
  <2>4. CASE j # k
    <3>1. supply'[j] = supply[j]
      BY <1>1, <2>4 DEF Accounts, Amounts
    <3>. QED BY <1>4, <2>1, <2>2, <3>1
  <2>. QED BY <2>3, <2>4
<1>. QED BY <1>2, <1>4 DEF ProfitCovered, PoolIds, PriceOf

LEMMA WithdrawCovers ==
  ASSUME Accounts, ProfitCovered, NEW k \in PoolIds, NEW n \in Withdrawals[k], WithdrawLiquidity(k, n)
  PROVE  ProfitCovered'
<1>1. /\ supply' = [supply EXCEPT ![k] = @ - n] /\ profit' = profit /\ scale' = scale
      /\ withdrawn' = withdrawn \cup {k}
      /\ book' = [book EXCEPT ![k] = <<@[1] - n, @[2] - n>>]
  BY DEF WithdrawLiquidity
<1>2. \A j \in PoolIds \ {k} : supply'[j] = supply[j] /\ book'[j] = book[j]
  BY <1>1 DEF Accounts, Amounts
<1>3. \A j \in PoolIds \ withdrawn' : j # k /\ j \notin withdrawn
  BY <1>1
<1>. QED BY <1>1, <1>2, <1>3 DEF ProfitCovered, PoolIds, PriceOf
-----------------------------------------------------------------------------
(* Quotes *)

LEMMA SwapPaysQuote ==
  ASSUME Accounts, NEW ops \in Paths, NEW n \in 0..MaxReserve, NEW seen, NEW g,
         Answered(seen, ops, n, g), VisitsOnce(ops), \A k \in DOMAIN seen : PoolState(k) = seen[k],
         NEW pegs \in Pegs(ops), Swap(ops, n, pegs), paid' # Nothing
  PROVE  paid' = g[Len(ops)]
<1>1. PICK f : /\ Loop(ops, n, pegs, f, Len(ops)) /\ f[Len(ops)].ok /\ paid' = f[Len(ops)].amount
  BY SwapPays
<1>. DEFINE len == Len(ops)
            AsSeen(st, k) == st.book[k] = seen[k].reserves /\ st.scale[k] = seen[k].price_scale
            Left(i) == \A j \in (i + 1)..len : AsSeen(f[i], PoolOf(ops[j]))
            T == {i \in Nat : f[i].ok => f[i].amount = g[i] /\ Left(i)}
<1>2. len \in Nat
  BY MarketAssumption
<1>3. /\ f[0] = Start(n)
      /\ \A i \in 0..len : f[i] \in HopStates
      /\ \A i \in 1..len : f[i].ok => HopDone(f[i - 1], ops[i], f[i])
  BY <1>1, LoopHops DEF Accounts
<1>4. \A j \in 1..len : HasPool(ops[j]) /\ PoolOf(ops[j]) \in DOMAIN seen
  BY DEF Answered
<1>5. 0 \in T
  <2>1. \A k \in DOMAIN seen : AsSeen(Start(n), k)
    BY DEF Start, PoolState
  <2>2. Start(n).amount = g[0]
    BY DEF Start, Answered
  <2>. QED BY <1>3, <1>4, <2>1, <2>2
<1>6. ASSUME NEW i \in 1..len, i - 1 \in T PROVE i \in T
  <2>. SUFFICES ASSUME f[i].ok PROVE f[i].amount = g[i] /\ Left(i)
    BY <1>2
  <2>. DEFINE op == ops[i]
              k == PoolOf(op)
              o == OfferIndex(op)
              st == f[i - 1]
              dy == Curve(k, st.scale[k], st.book[k], Other(o), st.amount)
              to == Traded(st.book[k], o, st.amount, dy)
  <2>1. i - 1 \in 0..len /\ i \in ((i - 1) + 1)..len
    BY <1>2
  <2>2. /\ st.ok /\ f[i] = [book |-> f[i].book, scale |-> f[i].scale, profit |-> f[i].profit,
                           amount |-> dy, ok |-> TRUE]
        /\ f[i].book = [st.book EXCEPT ![k] = to]
        /\ HopUnpriced(st, k, dy, f[i]) \/ HopPriced(st, k, to, f[i])
    BY <1>3, Zenon DEF HopDone
  <2>3. st.amount = g[i - 1] /\ Left(i - 1)
    BY <1>6, <2>2
  <2>4. AsSeen(st, k)
    BY <2>1, <2>3
  <2>5. g[i] = Curve(k, seen[k].price_scale, seen[k].reserves, Other(o), g[i - 1])
    BY DEF Answered, CurveAt
  <2>6. f[i].amount = g[i]
    <3>1. f[i].amount = dy
      BY <2>2
    <3>. QED BY <2>3, <2>4, <2>5, <3>1
  <2>7. ASSUME NEW j \in (i + 1)..len PROVE AsSeen(f[i], PoolOf(ops[j]))
    <3>1. j \in 1..len /\ j \in ((i - 1) + 1)..len /\ i # j
      BY <1>2
    <3>2. PoolOf(ops[j]) # k
      BY <3>1 DEF VisitsOnce
    <3>3. PoolOf(ops[j]) \in PoolIds /\ st.book \in [PoolIds -> Reserves]
          /\ st.scale \in [PoolIds -> Scales]
      BY <1>3, <1>4, <2>1, <3>1, PoolFound DEF HopStates
    <3>4. /\ f[i].book[PoolOf(ops[j])] = st.book[PoolOf(ops[j])]
          /\ f[i].scale[PoolOf(ops[j])] = st.scale[PoolOf(ops[j])]
      <4>. HIDE DEF to, k, st, dy
      <4>1. f[i].book[PoolOf(ops[j])] = st.book[PoolOf(ops[j])]
        BY <2>2, <3>2, <3>3
      <4>2. f[i].scale = st.scale \/ \E peg \in Scales : f[i].scale = [st.scale EXCEPT ![k] = peg]
        BY <2>2 DEF HopUnpriced, HopPriced
      <4>3. f[i].scale[PoolOf(ops[j])] = st.scale[PoolOf(ops[j])]
        BY <3>2, <3>3, <4>2
      <4>. QED BY <4>1, <4>3
    <3>. QED BY <2>3, <3>1, <3>4
  <2>. QED BY <2>6, <2>7
<1>7. \A i \in 0..len : i \in T
  <2>. HIDE DEF T, len
  <2>. QED BY <1>2, <1>5, <1>6, StepByStep
<1>. QED BY <1>1, <1>2, <1>7

(* What is known of a signed swap until it is executed. *)
Remembered ==
  request # NoRequest =>
    /\ request.operations \in Paths /\ request.amount \in Offers
    /\ request.minimum_receive \in Nat
    /\ \E g : /\ request.minimum_receive = g[Len(request.operations)]
              /\ Answered(request.seen, request.operations, request.amount, g)

Inv == Accounts /\ Remembered /\ paid \in Nat \cup {Nothing} /\ withdrawn \subseteq PoolIds

LEMMA QuoteRemembers ==
  ASSUME Inv, NEW ops \in Paths, NEW n \in Offers, Quote(ops, n)
  PROVE  Inv'
<1>. DEFINE seen == [k \in {PoolOf(ops[i]) : i \in 1..Len(ops)} |-> PoolState(k)]
<1>1. n \in 0..MaxReserve
  BY MarketAssumption
<1>2. /\ Simulate(ops, n) # Nothing
      /\ request' = [operations |-> ops, amount |-> n, minimum_receive |-> Simulate(ops, n),
                     seen |-> seen]
      /\ paid' = Nothing /\ UNCHANGED <<book, supply, profit, scale, withdrawn>>
  BY DEF Quote, state
<1>3. Simulate(ops, n) \in Nat
      /\ \E g : Simulate(ops, n) = g[Len(ops)] /\ Answered(seen, ops, n, g)
  BY <1>1, <1>2, QuoteIsAnswered DEF Inv, Accounts
<1>. HIDE DEF seen
<1>4. /\ request'.operations = ops /\ request'.amount = n /\ request'.seen = seen
      /\ request'.minimum_receive = Simulate(ops, n)
  BY <1>2
<1>5. Remembered'
  <2>1. \E g : request'.minimum_receive = g[Len(request'.operations)]
               /\ Answered(request'.seen, request'.operations, request'.amount, g)
    BY <1>3, <1>4
  <2>. QED BY <1>3, <1>4, <2>1 DEF Remembered, Answered, CurveAt, PoolOf, HasPool, OfferIndex, PoolIds, Connects
<1>. QED BY <1>2, <1>5 DEF Inv, Accounts, Amounts, PoolIds, Reserves

LEMMA RequestStays ==
  ASSUME Remembered, request' = request
  PROVE  Remembered'
BY Zenon DEF Remembered

LEMMA InvStep ==
  ASSUME Inv, [Next]_vars
  PROVE  Inv'
<1>. USE DEF Inv
<1>1. ASSUME NEW ops \in Paths, NEW n \in Offers, Quote(ops, n) PROVE Inv'
  BY <1>1, QuoteRemembers
<1>2. ASSUME NEW ops \in Paths, NEW n \in Offers, SwapByOthers(ops, n) PROVE Inv'
  <2>1. n \in 0..MaxReserve
    BY MarketAssumption
  <2>2. PICK pegs \in Pegs(ops) : Swap(ops, n, pegs) /\ request' = request
    BY <1>2 DEF SwapByOthers
  <2>3. Accounts' /\ paid' \in Nat \cup {Nothing} /\ Remembered'
    BY <2>1, <2>2, SwapKeepsAccounts, RequestStays
  <2>. QED BY <2>2, <2>3 DEF Swap, PoolIds
<1>3. CASE ExecuteRequest
  <2>1. request.operations \in Paths /\ request.amount \in 0..MaxReserve
    BY <1>3, MarketAssumption DEF ExecuteRequest, Remembered
  <2>2. PICK pegs \in Pegs(request.operations) :
          Swap(request.operations, request.amount, pegs) /\ request' = NoRequest
    BY <1>3 DEF ExecuteRequest
  <2>3. Accounts' /\ paid' \in Nat \cup {Nothing} /\ Remembered'
    BY <2>1, <2>2, SwapKeepsAccounts DEF Remembered
  <2>. QED BY <2>2, <2>3 DEF Swap, PoolIds
<1>4. ASSUME NEW k \in PoolIds, NEW deposit \in Deposits[k], NEW fee \in Fees,
             NEW peg \in Scales, ProvideLiquidity(k, deposit, fee, peg)
      PROVE  Inv'
  <2>1. paid' = Nothing /\ request' = request /\ withdrawn' = withdrawn
    BY <1>4 DEF ProvideLiquidity
  <2>2. Accounts' /\ Remembered'
    BY <1>4, <2>1, ProvideIsFair, RequestStays
  <2>. QED BY <2>1, <2>2 DEF PoolIds
<1>5. ASSUME NEW k \in PoolIds, NEW n \in Withdrawals[k], WithdrawLiquidity(k, n) \/ BurnLp(k, n)
      PROVE  Inv'
  <2>1. paid' = Nothing /\ request' = request /\ withdrawn' \subseteq withdrawn \cup {k}
    BY <1>5 DEF WithdrawLiquidity, BurnLp
  <2>2. Accounts' /\ Remembered'
    BY <1>5, <2>1, WithdrawKeepsAccounts, RequestStays
  <2>. QED BY <2>1, <2>2 DEF PoolIds
<1>6. CASE UNCHANGED vars
  BY <1>6, RequestStays DEF vars, state, Accounts, Amounts, PoolIds, Reserves
<1>. QED BY <1>1, <1>2, <1>3, <1>4, <1>5, <1>6 DEF Next

LEMMA InvInit == Init => Inv
<1>1. MaxReserve \in Nat /\ InitialScale \in Scales
  BY MarketAssumption
<1>. QED BY <1>1 DEF Init, Inv, Accounts, Amounts, Reserves, Remembered

LEMMA AlwaysInv == Spec => []Inv
<1>1. Inv /\ [Next]_vars => Inv'
  BY InvStep
<1>. QED BY <1>1, InvInit, PTL DEF Spec

(* The type invariant, in which reserves stay within 0..MaxReserve and no  *)
(* pool has reserves without LP tokens against them.                       *)
THEOREM TypeCorrect == Spec => []TypeOK
<1>1. Inv => TypeOK
  BY DEF Inv, Accounts, Amounts, Remembered, TypeOK, InBounds, Reserves
<1>. QED BY <1>1, AlwaysInv, PTL

(* A swap pays what simulate_swap_operations answered if the pools on its  *)
(* path have the reserves and the price scale they had: for every curve,   *)
(* every repegging and every number of hops.                               *)
THEOREM QuotesHold == Spec => QuoteHolds
<1>. DEFINE Pays == RequestPays /\ VisitsOnce(request.operations) /\ Unchanged(request)
                      => paid' = request.minimum_receive
<1>1. Inv /\ [Next]_vars => [Pays]_vars
  <2>. SUFFICES ASSUME Inv, [Next]_vars, RequestPays, VisitsOnce(request.operations), Unchanged(request)
                PROVE  paid' = request.minimum_receive
    OBVIOUS
  <2>1. ExecuteRequest
    <3>1. request # NoRequest /\ request' = NoRequest
      BY DEF RequestPays
    <3>2. request' # request
      BY <3>1
    <3>3. Next
      BY <3>2 DEF vars
    <3>4. \A ops, n : ~Quote(ops, n) /\ ~SwapByOthers(ops, n)
      BY <3>1, <3>2 DEF Quote, SwapByOthers
    <3>5. \A k, n, fee, peg : ~ProvideLiquidity(k, n, fee, peg) /\ ~WithdrawLiquidity(k, n) /\ ~BurnLp(k, n)
      BY <3>2 DEF ProvideLiquidity, WithdrawLiquidity, BurnLp
    <3>. QED BY <3>3, <3>4, <3>5 DEF Next
  <2>2. /\ \E pegs \in Pegs(request.operations) : Swap(request.operations, request.amount, pegs)
        /\ paid' # Nothing
        /\ request.operations \in Paths /\ request.amount \in 0..MaxReserve
    BY <2>1, MarketAssumption DEF ExecuteRequest, RequestPays, Inv, Remembered
  <2>3. PICK g : /\ request.minimum_receive = g[Len(request.operations)]
                 /\ Answered(request.seen, request.operations, request.amount, g)
    BY <2>1 DEF ExecuteRequest, Inv, Remembered
  <2>. QED BY <2>2, <2>3, SwapPaysQuote DEF Inv, Unchanged
<1>. QED BY <1>1, AlwaysInv, PTL DEF Spec, QuoteHolds

(* A deposit, balanced or not, does not lower what an LP token is worth to *)
(* those who hold it.                                                      *)
THEOREM NobodyIsDiluted == Spec => DepositDilutesNobody
<1>. DEFINE Fair == \A k \in PoolIds : supply[k] > 0 /\ supply'[k] > supply[k] =>
                      Xcp(k, scale[k], book'[k]) * supply[k] >= Xcp(k, scale[k], book[k]) * supply'[k]
<1>1. Inv /\ [Next]_vars => [Fair]_vars
  <2>. SUFFICES ASSUME Inv, Next PROVE Fair
    OBVIOUS
  <2>1. ASSUME supply' = supply PROVE Fair
    BY <2>1 DEF Inv, Accounts, Amounts
  <2>2. ASSUME NEW k \in PoolIds, NEW deposit \in Deposits[k], NEW fee \in Fees,
               NEW peg \in Scales, ProvideLiquidity(k, deposit, fee, peg)
        PROVE  Fair
    BY <2>2, ProvideIsFair DEF Inv
  <2>3. ASSUME NEW k \in PoolIds, NEW n \in Withdrawals[k],
               WithdrawLiquidity(k, n) \/ BurnLp(k, n)
        PROVE  Fair
    BY <2>3, WithdrawKeepsAccounts DEF Inv
  <2>4. \A ops, n, pegs : Quote(ops, n) \/ Swap(ops, n, pegs) => supply' = supply
    BY DEF Quote, state, Swap
  <2>. QED BY <2>1, <2>2, <2>3, <2>4, SMTT(30) DEF Next, SwapByOthers, ExecuteRequest
<1>. QED BY <1>1, AlwaysInv, PTL DEF Spec, DepositDilutesNobody

(* If the curve never lets a swap too small for update_price take value    *)
(* out of a pool, the stored profit stays covered by what the LP token is  *)
(* worth until somebody withdraws.                                         *)
THEOREM ProfitStaysCovered ==
  ASSUME SmallSwapsKeepValue
  PROVE  Spec => []ProfitCovered
<1>1. Init => ProfitCovered
  BY DEF Init, ProfitCovered
<1>2. Inv /\ ProfitCovered /\ [Next]_vars => ProfitCovered'
  <2>. SUFFICES ASSUME Inv, ProfitCovered, [Next]_vars PROVE ProfitCovered'
    OBVIOUS
  <2>1. ASSUME NEW ops \in Paths, NEW n \in Offers, Quote(ops, n) PROVE ProfitCovered'
    BY <2>1, PriceStays DEF Quote, state
  <2>2. ASSUME NEW ops \in Paths, NEW n \in Offers, SwapByOthers(ops, n) PROVE ProfitCovered'
    BY <2>2, SwapCovers, MarketAssumption DEF SwapByOthers, Inv
  <2>3. CASE ExecuteRequest
    BY <2>3, SwapCovers, MarketAssumption DEF ExecuteRequest, Inv, Remembered
  <2>4. ASSUME NEW k \in PoolIds, NEW deposit \in Deposits[k], NEW fee \in Fees,
               NEW peg \in Scales, ProvideLiquidity(k, deposit, fee, peg)
        PROVE  ProfitCovered'
    BY <2>4, ProvideCovers DEF Inv
  <2>5. ASSUME NEW k \in PoolIds, NEW n \in Withdrawals[k], BurnLp(k, n) PROVE ProfitCovered'
    BY <2>5, BurnCovers DEF Inv
  <2>6. ASSUME NEW k \in PoolIds, NEW n \in Withdrawals[k], WithdrawLiquidity(k, n)
        PROVE  ProfitCovered'
    BY <2>6, WithdrawCovers DEF Inv
  <2>7. CASE UNCHANGED vars
    BY <2>7, PriceStays DEF vars, state
  <2>. QED BY <2>1, <2>2, <2>3, <2>4, <2>5, <2>6, <2>7 DEF Next
<1>. QED BY <1>1, <1>2, AlwaysInv, PTL DEF Spec
=============================================================================
