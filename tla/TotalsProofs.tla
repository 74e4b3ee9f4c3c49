---------------------------- MODULE TotalsProofs ----------------------------
(***************************************************************************)
(* What Total computes, for every finite domain: the total of the zero     *)
(* function, the effect of changing one value, and monotonicity.           *)
(***************************************************************************)
EXTENDS Totals, FiniteSetTheorems, TLAPS

(* The column of units a function has at one point is as tall as its value. *)
LEMMA ColumnSize ==
  ASSUME NEW s, NEW n \in Nat
  PROVE  /\ IsFiniteSet({s} \X (1..n))
         /\ Cardinality({s} \X (1..n)) = n
<1>1. IsFiniteSet(1..n) /\ Cardinality(1..n) = n
  BY FS_Interval
<1> DEFINE g == [i \in 1..n |-> <<s, i>>]
<1>2. g \in Bijection(1..n, {s} \X (1..n))
  <2>1. g \in [1..n -> {s} \X (1..n)]
    OBVIOUS
  <2>2. \A i, j \in 1..n : g[i] = g[j] => i = j
    OBVIOUS
  <2>3. \A t \in {s} \X (1..n) : \E i \in 1..n : g[i] = t
    OBVIOUS
  <2> HIDE DEF g
  <2>4. QED
    BY <2>1, <2>2, <2>3 DEF Bijection, Injection, Surjection, IsInjective
<1>3. QED
  BY <1>1, <1>2, FS_Bijection DEF ExistsBijection

(* Units of a function on a finite domain are finitely many. *)
LEMMA UnitsFinite ==
  ASSUME NEW S, IsFiniteSet(S), NEW f \in [S -> Nat]
  PROVE  IsFiniteSet(Units(f))
<1> DEFINE cols == {{s} \X (1..f[s]) : s \in S}
           g == [s \in S |-> {s} \X (1..f[s])]
<1>1. g \in Surjection(S, cols)
  BY DEF Surjection
<1>2. IsFiniteSet(cols)
  BY <1>1, FS_Surjection
<1>3. \A c \in cols : IsFiniteSet(c)
  <2> SUFFICES ASSUME NEW s \in S
               PROVE  IsFiniteSet({s} \X (1..f[s]))
    OBVIOUS
  <2>1. f[s] \in Nat
    OBVIOUS
  <2>2. QED
    BY <2>1, ColumnSize
<1>4. IsFiniteSet(UNION cols)
  BY <1>2, <1>3, FS_UNION
<1>5. QED
  BY <1>4 DEF Units

LEMMA TotalType ==
  ASSUME NEW S, IsFiniteSet(S), NEW f \in [S -> Nat]
  PROVE  Total(f) \in Nat
BY UnitsFinite, FS_CardinalityType DEF Total

(* A function that is zero everywhere totals zero. *)
LEMMA TotalZero ==
  ASSUME NEW S, NEW f \in [S -> Nat], \A s \in S : f[s] = 0
  PROVE  Total(f) = 0
<1>1. Units(f) = {}
  BY DEF Units
<1>2. QED
  BY <1>1, FS_EmptySet DEF Total

(* Pointwise smaller functions have smaller totals. *)
LEMMA TotalMonotone ==
  ASSUME NEW S, IsFiniteSet(S), NEW f \in [S -> Nat], NEW g \in [S -> Nat],
         \A s \in S : f[s] <= g[s]
  PROVE  Total(f) <= Total(g)
<1>1. Units(f) \in SUBSET Units(g)
  BY DEF Units
<1>2. QED
  BY <1>1, UnitsFinite, FS_Subset DEF Total

(* Changing the value at one point moves the total by the difference. *)
LEMMA TotalUpdate ==
  ASSUME NEW S, IsFiniteSet(S), NEW f \in [S -> Nat], NEW g \in [S -> Nat],
         NEW s \in S, \A t \in S \ {s} : f[t] = g[t]
  PROVE  Total(g) = Total(f) - f[s] + g[s]
<1> DEFINE rest == UNION {{t} \X (1..f[t]) : t \in S \ {s}}
           fcol == {s} \X (1..f[s])
           gcol == {s} \X (1..g[s])
<1>1. Units(f) = rest \cup fcol /\ Units(g) = rest \cup gcol
  BY DEF Units
<1>2. rest \cap fcol = {} /\ rest \cap gcol = {}
  OBVIOUS
<1>3. IsFiniteSet(rest)
  BY <1>1, UnitsFinite, FS_Subset, rest \in SUBSET Units(f)
<1>4. /\ IsFiniteSet(fcol) /\ Cardinality(fcol) = f[s]
      /\ IsFiniteSet(gcol) /\ Cardinality(gcol) = g[s]
  BY ColumnSize
<1> HIDE DEF rest, fcol, gcol
<1>5. Cardinality({}) = 0 /\ Cardinality(rest) \in Nat
  BY <1>3, FS_EmptySet, FS_CardinalityType
<1>6. Cardinality(rest \cup fcol) = Cardinality(rest) + f[s]
  BY <1>2, <1>3, <1>4, <1>5, FS_Union
<1>7. Cardinality(rest \cup gcol) = Cardinality(rest) + g[s]
  BY <1>2, <1>3, <1>4, <1>5, FS_Union
<1>8. QED
  BY <1>1, <1>5, <1>6, <1>7 DEF Total
=============================================================================
