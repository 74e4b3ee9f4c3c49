------------------------------ MODULE MCMarket ------------------------------
(***************************************************************************)
(* Instances of Market for TLC: two pools that share an asset, and a curve *)
(* with rounding to the pool's advantage in place of the library's.  Like  *)
(* the library's, it is computed on the reserves with the second one times *)
(* the price scale, and is flatter than a constant product where these are *)
(* equal: it is the constant product with Depth more on either side, but   *)
(* never takes all there is.                                               *)
(***************************************************************************)
EXTENDS MarketProperties, FiniteSetsExt, TLC

CONSTANTS a, b, c, ab, bc

TwoPools == ab :> <<a, b>> @@ bc :> <<b, c>>

Depth == 2
TwoScales == {1, 4}
RootOfScale == 1 :> 1 @@ 4 :> 2

Internal(s, xs) == <<xs[1] + Depth, s * xs[2] + Depth>>

FlatCurve(k, s, xs, ask, n) ==
  LET i == Other(ask)
      ixs == Internal(s, xs)
      offered == IF i = 2 THEN n * s ELSE n
      returned == (ixs[ask] * offered) \div (ixs[i] + offered)
  IN Min({xs[ask] - 1, IF ask = 2 THEN returned \div s ELSE returned})

IntegerRoot(n) == CHOOSE r \in 0..n : r * r <= n /\ (r + 1) * (r + 1) > n
Root == [n \in 0..(MaxReserve + Depth) * (4 * MaxReserve + Depth) |-> IntegerRoot(n)]
FlatXcp(k, s, xs) ==
  IF 0 \in {xs[1], xs[2]} THEN 0
  ELSE Root[Internal(s, xs)[1] * Internal(s, xs)[2]] \div RootOfScale[s]

Op(offer, ask) == [offer_asset_info |-> offer, ask_asset_info |-> ask]
TradePaths == {<<Op(a, b)>>, <<Op(a, b), Op(b, a)>>, <<Op(a, b), Op(b, c)>>}
DepositPairs == ab :> {<<8, 8>>, <<10, 0>>} @@ bc :> {<<14, 14>>}
LpAmounts == ab :> {8} @@ bc :> {}

ASSUME SmallSwapsKeepValue
=============================================================================
