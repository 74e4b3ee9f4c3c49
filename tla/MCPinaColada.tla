---------------------------- MODULE MCPinaColada ----------------------------
(***************************************************************************)
(* Instances of PinaColada for TLC: the pairs clients create and the swap  *)
(* paths they send in each run.                                            *)
(***************************************************************************)
EXTENDS PinaColadaRefinement

CONSTANTS x, y, ibc, l1

Pair(a, b, track) == [asset_infos |-> <<a, b>>, track |-> track]
Op(a, b) == [offer_asset_info |-> a, ask_asset_info |-> b]

(* one pool of the native coin and a cw20 token *)
NativePair == {Pair(DENOM, x, TRUE)}
NativePaths == {<<Op(DENOM, x)>>, <<Op(x, DENOM)>>}

(* two pools that share the token x *)
SharedPairs == {Pair(DENOM, x, FALSE), Pair(x, y, FALSE)}
SharedPaths == {<<Op(DENOM, x), Op(x, y)>>, <<Op(y, x), Op(x, DENOM)>>,
                <<Op(x, y), Op(y, x)>>, <<Op(y, x)>>}

(* a second native coin, reached through the pool of the first *)
ForeignPairs == {Pair(DENOM, x, FALSE), Pair(x, ibc, FALSE)}
ForeignPaths == {<<Op(x, ibc)>>, <<Op(DENOM, x), Op(x, ibc)>>}

(* a pool of x and the LP token of another pool *)
NestedPairs == {Pair(DENOM, x, FALSE), Pair(l1, x, FALSE)}
NestedPaths == {<<Op(l1, x)>>, <<Op(x, l1)>>}
=============================================================================
