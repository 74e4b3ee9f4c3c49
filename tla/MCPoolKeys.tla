----------------------------- MODULE MCPoolKeys -----------------------------
(***************************************************************************)
(* An instance of PoolKeys for TLC: two tokens with addresses of one       *)
(* length and a native coin whose pairs with them have one key, and lists  *)
(* of none, one, two and three of them.                                    *)
(***************************************************************************)
EXTENDS PoolKeys, TLC, SequencesExt

CONSTANTS a, b, c

Bytes == 1..2
Names == a :> <<1, 2, 1>> @@ b :> <<2, 1>> @@ c :> <<1, 2>>

(* The order of slices of bytes in the Rust library. *)
SliceLeq(v, w) ==
  \/ IsPrefix(v, w)
  \/ \E i \in DOMAIN v \cap DOMAIN w :
       v[i] < w[i] /\ SubSeq(v, 1, i - 1) = SubSeq(w, 1, i - 1)

(* That order on the names, computed once. *)
Order == {p \in Range(Names) \X Range(Names) : SliceLeq(p[1], p[2])}
InOrder(v, w) == <<v, w>> \in Order

AssetLists ==
  {<<a, b>>, <<b, a>>, <<b, c>>, <<c, b>>, <<a, c>>, <<c, a>>, <<a, a>>, <<a, b, c>>, <<b>>, <<>>}
=============================================================================
