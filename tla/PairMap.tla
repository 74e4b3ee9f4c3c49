------------------------------- MODULE PairMap -------------------------------
(***************************************************************************)
(* What the storage of the pool manager stands for: at most one pool for   *)
(* every two assets, whichever is named first, and what it has of each.    *)
(* Some pairs of assets may exclude each other.                            *)
(***************************************************************************)
EXTENDS Naturals

CONSTANTS
  Assets,
  Amounts,     \* the amounts that come in or go out
  Clash(_, _)  \* do two pairs exclude each other?

VARIABLES
  open,  \* the pairs <<s, t>> of assets that have a pool
  held   \* held[s][t]: what the pool of s and t has of s

vars == <<open, held>>

Init ==
  /\ open = {}
  /\ held = [s \in Assets |-> [t \in Assets |-> 0]]

(* A pool is opened empty, and emptied when it is opened again.  Pools it  *)
(* clashes with are gone.                                                  *)
Open(s, t) ==
  LET pair == {<<s, t>>, <<t, s>>}
      gone == {p \in open : Clash(p, <<s, t>>)}
  IN /\ s # t
     /\ open' = (open \ gone) \cup pair
     /\ held' = [u \in Assets |-> [v \in Assets |->
                   IF <<u, v>> \in gone \cup pair THEN 0 ELSE held[u][v]]]

Deposit(s, t, m, n) ==
  /\ <<s, t>> \in open
  /\ held' = [held EXCEPT ![s][t] = @ + m, ![t][s] = @ + n]
  /\ UNCHANGED open

Exchange(s, t, m, n) ==
  /\ <<s, t>> \in open
  /\ n <= held[t][s]
  /\ held' = [held EXCEPT ![s][t] = @ + m, ![t][s] = @ - n]
  /\ UNCHANGED open

Withdraw(s, t, n) ==
  /\ <<s, t>> \in open
  /\ n <= held[s][t] /\ n <= held[t][s]
  /\ held' = [held EXCEPT ![s][t] = @ - n, ![t][s] = @ - n]
  /\ UNCHANGED open

Next ==
  \E s, t \in Assets :
    \/ Open(s, t)
    \/ \E m, n \in Amounts : Deposit(s, t, m, n) \/ Exchange(s, t, m, n)
    \/ \E n \in Amounts : Withdraw(s, t, n)

Spec == Init /\ [][Next]_vars
=============================================================================
