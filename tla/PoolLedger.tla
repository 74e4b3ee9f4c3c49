----------------------------- MODULE PoolLedger -----------------------------
(***************************************************************************)
(* What the pool manager amounts to, seen between transactions: a ledger   *)
(* of what it owes its pools (book), what it holds (held) and how many LP  *)
(* tokens there are (supply).  Every transaction is one step, however many *)
(* pools it goes through and messages it sends: a swap is one exchange of  *)
(* one asset for another, a deposit takes what it books, a withdrawal pays *)
(* no more than the share of the LP tokens it takes out of circulation.    *)
(***************************************************************************)
EXTENDS Integers

CONSTANTS
  Assets, LpTokens, Denoms,
  DENOM,                     \* the native coin swaps are paid in
  MINIMUM_LIQUIDITY_AMOUNT,
  MaxUint

VARIABLES
  book,    \* asset -> what all pools together are recorded to have of it
  held,    \* asset -> what the manager's account has of it
  supply   \* LP token -> its total supply

vars == <<book, held, supply>>
Amount == 1..MaxUint

(* f with n more of a, or n less if n is negative *)
Plus(f, a, n) == [f EXCEPT ![a] = @ + n]

Init ==
  /\ book = [a \in Assets |-> 0]
  /\ held = [a \in Assets |-> 0]
  /\ supply = [l \in LpTokens |-> 0]

(* A new pool starts empty, also when it replaces one that was not. *)
CreatePool ==
  /\ UNCHANGED <<held, supply>>
  /\ \E a, b \in Assets : \A c \in Assets :
       IF c \in {a, b} THEN book'[c] <= book[c] ELSE book'[c] = book[c]

(* LP tokens are minted for one or two assets, of which the account gains  *)
(* what the book gains.  The first time, the minimum is locked in it.      *)
Deposit ==
  \E l \in LpTokens :
    /\ supply'[l] > supply[l]
    /\ \A m \in LpTokens \ {l} : supply'[m] = supply[m]
    /\ \E a, b \in Assets : {c \in Assets : book'[c] # book[c]} = {a, b}
    /\ book'[l] = book[l]
    /\ \A a \in Assets \ {l} : book'[a] >= book[a] /\ held'[a] - held[a] = book'[a] - book[a]
    /\ held'[l] - held[l] \in
         (IF supply[l] = 0 THEN MINIMUM_LIQUIDITY_AMOUNT ELSE 0) .. (supply'[l] - supply[l])

(* n of an asset come in and m of another are booked out.  Of the asset    *)
(* that comes in, it is only known that it is in the first pool of the     *)
(* path; what is paid for a native coin is DENOM.  A payout to the         *)
(* manager itself stays where it is.                                       *)
Exchange ==
  /\ supply' = supply
  /\ \E given, ask \in Assets, n, m \in Amount :
       LET paid == IF ask \in Denoms THEN DENOM ELSE ask
       IN /\ held' \in {Plus(held, given, n), Plus(Plus(held, given, n), paid, -m)}
          /\ \E offer \in Assets : book' = Plus(Plus(book, offer, n), ask, -m)

(* n LP tokens are burnt and leave the book as n of both assets; the       *)
(* account pays a share of what is booked of each.                         *)
Withdraw ==
  \E l \in LpTokens :
    LET n == supply[l] - supply'[l]
    IN /\ n \in 1..(supply[l] - 1)
       /\ \A m \in LpTokens \ {l} : supply'[m] = supply[m]
       /\ \E a, b \in Assets :
            /\ a # b
            /\ book' = Plus(Plus(book, a, -n), b, -n)
            /\ \A c \in {a, b} : (held[c] - held'[c]) * supply[l] \in 1..(book[c] * (n - 1))
            /\ \A c \in Assets \ {a, b} : held'[c] = held[c]

(* What others do with their tokens: send some to the account, burn some. *)
Receive ==
  /\ supply' = supply /\ book' = book
  /\ \E a \in Assets, n \in Amount : held' = Plus(held, a, n)

Burn ==
  /\ UNCHANGED <<book, held>>
  /\ \E l \in LpTokens, n \in Amount : supply' = Plus(supply, l, -n)

Next ==
  /\ vars' # vars
  /\ CreatePool \/ Deposit \/ Exchange \/ Withdraw \/ Receive \/ Burn

Spec == Init /\ [][Next]_vars
=============================================================================
