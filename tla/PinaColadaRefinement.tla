------------------------ MODULE PinaColadaRefinement ------------------------
(***************************************************************************)
(* PinaColada implements PoolLedger.  While a transaction runs, the ledger *)
(* shows what a rollback would restore; all its effects become visible     *)
(* together, when it commits.                                              *)
(***************************************************************************)
EXTENDS PinaColadaProperties

Settled == IF Idle THEN Snapshot ELSE saved

LedgerBook == [a \in Assets |-> Book(Settled.pair_balances, a)]
LedgerHeld == Settled.bal[PoolManager]
LedgerSupply == Settled.supply

Ledger == INSTANCE PoolLedger WITH
  book <- LedgerBook, held <- LedgerHeld, supply <- LedgerSupply

(* However its storage writes, hops and messages interleave with failures, *)
(* a call of the contract has the effect of one step of the ledger or none *)
(* (execute_provide_liquidity, execute_swap_operations,                    *)
(* execute_withdraw_liquidity, execute_create_pair and the chain's         *)
(* rollback).                                                              *)
ImplementsLedger == Ledger!Spec
=============================================================================
