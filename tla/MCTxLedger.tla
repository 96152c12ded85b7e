----------------------------- MODULE MCTxLedger -----------------------------
(* TxLedger for TLC: nothing tells one address from another, and all that  *)
(* is checked of it is about states and steps.                             *)
EXTENDS TxLedger, TLC

Symmetry == Permutations(Addr)
=============================================================================
