--------------------------- MODULE PayoutRefines ---------------------------
(***************************************************************************)
(* How the state of PayoutRun stands for the promise of PayoutBooks.       *)
(***************************************************************************)
EXTENDS PayoutRun

(* What the books owe an address is its row, less what the wallet has sent *)
(* it and the run is about to book: between SendAnswered and CommitPayout  *)
(* the row is behind.                                                      *)
Due == [a \in Addr |-> balance[a] - (IF ToBook(a) THEN cache[a] ELSE 0)]

(* An address is on hold from the moment its send is cut off, not only     *)
(* when its flag is up: flagForReconciliation has yet to reach it.         *)
Held == {a \in Addr : a \in flags \/ ToFlag(a)}

(* The specification PayoutRun implements when nothing fails: no           *)
(* interleaving of a run with credits, late broadcasts, halts, bypasses    *)
(* and the operator's repairs sends an address more than its books owe it, *)
(* or lets it leave its hold with books that are wrong.                    *)
Books == INSTANCE PayoutBooks WITH doubt <- limbo, due <- Due, held <- Held
BooksKept == Books!Spec
=============================================================================
