---------------------------- MODULE PayoutBooks ----------------------------
(***************************************************************************)
(* What the payout daemon promises the owner of an address, with no run,   *)
(* no group and no Redis key in sight.  On one side what the pool credited *)
(* him and what the wallet really sent him; on the other what the books    *)
(* still owe him.  A send with no answer puts him on hold, and on hold he  *)
(* stays until it is known what became of the send and a human has put the *)
(* books right.                                                            *)
(*                                                                         *)
(* PayoutRun without faults implements this (module PayoutRefines).  The   *)
(* actions say what a step may do at most, not how much it does.           *)
(***************************************************************************)
EXTENDS Integers

CONSTANT Addr

VARIABLES
    credited,  \* what the pool has credited to each address
    paid,      \* what the wallet has sent it
    doubt,     \* what a send without an answer may still send it
    due,       \* what the books owe it
    held       \* the addresses on hold

vars == <<credited, paid, doubt, due, held>>

Init ==
    /\ credited = [a \in Addr |-> 0] /\ paid = [a \in Addr |-> 0]
    /\ doubt = [a \in Addr |-> 0] /\ due = [a \in Addr |-> 0]
    /\ held = {}

(* Nothing about an address that is not in S changes.                      *)
OnlyFor(S, before, after) == \A a \in Addr \ S : after[a] = before[a]

(* The pool credits an address: its books owe it that much more.           *)
Credit(a) ==
    /\ credited' \in [Addr -> Nat] /\ due' \in [Addr -> Int]
    /\ OnlyFor({a}, credited, credited') /\ OnlyFor({a}, due, due')
    /\ credited'[a] >= credited[a]
    /\ due'[a] - due[a] = credited'[a] - credited[a]
    /\ UNCHANGED <<paid, doubt, held>>

(* Addresses are sent at most what they are owed, and owed that much less. *)
(* None of them is on hold.                                                *)
Pay(S) ==
    /\ S \cap held = {}
    /\ paid' \in [Addr -> Nat]
    /\ OnlyFor(S, paid, paid')
    /\ \A a \in S : paid[a] <= paid'[a] /\ paid'[a] <= paid[a] + due[a]
    /\ due' = [a \in Addr |-> due[a] - (paid'[a] - paid[a])]
    /\ UNCHANGED <<credited, doubt, held>>

(* A send to S is cut off: it may send what they are owed, now or later.   *)
(* They are on hold from this moment on.                                   *)
LoseTouch(S) ==
    /\ S \cap held = {}
    /\ doubt' \in [Addr -> Nat]
    /\ OnlyFor(S, doubt, doubt')
    /\ \A a \in S : doubt'[a] <= due[a]
    /\ held' = held \cup S
    /\ UNCHANGED <<credited, paid, due>>

(* What was in doubt has been sent, or never will be.                      *)
Resolve(a) ==
    /\ a \in held
    /\ \/ paid' = [paid EXCEPT ![a] = @ + doubt[a]]
       \/ paid' = paid
    /\ doubt' = [doubt EXCEPT ![a] = 0]
    /\ UNCHANGED <<credited, due, held>>

(* With nothing in doubt any more, the books are put right and the hold    *)
(* ends.                                                                   *)
Settle(a) ==
    /\ a \in held /\ doubt[a] = 0
    /\ due' = [due EXCEPT ![a] = credited[a] - paid[a]]
    /\ held' = held \ {a}
    /\ UNCHANGED <<credited, paid, doubt>>

Next ==
    \/ \E a \in Addr : Credit(a) \/ Resolve(a) \/ Settle(a)
    \/ \E S \in SUBSET Addr : Pay(S) \/ LoseTouch(S)

Spec == Init /\ [][Next]_vars
-----------------------------------------------------------------------------
(* Whoever is not on hold has books that are right, and nothing in doubt;  *)
(* whoever is on hold has not been, and will not be, sent more than the    *)
(* books still owe him on top of what they have taken off.                 *)
BooksRight ==
    /\ credited \in [Addr -> Nat] /\ paid \in [Addr -> Nat]
    /\ doubt \in [Addr -> Nat] /\ due \in [Addr -> Int]
    /\ held \subseteq Addr
    /\ \A a \in Addr :
          /\ 0 <= due[a]
          /\ a \notin held => due[a] = credited[a] - paid[a] /\ doubt[a] = 0
          /\ paid[a] + doubt[a] <= credited[a]
=============================================================================
