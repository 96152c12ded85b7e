------------------------- MODULE PayoutBooksProofs -------------------------
(***************************************************************************)
(* What the promise of PayoutBooks amounts to.                             *)
(***************************************************************************)
EXTENDS PayoutBooks, TLAPS

LEMMA BooksInit == Init => BooksRight
BY DEF Init, BooksRight

LEMMA BooksStep == BooksRight /\ [Next]_vars => BooksRight'
<1> SUFFICES ASSUME BooksRight, [Next]_vars PROVE BooksRight'
  OBVIOUS
<1> USE DEF BooksRight, OnlyFor
<1>1. ASSUME NEW a \in Addr, Credit(a) PROVE BooksRight'
  <2>1. /\ credited' \in [Addr -> Nat] /\ due' \in [Addr -> Int]
        /\ UNCHANGED <<paid, doubt, held>>
    BY <1>1 DEF Credit
  <2>2. ASSUME NEW b \in Addr
        PROVE  /\ due'[b] - due[b] = credited'[b] - credited[b]
               /\ credited'[b] >= credited[b]
    <3>1. CASE b = a
      BY <1>1, <3>1 DEF Credit
    <3>2. CASE b /= a
      BY <1>1, <3>2 DEF Credit
    <3> QED
      BY <3>1, <3>2
  <2> QED
    BY <2>1, <2>2
<1>2. ASSUME NEW a \in Addr, Resolve(a) PROVE BooksRight'
  <2>1. /\ paid' \in [Addr -> Nat] /\ doubt' \in [Addr -> Nat]
        /\ \A b \in Addr : b /= a => paid'[b] = paid[b] /\ doubt'[b] = doubt[b]
        /\ paid'[a] + doubt'[a] <= paid[a] + doubt[a]
    BY <1>2 DEF Resolve
  <2> QED
    BY <1>2, <2>1 DEF Resolve
<1>3. ASSUME NEW a \in Addr, Settle(a) PROVE BooksRight'
  <2>1. /\ due' \in [Addr -> Int] /\ due'[a] = credited[a] - paid[a]
        /\ \A b \in Addr : b /= a => due'[b] = due[b]
    BY <1>3 DEF Settle
  <2> QED
    BY <1>3, <2>1 DEF Settle
<1>4. ASSUME NEW S \in SUBSET Addr, Pay(S) PROVE BooksRight'
  <2>1. paid' \in [Addr -> Nat] /\ UNCHANGED <<credited, doubt, held>>
    BY <1>4 DEF Pay
  <2>2. due' \in [Addr -> Int]
    BY <1>4, <2>1 DEF Pay
  <2>3. ASSUME NEW a \in Addr
        PROVE  /\ due'[a] = due[a] - (paid'[a] - paid[a])
               /\ a \in S => a \notin held /\ paid'[a] <= paid[a] + due[a]
               /\ a \notin S => paid'[a] = paid[a]
    BY <1>4 DEF Pay
  <2> QED
    BY <2>1, <2>2, <2>3
<1>5. ASSUME NEW S \in SUBSET Addr, LoseTouch(S) PROVE BooksRight'
  <2>1. ASSUME NEW a \in Addr
        PROVE  /\ a \in S => a \notin held /\ doubt'[a] <= due[a]
               /\ a \notin S => doubt'[a] = doubt[a]
    BY <1>5 DEF LoseTouch
  <2> QED
    BY <1>5, <2>1 DEF LoseTouch
<1>6. CASE UNCHANGED vars
  BY <1>6 DEF vars
<1> QED
  BY <1>1, <1>2, <1>3, <1>4, <1>5, <1>6 DEF Next

(* The promise is enough for what an owner cares about: books that are     *)
(* right whenever he is not on hold, and never more sent, nor in doubt,    *)
(* than the pool credited him.                                             *)
THEOREM BooksStayRight == Spec => []BooksRight
BY BooksInit, BooksStep, PTL DEF Spec
=============================================================================
