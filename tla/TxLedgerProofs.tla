--------------------------- MODULE TxLedgerProofs ---------------------------
(***************************************************************************)
(* The safety of the ledger, for any addresses, ids and amounts.           *)
(*                                                                         *)
(* The sums of NoWindfall are folds over finite sets.  What is shown of    *)
(* them first, by induction, uses that inclusion is well-founded on the    *)
(* subsets of a finite set: a counterexample would have a smallest one.    *)
(***************************************************************************)
EXTENDS TxLedger, SumTheorems, TLAPS

Sums(f, S) == f = [s \in SUBSET S |-> IF s = {} THEN 0 ELSE Pick(s).amount + f[s \ {Pick(s)}]]

LEMMA AmountIsChosen == \A S : AmountOf(S) = (CHOOSE f : Sums(f, S))[S]
BY DEF AmountOf, MapThenSumSet, MapThenFoldSet, Sums, Pick

LEMMA SumsEquation ==
    ASSUME NEW S, NEW f
    PROVE  Sums(f, S) <=> /\ f = [s \in SUBSET S |-> f[s]]
                          /\ \A s \in SUBSET S : f[s] = IF s = {} THEN 0 ELSE Pick(s).amount + f[Rest(s)]
BY DEF Sums, Rest

Adds(s) == AmountOf(s) = IF s = {} THEN 0 ELSE Pick(s).amount + AmountOf(Rest(s))

(* The recursion of the sum terminates.                                    *)
LEMMA AmountEquation ==
    ASSUME NEW S, IsFiniteSet(S)
    PROVE  Adds(S)
<1> DEFINE B == {s \in SUBSET S : ~Adds(s)}
<1> SUFFICES ASSUME B /= {} PROVE FALSE
  OBVIOUS
<1>1. PICK t \in B : \A u \in B : u \subseteq t => u = t
  <2>1. B \in SUBSET SUBSET S
    OBVIOUS
  <2> HIDE DEF B
  <2> QED
    BY <2>1, MinimalSubset
<1>2. \A u \in SUBSET t : u /= t => Adds(u)
  BY <1>1
<1> DEFINE G == [s \in SUBSET t |-> IF s = t THEN IF t = {} THEN 0 ELSE Pick(t).amount + AmountOf(Rest(t))
                                             ELSE AmountOf(s)]
           f == CHOOSE h : Sums(h, t)
<1>3. ASSUME NEW s \in SUBSET t
      PROVE  G[s] = IF s = {} THEN 0 ELSE Pick(s).amount + G[Rest(s)]
  <2>1. s /= {} => Rest(s) \in SUBSET t /\ Rest(s) /= t
    BY PickIn
  <2>2. CASE s = t
    BY <2>1, <2>2
  <2>3. CASE s /= t
    BY <1>2, <2>1, <2>3 DEF Adds
  <2> QED
    BY <2>2, <2>3
<1>4. Sums(G, t)
  <2>1. G = [s \in SUBSET t |-> G[s]]
    OBVIOUS
  <2> HIDE DEF G
  <2> QED
    BY <1>3, <2>1, SumsEquation
<1>5. Sums(f, t)
  <2> HIDE DEF G
  <2> QED
    BY <1>4
<1>6. \A s \in SUBSET t : f[s] = IF s = {} THEN 0 ELSE Pick(s).amount + f[Rest(s)]
  <2> HIDE DEF f
  <2> QED
    BY <1>5, SumsEquation
<1>7. AmountOf(t) = f[t]
  BY AmountIsChosen
<1> HIDE DEF f, G
<1>8. \A s \in SUBSET t : s /= t => f[s] = AmountOf(s)
  <2> DEFINE C == {s \in SUBSET t : s /= t /\ f[s] /= AmountOf(s)}
  <2> SUFFICES ASSUME C /= {} PROVE FALSE
    OBVIOUS
  <2>1. C \in SUBSET SUBSET S
    BY <1>1
  <2>2. PICK m \in C : \A u \in C : u \subseteq m => u = m
    <3> HIDE DEF C
    <3> QED
      BY <2>1, MinimalSubset
  <2>3. m /= {} => f[Rest(m)] = AmountOf(Rest(m))
    BY <2>2, PickIn
  <2> QED
    BY <1>2, <1>6, <2>2, <2>3 DEF Adds
<1>9. t /= {} => f[Rest(t)] = AmountOf(Rest(t))
  BY <1>8, PickIn
<1> QED
  BY <1>1, <1>6, <1>7, <1>9 DEF Adds

HasAmounts(S) == IsFiniteSet(S) /\ \A x \in S : x.amount \in Nat

LEMMA AmountNat ==
    ASSUME NEW S, HasAmounts(S)
    PROVE  AmountOf(S) \in Nat
<1> DEFINE B == {s \in SUBSET S : AmountOf(s) \notin Nat}
<1> SUFFICES ASSUME B /= {} PROVE FALSE
  OBVIOUS
<1>1. PICK t \in B : \A u \in B : u \subseteq t => u = t
  <2>1. B \in SUBSET SUBSET S
    OBVIOUS
  <2> HIDE DEF B
  <2> QED
    BY <2>1, MinimalSubset DEF HasAmounts
<1>2. Adds(t)
  BY <1>1, AmountEquation, FS_Subset DEF HasAmounts
<1>3. t /= {} => Pick(t).amount \in Nat /\ AmountOf(Rest(t)) \in Nat
  BY <1>1, PickIn DEF HasAmounts
<1> QED
  BY <1>1, <1>2, <1>3 DEF Adds

(* Any element may be taken out of a sum first.                            *)
LEMMA AmountRemove ==
    ASSUME NEW S, HasAmounts(S), NEW x \in S
    PROVE  AmountOf(S) = x.amount + AmountOf(S \ {x})
<1> DEFINE Good(s) == \A y \in s : AmountOf(s) = y.amount + AmountOf(s \ {y})
           B == {s \in SUBSET S : ~Good(s)}
<1> SUFFICES ASSUME B /= {} PROVE FALSE
  OBVIOUS
<1>1. PICK t \in B : \A u \in B : u \subseteq t => u = t
  <2>1. B \in SUBSET SUBSET S
    OBVIOUS
  <2> HIDE DEF B
  <2> QED
    BY <2>1, MinimalSubset DEF HasAmounts
<1>2. PICK y \in t : AmountOf(t) /= y.amount + AmountOf(t \ {y})
  BY <1>1
<1> DEFINE z == Pick(t)
<1>3. \A s \in SUBSET S : HasAmounts(s) /\ AmountOf(s) \in Nat
  BY AmountNat, FS_Subset DEF HasAmounts
<1>4. z \in t /\ AmountOf(t) = z.amount + AmountOf(t \ {z})
  BY <1>1, <1>2, <1>3, AmountEquation, PickIn DEF Adds, HasAmounts, Rest
<1> HIDE DEF z
<1>5. z /= y
  BY <1>2, <1>4
<1>6. AmountOf(t \ {z}) = y.amount + AmountOf(t \ {z, y})
  <2>1. Good(t \ {z})
    BY <1>1, <1>4
  <2>2. (t \ {z}) \ {y} = t \ {z, y}
    OBVIOUS
  <2> QED
    BY <1>2, <1>5, <2>1, <2>2
<1>7. AmountOf(t \ {y}) = z.amount + AmountOf(t \ {z, y})
  <2>1. Good(t \ {y})
    BY <1>1, <1>2
  <2>2. (t \ {y}) \ {z} = t \ {z, y}
    OBVIOUS
  <2> QED
    BY <1>4, <1>5, <2>1, <2>2
<1>8. z.amount \in Nat /\ y.amount \in Nat /\ AmountOf(t \ {z, y}) \in Nat
  BY <1>1, <1>2, <1>3, <1>4 DEF HasAmounts
<1> QED
  BY <1>2, <1>4, <1>6, <1>7, <1>8

LEMMA AmountEmpty == AmountOf({}) = 0
BY AmountEquation, FS_EmptySet DEF Adds

LEMMA AmountAdd ==
    ASSUME NEW S, HasAmounts(S), NEW x, x \notin S, x.amount \in Nat
    PROVE  AmountOf(S \cup {x}) = AmountOf(S) + x.amount
<1>1. HasAmounts(S \cup {x}) /\ (S \cup {x}) \ {x} = S
  BY FS_AddElement DEF HasAmounts
<1>2. AmountOf(S \cup {x}) = x.amount + AmountOf(S)
  BY <1>1, AmountRemove
<1> QED
  BY <1>2, AmountNat

LEMMA AmountMonotone ==
    ASSUME NEW S, HasAmounts(S), NEW T \in SUBSET S
    PROVE  AmountOf(T) <= AmountOf(S)
<1> DEFINE B == {s \in SUBSET S : T \subseteq s /\ AmountOf(T) > AmountOf(s)}
<1>1. \A s \in SUBSET S : HasAmounts(s) /\ AmountOf(s) \in Nat
  BY AmountNat, FS_Subset DEF HasAmounts
<1> SUFFICES ASSUME B /= {} PROVE FALSE
  BY <1>1
<1>2. PICK t \in B : \A u \in B : u \subseteq t => u = t
  <2>1. B \in SUBSET SUBSET S
    OBVIOUS
  <2> HIDE DEF B
  <2> QED
    BY <2>1, MinimalSubset DEF HasAmounts
<1>3. PICK x \in t : x \notin T
  <2>1. t /= T
    BY <1>1, <1>2
  <2> QED
    BY <1>2, <2>1
<1>4. AmountOf(t) = x.amount + AmountOf(t \ {x})
  BY <1>1, <1>2, AmountRemove
<1>5. AmountOf(t \ {x}) >= AmountOf(T)
  BY <1>1, <1>2, <1>3
<1> QED
  BY <1>1, <1>2, <1>3, <1>4, <1>5 DEF HasAmounts
-----------------------------------------------------------------------------
Positive == Nat \ {0}
AnyRow == [owner : Addr, amount : Positive, success : BOOLEAN]
PaymentOf(n, r) == [id |-> n, owner |-> r.owner, amount |-> r.amount]

(* The wallet: it has an answer for every payment it took on.              *)
WalletInv ==
    /\ wallet \in [Ids -> {"unused", "pending", "mined", "rejected"}]
    /\ credited \in [Addr -> 0..MaxCredit]
    /\ balance \in [Addr -> Int]
    /\ IsFiniteSet(sent)
    /\ sent \subseteq [id : Ids, owner : Addr, amount : Positive]
    /\ \A s \in sent : wallet[s.id] /= "unused"

(* The results in hand: of different addresses, each success of a payment  *)
(* the wallet took on.                                                     *)
Unnumbered == {j \in k..Len(results) : results[j].id = Unset}
ResultsInv ==
    /\ phase \in {"idle", "book", "scan"} /\ asked \subseteq {0, 1}
    /\ asked /= {} => phase = "scan" /\ results[k].success
    /\ results \in Seq([id : Ids \cup {Unset}, owner : Addr, amount : Positive, success : BOOLEAN])
    /\ k \in Nat
    /\ phase = "idle" => results = <<>> /\ k = 1
    /\ phase /= "idle" => k \in DOMAIN results
    /\ \A j, m \in DOMAIN results : results[j].owner = results[m].owner => j = m
    /\ \A j \in DOMAIN results :
          /\ results[j].success <=> results[j].id /= Unset
          /\ results[j].success => PaymentOf(results[j].id, results[j]) \in sent
    /\ phase = "book" => Cardinality(Unnumbered) <= Cardinality(Fresh)

RowsInv ==
    /\ DOMAIN transactions \subseteq Ids
    /\ transactions = [n \in DOMAIN transactions |-> transactions[n]]
    /\ \A n \in DOMAIN transactions : transactions[n] \in AnyRow
    /\ RowsOfPayments

(* What a reset pass still owes of its due: the ids it has yet to look at, *)
(* the one it has in hand, and those it lost.  The one in hand is of a     *)
(* rejected payment.                                                       *)
Pass == [pc : {"off", "next", "found"}, todo : SUBSET Ids, id : Ids \cup {Unset},
         seen : SUBSET AnyRow, due : SUBSET Ids, dropped : SUBSET Ids]
At(p) == IF reset[p].pc = "found" THEN {reset[p].id} ELSE {}
PassInv(p) ==
    /\ reset[p].due \cap Successful \subseteq reset[p].todo \cup At(p) \cup reset[p].dropped
    /\ \A n \in reset[p].todo \cup At(p) : n \in Ids /\ wallet[n] = "rejected"
    /\ At(p) \subseteq DOMAIN transactions
    /\ \A row \in reset[p].seen : PaymentOf(reset[p].id, row) \in sent
    /\ reset[p].pc = "found" => \E row \in reset[p].seen : reset[p].seen = {row}
    /\ reset[p].pc /= "found" => reset[p].seen = {}
ResetInv == reset \in [Passes -> Pass] /\ \A p \in Passes : PassInv(p)

(* What a backfill still owes of its due is among what it has to do.       *)
Known == UNION {[D -> {0, 1}] : D \in SUBSET Ids}
Filler == [pc : {"off", "fetched", "listed"}, known : Known, todo : SUBSET Ids, due : SUBSET Ids]
FillInv ==
    /\ details \in Known
    /\ fill \in [Fillers -> Filler]
    /\ \A t \in Fillers :
          /\ fill[t].due \subseteq DOMAIN fill[t].known
          /\ fill[t].pc /= "listed" => fill[t].todo = {}
    /\ fill["details"].due \subseteq DOMAIN details \cup fill["details"].todo
    /\ \A n \in fill["heights"].todo : n \in DOMAIN details /\ details[n] = 0
    /\ \A n \in fill["heights"].due :
          /\ n \in DOMAIN details
          /\ n \in fill["heights"].todo \/ details[n] >= fill["heights"].known[n]

LedgerInv == WalletInv /\ ResultsInv /\ RowsInv /\ ResetInv /\ FillInv

(* A payment is still owed to the pool, or may yet be credited back, as    *)
(* long as the wallet has not rejected it, the daemon has it to book, a    *)
(* row has it as a success, or a reset pass has it in hand.                *)
InHand(s) ==
    /\ phase = "book"
    /\ \E j \in k..Len(results) : results[j].success /\ PaymentOf(results[j].id, results[j]) = s
Booked(s) == s.id \in Successful /\ PaymentOf(s.id, transactions[s.id]) = s
Seen(s) == \E p \in Passes : \E row \in reset[p].seen : PaymentOf(reset[p].id, row) = s
Held(s) == wallet[s.id] /= "rejected" \/ InHand(s) \/ Booked(s) \/ Seen(s)
Open(a) == {s \in sent : s.owner = a /\ Held(s)}

(* A success to be booked can be debited, and neither a row nor a reset    *)
(* pass has it yet: a payment is in one of the three places.               *)
Pending(j) == phase = "book" /\ j \in k..Len(results) /\ results[j].success
Covered ==
    \A j \in DOMAIN results : Pending(j) =>
        /\ results[j].amount <= balance[results[j].owner]
        /\ results[j].id \in DOMAIN transactions =>
              transactions[results[j].id].owner /= results[j].owner
        /\ \A p \in Passes : \A row \in reset[p].seen :
              reset[p].id = results[j].id => row.owner /= results[j].owner

(* No balance is overdrawn, and no amount is more than may be credited.    *)
Bounded ==
    /\ \A a \in Addr : balance[a] >= 0
    /\ \A s \in sent : s.amount <= MaxCredit
    /\ \A j \in DOMAIN results : results[j].amount <= MaxCredit
    /\ \A n \in DOMAIN transactions : transactions[n].amount <= MaxCredit

(* NoWindfall, with all payments that are still open in the place of those *)
(* the wallet has not rejected.                                            *)
OnceOnly == \A a \in Addr : AmountOf(Open(a)) + balance[a] - ToBook(a) <= credited[a]

MoneyInv == LedgerInv /\ Covered /\ Bounded /\ OnceOnly
-----------------------------------------------------------------------------
LEMMA IdsFacts == Ids \subseteq Nat \ {0} /\ Unset \notin Ids /\ IsFiniteSet(Ids)
BY LedgerAssumption, FS_Interval DEF Ids, Unset

LEMMA KnownFacts ==
    \A f : f \in Known <=> /\ DOMAIN f \subseteq Ids /\ f = [n \in DOMAIN f |-> f[n]]
                           /\ \A n \in DOMAIN f : f[n] \in {0, 1}
<1>1. ASSUME NEW f, DOMAIN f \subseteq Ids, f = [n \in DOMAIN f |-> f[n]], \A n \in DOMAIN f : f[n] \in {0, 1}
      PROVE  f \in Known
  <2>1. f \in [DOMAIN f -> {0, 1}] /\ DOMAIN f \in SUBSET Ids
    BY <1>1
  <2> QED
    BY <2>1 DEF Known
<1>2. ASSUME NEW f, f \in Known
      PROVE  /\ DOMAIN f \subseteq Ids /\ f = [n \in DOMAIN f |-> f[n]]
             /\ \A n \in DOMAIN f : f[n] \in {0, 1}
  <2>1. PICK D \in SUBSET Ids : f \in [D -> {0, 1}]
    BY <1>2 DEF Known
  <2> QED
    BY <2>1
<1> QED
  BY <1>1, <1>2

LEMMA LedgerInit == Init => LedgerInv
<1> SUFFICES ASSUME Init PROVE LedgerInv
  OBVIOUS
<1> USE LedgerAssumption DEF Init
<1>1. WalletInv
  BY FS_EmptySet DEF WalletInv
<1>2. ResultsInv
  <2>1. Len(<<>>) = 0 /\ DOMAIN <<>> = {}
    OBVIOUS
  <2> QED
    BY <2>1 DEF ResultsInv
<1>3. RowsInv
  BY DEF RowsInv, RowsOfPayments
<1>4. ResetInv
  BY DEF ResetInv, Pass, PassInv, At, NoPass, Successful, Unset
<1>5. FillInv
  <2>1. <<>> \in Known
    <3>1. <<>> \in [{} -> {0, 1}]
      OBVIOUS
    <3> QED
      BY <3>1 DEF Known
  <2> QED
    BY <2>1 DEF FillInv, Filler, NoFill, Fillers
<1> QED
  BY <1>1, <1>2, <1>3, <1>4, <1>5 DEF LedgerInv

(* What one Send does, with the witnesses of its choices.                  *)
Sends(S, accepted, order, id) ==
    /\ S \in SUBSET Addr /\ S /= {} /\ \A a \in S : balance[a] \in Positive
    /\ accepted \in SUBSET S
    /\ order \in Bijection(1..Cardinality(S), S)
    /\ id \in [accepted -> Fresh]
    /\ Cardinality(S \ accepted) <= Cardinality(Fresh \ Range(id))
    /\ results' = Answered(order, accepted, id)
    /\ sent' = sent \cup {[id |-> id[a], owner |-> a, amount |-> balance[a]] : a \in accepted}
    /\ wallet' = [n \in Ids |-> IF n \in Range(id) THEN "pending" ELSE wallet[n]]
    /\ k' = 1 /\ phase' = "book" /\ phase = "idle"
    /\ UNCHANGED <<credited, balance, asked, transactions, details, reset, fill>>

LEMMA SendSends ==
    ASSUME LedgerInv, Send
    PROVE  \E S, accepted, order, id : Sends(S, accepted, order, id)
<1>1. PICK S \in (SUBSET {a \in Addr : balance[a] > 0}) \ {{}} :
        \E accepted \in SUBSET S :
        \E order \in Bijection(1..Cardinality(S), S), id \in [accepted -> Fresh] :
          /\ Cardinality(S \ accepted) <= Cardinality(Fresh \ Range(id))
          /\ results' = Answered(order, accepted, id)
          /\ sent' = sent \cup {[id |-> id[a], owner |-> a, amount |-> balance[a]] : a \in accepted}
          /\ wallet' = [n \in Ids |-> IF n \in Range(id) THEN "pending" ELSE wallet[n]]
  BY DEF Send
<1>2. PICK accepted \in SUBSET S :
        \E order \in Bijection(1..Cardinality(S), S), id \in [accepted -> Fresh] :
          /\ Cardinality(S \ accepted) <= Cardinality(Fresh \ Range(id))
          /\ results' = Answered(order, accepted, id)
          /\ sent' = sent \cup {[id |-> id[a], owner |-> a, amount |-> balance[a]] : a \in accepted}
          /\ wallet' = [n \in Ids |-> IF n \in Range(id) THEN "pending" ELSE wallet[n]]
  BY <1>1
<1>3. PICK order \in Bijection(1..Cardinality(S), S), id \in [accepted -> Fresh] :
          /\ Cardinality(S \ accepted) <= Cardinality(Fresh \ Range(id))
          /\ results' = Answered(order, accepted, id)
          /\ sent' = sent \cup {[id |-> id[a], owner |-> a, amount |-> balance[a]] : a \in accepted}
          /\ wallet' = [n \in Ids |-> IF n \in Range(id) THEN "pending" ELSE wallet[n]]
  BY <1>2
<1>4. \A a \in S : a \in Addr /\ balance[a] \in Positive
  <2>1. \A a \in S : a \in Addr /\ balance[a] \in Int /\ balance[a] > 0
    BY DEF LedgerInv, WalletInv
  <2> QED
    BY <2>1 DEF Positive
<1>5. /\ k' = 1 /\ phase' = "book" /\ phase = "idle"
      /\ UNCHANGED <<credited, balance, asked, transactions, details, reset, fill>>
  BY DEF Send
<1>6. Sends(S, accepted, order, id)
  BY <1>3, <1>4, <1>5 DEF Sends
<1> QED
  BY <1>6

LEMMA IsSequence ==
    ASSUME NEW T, NEW n \in Nat, NEW s \in [1..n -> T]
    PROVE  s \in Seq(T) /\ Len(s) = n
OBVIOUS

(* A balance that is moved stays an integer, and the others stay.          *)
LEMMA Shifted ==
    ASSUME NEW b \in [Addr -> Int], NEW a, NEW d \in Int
    PROVE  /\ [b EXCEPT ![a] = @ + d] \in [Addr -> Int] /\ [b EXCEPT ![a] = @ - d] \in [Addr -> Int]
           /\ \A x \in Addr : /\ [b EXCEPT ![a] = @ + d][x] = (IF x = a THEN b[x] + d ELSE b[x])
                               /\ [b EXCEPT ![a] = @ - d][x] = (IF x = a THEN b[x] - d ELSE b[x])
<1>1. /\ [b EXCEPT ![a] = @ + d] = [x \in Addr |-> IF x = a THEN b[x] + d ELSE b[x]]
      /\ [b EXCEPT ![a] = @ - d] = [x \in Addr |-> IF x = a THEN b[x] - d ELSE b[x]]
  OBVIOUS
<1>2. \A x \in Addr : b[x] \in Int /\ b[x] + d \in Int /\ b[x] - d \in Int
  OBVIOUS
<1> QED
  BY <1>1, <1>2

(* The results of a Send, index by index.                                  *)
LEMMA SendFacts ==
    ASSUME LedgerInv, NEW S, NEW accepted, NEW order, NEW id, Sends(S, accepted, order, id)
    PROVE  /\ Cardinality(S) \in Nat \ {0} /\ IsFiniteSet(S) /\ IsFiniteSet(accepted)
           /\ DOMAIN results' = 1..Cardinality(S) /\ Len(results') = Cardinality(S)
           /\ results' \in Seq([id : Ids \cup {Unset}, owner : Addr, amount : Positive, success : BOOLEAN])
           /\ \A j \in 1..Cardinality(S) :
                /\ results'[j].owner = order[j] /\ order[j] \in S
                /\ results'[j].amount = balance[order[j]]
                /\ results'[j].success <=> order[j] \in accepted
                /\ results'[j].id = IF order[j] \in accepted THEN id[order[j]] ELSE Unset
           /\ \A j, m \in 1..Cardinality(S) : order[j] = order[m] => j = m
           /\ \A a \in accepted : id[a] \in Fresh /\ id[a] \in Range(id) /\ a \in Addr
           /\ Range(id) \subseteq Fresh /\ Fresh \subseteq Ids
           /\ \A a \in S : \E j \in 1..Cardinality(S) : order[j] = a
<1> USE DEF Sends
<1>1. IsFiniteSet(S) /\ IsFiniteSet(accepted)
  BY LedgerAssumption, FS_Subset
<1>2. Cardinality(S) \in Nat \ {0}
  BY <1>1, FS_CardinalityType, FS_EmptySet
<1>3. /\ order \in [1..Cardinality(S) -> S] /\ DOMAIN order = 1..Cardinality(S)
      /\ \A j, m \in 1..Cardinality(S) : order[j] = order[m] => j = m
      /\ \A a \in S : \E j \in 1..Cardinality(S) : order[j] = a
  BY DEF Bijection, Injection, Surjection, IsInjective
<1>4. /\ \A a \in accepted : id[a] \in Fresh /\ id[a] \in Range(id) /\ a \in Addr
      /\ Range(id) \subseteq Fresh /\ Fresh \subseteq Ids
  BY DEF Range, Fresh
<1>5. results' = [j \in 1..Cardinality(S) |->
        [id |-> IF order[j] \in accepted THEN id[order[j]] ELSE Unset,
         owner |-> order[j], amount |-> balance[order[j]], success |-> order[j] \in accepted]]
  BY <1>3 DEF Answered
<1>6. ASSUME NEW j \in 1..Cardinality(S)
      PROVE  /\ results'[j].owner = order[j] /\ order[j] \in S
             /\ results'[j].amount = balance[order[j]]
             /\ results'[j].success <=> order[j] \in accepted
             /\ results'[j].id = IF order[j] \in accepted THEN id[order[j]] ELSE Unset
             /\ results'[j] \in [id : Ids \cup {Unset}, owner : Addr, amount : Positive, success : BOOLEAN]
  <2>1. results'[j] = [id |-> IF order[j] \in accepted THEN id[order[j]] ELSE Unset,
                       owner |-> order[j], amount |-> balance[order[j]],
                       success |-> order[j] \in accepted]
    BY <1>5
  <2>2. order[j] \in S /\ order[j] \in Addr /\ balance[order[j]] \in Positive
    BY <1>3
  <2>3. (IF order[j] \in accepted THEN id[order[j]] ELSE Unset) \in Ids \cup {Unset}
    BY <1>4
  <2>4. (order[j] \in accepted) \in BOOLEAN
    OBVIOUS
  <2> HIDE DEF Sends
  <2> DEFINE yes == order[j] \in accepted
             n == IF order[j] \in accepted THEN id[order[j]] ELSE Unset
  <2>5. /\ results'[j] = [id |-> n, owner |-> order[j], amount |-> balance[order[j]], success |-> yes]
        /\ yes \in BOOLEAN /\ n \in Ids \cup {Unset}
    BY <2>1, <2>3, <2>4
  <2>6. yes <=> order[j] \in accepted
    OBVIOUS
  <2>7. n = IF order[j] \in accepted THEN id[order[j]] ELSE Unset
    OBVIOUS
  <2> HIDE DEF yes, n
  <2> QED
    BY <2>2, <2>5, <2>6, <2>7
<1>7. DOMAIN results' = 1..Cardinality(S)
  BY <1>5
<1>8. results' \in Seq([id : Ids \cup {Unset}, owner : Addr, amount : Positive, success : BOOLEAN])
      /\ Len(results') = Cardinality(S)
  <2>1. results' \in [1..Cardinality(S) -> [id : Ids \cup {Unset}, owner : Addr, amount : Positive, success : BOOLEAN]]
    BY <1>5, <1>6
  <2>2. Cardinality(S) \in Nat
    BY <1>2
  <2> HIDE DEF Sends
  <2> QED
    BY <2>1, <2>2, IsSequence
<1> HIDE DEF Sends
<1> QED
  BY <1>1, <1>2, <1>3, <1>4, <1>6, <1>7, <1>8

(* The result at hand.                                                     *)
LEMMA AtHand ==
    ASSUME ResultsInv, phase /= "idle"
    PROVE  /\ k \in DOMAIN results /\ DOMAIN results = 1..Len(results) /\ Len(results) \in Nat
           /\ \A j \in DOMAIN results :
                results[j] \in [id : Ids \cup {Unset}, owner : Addr, amount : Positive, success : BOOLEAN]
<1> DEFINE R == [id : Ids \cup {Unset}, owner : Addr, amount : Positive, success : BOOLEAN]
<1>1. results \in Seq(R) /\ k \in DOMAIN results
  BY DEF ResultsInv
<1> HIDE DEF R
<1>2. DOMAIN results = 1..Len(results) /\ Len(results) \in Nat /\ \A j \in DOMAIN results : results[j] \in R
  BY <1>1
<1> QED
  BY <1>1, <1>2 DEF R

(* An id the wallet has given out stays given out, a rejection is final,   *)
(* and no payment is forgotten.                                            *)
Onward ==
    /\ \A n \in Ids : wallet[n] /= "unused" => wallet'[n] /= "unused"
    /\ \A n \in Ids : wallet[n] = "rejected" => wallet'[n] = "rejected"
    /\ sent \subseteq sent'
LEMMA WalletStep ==
    ASSUME LedgerInv, [Next]_vars
    PROVE  WalletInv' /\ Onward
<1> USE DEF WalletInv, LedgerInv, Onward
<1>1. ASSUME NEW a \in Addr, Credit(a) PROVE WalletInv' /\ Onward
  BY <1>1, LedgerAssumption DEF Credit
<1>2. ASSUME NEW n \in Ids, Outcome(n) PROVE WalletInv' /\ Onward
  BY <1>2 DEF Outcome
<1>3. CASE Send
  <2>1. PICK S, accepted, order, id : Sends(S, accepted, order, id)
    BY <1>3, SendSends
  <2> DEFINE new == {[id |-> id[a], owner |-> a, amount |-> balance[a]] : a \in accepted}
             f == [a \in accepted |-> [id |-> id[a], owner |-> a, amount |-> balance[a]]]
  <2>2. sent' = sent \cup new
        /\ wallet' = [n \in Ids |-> IF n \in Range(id) THEN "pending" ELSE wallet[n]]
        /\ UNCHANGED <<credited, balance>>
    BY <2>1 DEF Sends
  <2>3. /\ IsFiniteSet(accepted) /\ \A a \in accepted : id[a] \in Fresh /\ a \in Addr /\ id[a] \in Range(id)
        /\ Range(id) \subseteq Fresh /\ Fresh \subseteq Ids /\ \A a \in accepted : balance[a] \in Positive
    <3>1. accepted \in SUBSET S /\ \A a \in S : balance[a] \in Positive
      BY <2>1 DEF Sends
    <3> HIDE DEF LedgerInv, WalletInv
    <3>2. /\ IsFiniteSet(accepted) /\ \A a \in accepted : id[a] \in Fresh /\ a \in Addr /\ id[a] \in Range(id)
          /\ Range(id) \subseteq Fresh /\ Fresh \subseteq Ids
      BY <2>1, SendFacts
    <3> QED
      BY <3>1, <3>2
  <2>4. f \in Surjection(accepted, new)
    BY DEF Surjection
  <2>5. IsFiniteSet(new)
    BY <2>3, <2>4, FS_Surjection
  <2>6. IsFiniteSet(sent')
    BY <2>2, <2>5, FS_Union
  <2>7. new \subseteq [id : Ids, owner : Addr, amount : Positive] /\ \A s \in new : s.id \in Range(id)
    BY <2>3
  <2> HIDE DEF new
  <2>8. Range(id) \subseteq {n \in Ids : wallet[n] = "unused"}
    BY <2>3 DEF Fresh
  <2> QED
    BY <2>2, <2>6, <2>7, <2>8
<1>4. CASE Book
  <2>1. UNCHANGED <<credited, wallet, sent>>
    BY <1>4 DEF Book
  <2>2. balance' = balance \/ balance' = [balance EXCEPT ![results[k].owner] = @ - results[k].amount]
    BY <1>4 DEF Book
  <2>3. results[k].amount \in Int
    BY <1>4, AtHand DEF Book, Positive
  <2> QED
    BY <2>1, <2>2, <2>3, Shifted
<1>5. ASSUME NEW p \in Passes, CreditBack(p) PROVE WalletInv' /\ Onward
  <2>1. UNCHANGED <<credited, wallet, sent>>
    BY <1>5 DEF CreditBack
  <2>2. PICK row \in reset[p].seen : balance' = [balance EXCEPT ![row.owner] = @ + row.amount]
    BY <1>5 DEF CreditBack
  <2>3. row.amount \in Int
    BY <2>2 DEF ResetInv, Pass, AnyRow, Positive
  <2>4. balance' \in [Addr -> Int]
    BY <2>2, <2>3, Shifted
  <2> QED
    BY <2>1, <2>4
<1>6. ASSUME UNCHANGED money PROVE WalletInv' /\ Onward
  BY <1>6 DEF money
<1>7. CASE Ask \/ Skip \/ Store \/ \E t \in Fillers : Fill(t)
  BY <1>6, <1>7 DEF Ask, Skip, Store, Fill, Fetch, List, EndFill, FillDies, Put, PutFails
<1>8. ASSUME NEW p \in Passes, Reset(p), ~CreditBack(p) PROVE UNCHANGED money
  BY <1>8 DEF Reset, StartReset, Look, LookFails, CreditFails, CreditLost, EndReset, ResetDies
<1> QED
  BY <1>1, <1>2, <1>3, <1>4, <1>5, <1>6, <1>7, <1>8 DEF Next, vars
-----------------------------------------------------------------------------
LEMMA MinIn ==
    ASSUME NEW S \in SUBSET Nat, S /= {}
    PROVE  Min(S) \in S
BY LeastNumber DEF Min

(* The book's turn: a success has its own id, anything else a fresh one,   *)
(* of which there are enough.                                              *)
LEMMA BookFacts ==
    ASSUME LedgerInv, Book, NEW r, r = results[k], NEW n, n = RowId(r.id)
    PROVE  /\ r \in [id : Ids \cup {Unset}, owner : Addr, amount : Positive, success : BOOLEAN]
           /\ k \in DOMAIN results /\ DOMAIN results = 1..Len(results) /\ Len(results) \in Nat
           /\ n \in Ids
           /\ r.success => n = r.id /\ PaymentOf(n, r) \in sent
           /\ ~r.success => r.id = Unset /\ n \in Fresh
           /\ transactions' = [m \in DOMAIN transactions \cup {n} |->
                  IF m = n THEN [owner |-> r.owner, amount |-> r.amount, success |-> r.success]
                  ELSE transactions[m]]
           /\ results' = results
           /\ IF k < Len(results) THEN k' = k + 1 /\ phase' = "book" ELSE k' = 1 /\ phase' = "scan"
<1>1. phase = "book"
  BY DEF Book
<1>2. /\ r \in [id : Ids \cup {Unset}, owner : Addr, amount : Positive, success : BOOLEAN]
      /\ k \in DOMAIN results /\ DOMAIN results = 1..Len(results) /\ Len(results) \in Nat
  BY <1>1, AtHand DEF LedgerInv
<1>3. r.success <=> r.id /= Unset
  BY <1>2 DEF LedgerInv, ResultsInv
<1>4. ASSUME r.success
      PROVE  n = r.id /\ n \in Ids /\ PaymentOf(n, r) \in sent
  <2>1. n = r.id
    BY <1>3, <1>4 DEF RowId
  <2>2. r.id \in Ids
    BY <1>2, <1>3, <1>4
  <2>3. PaymentOf(r.id, r) \in sent
    BY <1>2, <1>4 DEF LedgerInv, ResultsInv
  <2> QED
    BY <2>1, <2>2, <2>3
<1>5. ASSUME ~r.success
      PROVE  r.id = Unset /\ n \in Fresh
  <2>1. r.id = Unset /\ n = Min(Fresh)
    BY <1>3, <1>5 DEF RowId
  <2>2. IsFiniteSet(Fresh) /\ Fresh \in SUBSET Nat
    BY IdsFacts, FS_Subset DEF Fresh
  <2>3. IsFiniteSet(Unnumbered) /\ k \in Unnumbered
    <3>1. Unnumbered \in SUBSET (k..Len(results)) /\ IsFiniteSet(k..Len(results))
      BY <1>2, FS_Interval DEF Unnumbered
    <3> QED
      BY <1>2, <2>1, <3>1, FS_Subset DEF Unnumbered
  <2>4. Cardinality(Unnumbered) \in Nat /\ Cardinality(Unnumbered) /= 0
    BY <2>3, FS_EmptySet, FS_CardinalityType
  <2>5. Cardinality(Unnumbered) <= Cardinality(Fresh)
    BY <1>1 DEF LedgerInv, ResultsInv
  <2>6. Fresh /= {}
    BY <2>4, <2>5, FS_EmptySet
  <2> QED
    BY <2>1, <2>2, <2>6, MinIn
<1>6. /\ transactions' = [m \in DOMAIN transactions \cup {n} |->
             IF m = n THEN [owner |-> r.owner, amount |-> r.amount, success |-> r.success]
             ELSE transactions[m]]
      /\ NextResult("scan")
  BY DEF Book, Upsert
<1>7. /\ results' = results
      /\ IF k < Len(results) THEN k' = k + 1 /\ phase' = "book" ELSE k' = 1 /\ phase' = "scan"
  BY <1>1, <1>6 DEF NextResult
<1>8. n \in Ids
  BY <1>4, <1>5 DEF Fresh
<1> QED
  BY <1>2, <1>4, <1>5, <1>6, <1>7, <1>8

(* What the wallet and the books call by a name has a name for good.       *)
LEMMA FreshAfter ==
    ASSUME LedgerInv, [Next]_vars, ~Send, ~Book
    PROVE  Fresh' = Fresh
<1> USE DEF Fresh
<1>1. ASSUME NEW n \in Ids, Outcome(n) PROVE Fresh' = Fresh
  BY <1>1 DEF Outcome, LedgerInv, WalletInv
<1>2. ASSUME NEW p \in Passes, CreditBack(p) PROVE Fresh' = Fresh
  <2>1. UNCHANGED wallet /\ DOMAIN transactions' = DOMAIN transactions
    BY <1>2 DEF CreditBack
  <2> QED
    BY <2>1
<1>3. ASSUME UNCHANGED <<wallet, transactions>> PROVE Fresh' = Fresh
  BY <1>3
<1>4. ASSUME NEW a \in Addr, Credit(a) PROVE UNCHANGED <<wallet, transactions>>
  BY <1>4 DEF Credit
<1>5. ASSUME NEW p \in Passes, Reset(p), ~CreditBack(p) PROVE UNCHANGED <<wallet, transactions>>
  BY <1>5 DEF Reset, StartReset, Look, LookFails, CreditFails, CreditLost, EndReset, ResetDies, money
<1>6. ASSUME NEW t \in Fillers, Fill(t) PROVE UNCHANGED <<wallet, transactions>>
  BY <1>6 DEF Fill, Fetch, List, EndFill, FillDies, Put, PutFails, money
<1>7. CASE Ask \/ Skip \/ Store \/ UNCHANGED vars
  BY <1>3, <1>7 DEF Ask, Skip, Store, money, vars
<1> QED
  BY <1>1, <1>2, <1>3, <1>4, <1>5, <1>6, <1>7 DEF Next

(* The daemon's results keep their places: nothing but a send changes them *)
(* before the scan has passed the last.                                    *)
LEMMA ResultsKept ==
    ASSUME LedgerInv, Onward, UNCHANGED results,
           k' \in Nat, phase' \in {"book", "scan"}, k' \in DOMAIN results, asked' \subseteq {0, 1},
           asked' /= {} => phase' = "scan" /\ results[k'].success,
           phase' = "book" => Cardinality(Unnumbered') <= Cardinality(Fresh')
    PROVE  ResultsInv'
BY DEF ResultsInv, LedgerInv, Onward, PaymentOf

LEMMA ResultsDone ==
    ASSUME results' = <<>>, k' = 1, phase' = "idle", asked' = {}
    PROVE  ResultsInv'
<1>1. Len(<<>>) = 0 /\ DOMAIN <<>> = {}
  OBVIOUS
<1> QED
  BY <1>1 DEF ResultsInv

LEMMA SendResults ==
    ASSUME LedgerInv, Send
    PROVE  ResultsInv'
<1>1. PICK S, accepted, order, id : Sends(S, accepted, order, id)
  BY SendSends
<1>2. /\ Cardinality(S) \in Nat \ {0} /\ IsFiniteSet(S)
      /\ DOMAIN results' = 1..Cardinality(S) /\ Len(results') = Cardinality(S)
      /\ \A j, m \in 1..Cardinality(S) : order[j] = order[m] => j = m
      /\ \A a \in accepted : id[a] \in Fresh /\ a \in Addr
      /\ Range(id) \subseteq Fresh /\ Fresh \subseteq Ids
  BY <1>1, SendFacts
<1>3. results' \in Seq([id : Ids \cup {Unset}, owner : Addr, amount : Positive, success : BOOLEAN])
  BY <1>1, SendFacts
<1>4. \A j \in 1..Cardinality(S) :
                      /\ results'[j].owner = order[j] /\ order[j] \in S
                      /\ results'[j].amount = balance[order[j]]
                      /\ results'[j].success <=> order[j] \in accepted
                      /\ results'[j].id = IF order[j] \in accepted THEN id[order[j]] ELSE Unset
  BY <1>1, SendFacts
<1>5. /\ phase' = "book" /\ k' = 1 /\ UNCHANGED <<asked, transactions>>
      /\ Cardinality(S \ accepted) <= Cardinality(Fresh \ Range(id))
      /\ sent' = sent \cup {[id |-> id[a], owner |-> a, amount |-> balance[a]] : a \in accepted}
      /\ wallet' = [n \in Ids |-> IF n \in Range(id) THEN "pending" ELSE wallet[n]]
  BY <1>1 DEF Sends
<1>6. ASSUME NEW j \in DOMAIN results'
      PROVE  /\ results'[j].success <=> results'[j].id /= Unset
             /\ results'[j].success => PaymentOf(results'[j].id, results'[j]) \in sent'
  <2>1. j \in 1..Cardinality(S)
    BY <1>2
  <2>2. CASE order[j] \in accepted
    <3>1. results'[j].id = id[order[j]] /\ results'[j].owner = order[j] /\ results'[j].amount = balance[order[j]]
      BY <1>4, <2>1, <2>2
    <3>2. results'[j].id /= Unset
      BY <1>2, <2>2, <3>1, IdsFacts
    <3>3. PaymentOf(results'[j].id, results'[j]) \in sent'
      BY <1>5, <2>2, <3>1 DEF PaymentOf
    <3> QED
      BY <1>4, <2>1, <2>2, <3>2, <3>3
  <2>3. CASE order[j] \notin accepted
    BY <1>4, <2>1, <2>3
  <2> QED
    BY <2>2, <2>3
<1>7. Cardinality(Unnumbered') <= Cardinality(Fresh')
  <2> DEFINE f == [j \in Unnumbered' |-> order[j]]
  <2>1. Unnumbered' \subseteq 1..Cardinality(S)
    BY <1>2, <1>5 DEF Unnumbered
  <2>2. \A j \in Unnumbered' : order[j] \in S \ accepted
    <3> SUFFICES ASSUME NEW j \in Unnumbered' PROVE order[j] \in S \ accepted
      OBVIOUS
    <3>1. results'[j].id = Unset /\ j \in 1..Cardinality(S)
      BY <2>1 DEF Unnumbered
    <3>2. order[j] \notin accepted
      BY <1>2, <1>4, <3>1, IdsFacts
    <3> QED
      BY <1>4, <3>1, <3>2
  <2>3. f \in Injection(Unnumbered', S \ accepted)
    BY <1>2, <2>1, <2>2 DEF Injection, IsInjective
  <2>4. IsFiniteSet(S \ accepted)
    BY <1>2, FS_Subset
  <2>5. Cardinality(Unnumbered') <= Cardinality(S \ accepted)
    <3> HIDE DEF f
    <3> QED
      BY <2>3, <2>4, FS_Injection
  <2>6. Fresh' = Fresh \ Range(id)
    BY <1>2, <1>5 DEF Fresh
  <2>7. /\ Cardinality(Unnumbered') \in Nat /\ Cardinality(S \ accepted) \in Nat
        /\ Cardinality(Fresh \ Range(id)) \in Nat
    <3>1. IsFiniteSet(1..Cardinality(S))
      BY <1>2, FS_Interval
    <3>2. IsFiniteSet(Fresh \ Range(id))
      BY <1>2, IdsFacts, FS_Subset
    <3>3. IsFiniteSet(Unnumbered')
      BY <2>1, <3>1, FS_Subset
    <3> QED
      BY <2>4, <3>2, <3>3, FS_CardinalityType
  <2> QED
    BY <1>5, <2>5, <2>6, <2>7
<1>8. \A j, m \in DOMAIN results' : results'[j].owner = results'[m].owner => j = m
  BY <1>2, <1>4
<1>9. asked' = {}
  BY <1>1 DEF Sends, LedgerInv, ResultsInv
<1>10. k' \in Nat /\ k' \in DOMAIN results'
  BY <1>2, <1>5
<1> QED
  BY <1>2, <1>5, <1>6, <1>7, <1>8, <1>9, <1>10, <1>3 DEF ResultsInv

LEMMA BookResults ==
    ASSUME LedgerInv, Onward, Book
    PROVE  ResultsInv'
<1> SUFFICES ASSUME NEW r, r = results[k], NEW n, n = RowId(r.id)
             PROVE  ResultsInv'
  OBVIOUS
<1>1. /\ r \in [id : Ids \cup {Unset}, owner : Addr, amount : Positive, success : BOOLEAN]
      /\ k \in DOMAIN results /\ DOMAIN results = 1..Len(results) /\ Len(results) \in Nat
      /\ n \in Ids
      /\ r.success => n = r.id /\ PaymentOf(n, r) \in sent
      /\ ~r.success => r.id = Unset /\ n \in Fresh
      /\ results' = results
      /\ IF k < Len(results) THEN k' = k + 1 /\ phase' = "book" ELSE k' = 1 /\ phase' = "scan"
  BY BookFacts
<1>2. /\ UNCHANGED <<wallet, asked>> /\ phase = "book"
      /\ DOMAIN transactions' = DOMAIN transactions \cup {n}
  BY DEF Book, Upsert
<1>3. asked' = {}
  BY <1>2 DEF LedgerInv, ResultsInv
<1>4. /\ n \in Ids
      /\ r.success => r.id \in Ids /\ wallet[n] /= "unused"
      /\ ~r.success => r.id = Unset /\ n \in Fresh
  <2>1. \A s \in sent : wallet[s.id] /= "unused" /\ s.id \in Ids
    BY DEF LedgerInv, WalletInv
  <2>2. PaymentOf(n, r).id = n
    BY DEF PaymentOf
  <2> QED
    BY <1>1, <2>1, <2>2
<1>5. ASSUME phase' = "book" PROVE Cardinality(Unnumbered') <= Cardinality(Fresh')
  <2>1. k' = k + 1 /\ results' = results
    BY <1>1, <1>5
  <2>2. /\ IsFiniteSet(Unnumbered) /\ IsFiniteSet(Fresh)
        /\ Cardinality(Unnumbered) \in Nat /\ Cardinality(Fresh) \in Nat
    <3>1. Unnumbered \in SUBSET (k..Len(results)) /\ IsFiniteSet(k..Len(results))
      BY <1>1, FS_Interval DEF Unnumbered
    <3>2. Fresh \in SUBSET Ids
      BY DEF Fresh
    <3> QED
      BY <3>1, <3>2, FS_Subset, FS_CardinalityType, IdsFacts
  <2>3. Cardinality(Unnumbered) <= Cardinality(Fresh)
    BY <1>2 DEF LedgerInv, ResultsInv
  <2>4. Fresh' = Fresh \ {n}
    BY <1>1, <1>2 DEF Fresh
  <2>5. CASE r.success
    <3>1. Fresh' = Fresh
      BY <1>4, <2>4, <2>5 DEF Fresh
    <3>2. Unnumbered' = Unnumbered
      BY <1>1, <1>4, <2>1, <2>5, IdsFacts DEF Unnumbered
    <3> QED
      BY <2>3, <3>1, <3>2
  <2>6. CASE ~r.success
    <3>1. Unnumbered' = Unnumbered \ {k} /\ k \in Unnumbered
      BY <1>1, <1>4, <2>1, <2>6 DEF Unnumbered
    <3>2. /\ Cardinality(Unnumbered') = Cardinality(Unnumbered) - 1
          /\ Cardinality(Fresh') = Cardinality(Fresh) - 1
      BY <1>4, <2>2, <2>4, <2>6, <3>1, FS_RemoveElement
    <3> QED
      BY <2>2, <2>3, <3>2
  <2> QED
    BY <2>5, <2>6
<1>6. k' \in Nat /\ k' \in DOMAIN results /\ phase' \in {"book", "scan"}
  BY <1>1
<1> QED
  BY <1>1, <1>3, <1>5, <1>6, ResultsKept

LEMMA ResultsStep ==
    ASSUME LedgerInv, Onward, [Next]_vars
    PROVE  ResultsInv'
<1>1. ASSUME UNCHANGED daemon, Fresh' = Fresh PROVE ResultsInv'
  <2>1. UNCHANGED <<results, k, phase, asked>> /\ Unnumbered' = Unnumbered
    BY <1>1 DEF daemon, Unnumbered
  <2> QED
    BY <1>1, <2>1 DEF LedgerInv, ResultsInv, Onward, PaymentOf
<1>2. CASE Ask
  <2>1. /\ UNCHANGED <<results, k, phase>> /\ phase = "scan" /\ results[k].success
        /\ asked' = {Height(results[k].id)}
    BY <1>2 DEF Ask
  <2>2. asked' \subseteq {0, 1}
    BY <2>1 DEF Height
  <2>3. k \in Nat /\ k \in DOMAIN results
    BY <2>1 DEF LedgerInv, ResultsInv
  <2> QED
    BY <2>1, <2>2, <2>3, ResultsKept
<1>3. CASE Skip \/ Store
  <2>1. phase = "scan" /\ NextResult("idle") /\ asked' = {}
    BY <1>3 DEF Skip, Store
  <2>2. k \in DOMAIN results /\ DOMAIN results = 1..Len(results) /\ Len(results) \in Nat
    BY <2>1, AtHand DEF LedgerInv, ResultsInv
  <2>3. CASE k < Len(results)
    <3>1. k' = k + 1 /\ UNCHANGED <<results, phase>>
      BY <2>1, <2>3 DEF NextResult
    <3>2. k' \in Nat /\ k' \in DOMAIN results
      BY <2>2, <2>3, <3>1
    <3> QED
      BY <2>1, <2>2, <3>1, <3>2, ResultsKept
  <2>4. CASE ~(k < Len(results))
    BY <2>1, <2>2, <2>4, ResultsDone DEF NextResult
  <2> QED
    BY <2>3, <2>4
<1>4. ASSUME NEW a \in Addr, Credit(a) PROVE UNCHANGED daemon
  BY <1>4 DEF Credit
<1>5. ASSUME NEW n \in Ids, Outcome(n) PROVE UNCHANGED daemon
  BY <1>5 DEF Outcome
<1>6. ASSUME NEW p \in Passes, Reset(p) PROVE UNCHANGED daemon
  BY <1>6 DEF Reset, StartReset, Look, LookFails, CreditBack, CreditFails, CreditLost, EndReset,
          ResetDies
<1>7. ASSUME NEW t \in Fillers, Fill(t) PROVE UNCHANGED daemon
  BY <1>7 DEF Fill, Fetch, List, EndFill, FillDies, Put, PutFails
<1>8. ASSUME UNCHANGED vars PROVE UNCHANGED daemon
  BY <1>8 DEF vars
<1>9. CASE Send \/ Book
  BY <1>9, SendResults, BookResults
<1>10. CASE ~Send /\ ~Book
  BY <1>1, <1>2, <1>3, <1>4, <1>5, <1>6, <1>7, <1>8, <1>10, FreshAfter DEF Next, vars
<1> QED
  BY <1>9, <1>10
-----------------------------------------------------------------------------
(* A row that is written is of a payment, or of none under a name of its   *)
(* own.                                                                    *)
LEMMA RowsStep ==
    ASSUME LedgerInv, Onward, [Next]_vars
    PROVE  RowsInv'
<1>1. ASSUME UNCHANGED transactions,
             \A n \in DOMAIN transactions : wallet'[n] = "unused" <=> wallet[n] = "unused"
      PROVE  RowsInv'
  BY <1>1 DEF LedgerInv, RowsInv, RowsOfPayments, Onward
<1>2. CASE Send
  <2>1. PICK S, accepted, order, id : Sends(S, accepted, order, id)
    BY <1>2, SendSends
  <2>2. Range(id) \subseteq Fresh
    BY <2>1, SendFacts
  <2>3. /\ UNCHANGED transactions
        /\ wallet' = [n \in Ids |-> IF n \in Range(id) THEN "pending" ELSE wallet[n]]
    BY <2>1 DEF Sends
  <2>4. DOMAIN transactions \subseteq Ids
    BY DEF LedgerInv, RowsInv
  <2>5. \A n \in DOMAIN transactions : wallet'[n] = wallet[n]
    BY <2>2, <2>3, <2>4 DEF Fresh
  <2> QED
    BY <1>1, <2>3, <2>5
<1>3. CASE Book
  <2> SUFFICES ASSUME NEW r, r = results[k], NEW n, n = RowId(r.id)
               PROVE  RowsInv'
    OBVIOUS
  <2>1. /\ r \in [id : Ids \cup {Unset}, owner : Addr, amount : Positive, success : BOOLEAN]
        /\ n \in Ids
        /\ r.success => PaymentOf(n, r) \in sent
        /\ ~r.success => n \in Fresh
    BY <1>3, BookFacts
  <2> DEFINE row == [owner |-> r.owner, amount |-> r.amount, success |-> r.success]
  <2>8. transactions' = [m \in DOMAIN transactions \cup {n} |-> IF m = n THEN row ELSE transactions[m]]
    BY <1>3 DEF Book, Upsert
  <2>2. UNCHANGED <<wallet, sent>>
    BY <1>3 DEF Book
  <2>3. row \in AnyRow /\ row.success = r.success /\ row.owner = r.owner /\ row.amount = r.amount
    BY <2>1 DEF AnyRow
  <2> HIDE DEF row
  <2>4. IF wallet[n] = "unused" THEN ~row.success
        ELSE [id |-> n, owner |-> row.owner, amount |-> row.amount] \in sent
    <3>1. CASE r.success
      <4>1. \A s \in sent : wallet[s.id] /= "unused"
        BY DEF LedgerInv, WalletInv
      <4>2. PaymentOf(n, r).id = n /\ PaymentOf(n, r) = [id |-> n, owner |-> row.owner, amount |-> row.amount]
        BY <2>3 DEF PaymentOf
      <4> QED
        BY <2>1, <3>1, <4>1, <4>2
    <3>2. CASE ~r.success
      BY <2>1, <2>3, <3>2 DEF Fresh
    <3> QED
      BY <3>1, <3>2
  <2>5. /\ DOMAIN transactions' = DOMAIN transactions \cup {n} /\ transactions'[n] = row
        /\ \A m \in DOMAIN transactions : m /= n => transactions'[m] = transactions[m]
        /\ transactions' = [m \in DOMAIN transactions' |-> transactions'[m]]
    BY <2>8
  <2>6. \A m \in DOMAIN transactions' :
           /\ transactions'[m] \in AnyRow
           /\ IF wallet[m] = "unused" THEN ~transactions'[m].success
              ELSE [id |-> m, owner |-> transactions'[m].owner, amount |-> transactions'[m].amount] \in sent
    <3> SUFFICES ASSUME NEW m \in DOMAIN transactions'
                 PROVE  /\ transactions'[m] \in AnyRow
                        /\ IF wallet[m] = "unused" THEN ~transactions'[m].success
                           ELSE [id |-> m, owner |-> transactions'[m].owner, amount |-> transactions'[m].amount] \in sent
      OBVIOUS
    <3>1. CASE m = n
      BY <2>3, <2>4, <2>5, <3>1
    <3>2. CASE m /= n
      <4>1. m \in DOMAIN transactions /\ transactions'[m] = transactions[m]
        BY <2>5, <3>2
      <4> QED
        BY <4>1 DEF LedgerInv, RowsInv, RowsOfPayments
    <3> QED
      BY <3>1, <3>2
  <2>7. DOMAIN transactions' \subseteq Ids
    BY <2>1, <2>5 DEF LedgerInv, RowsInv
  <2> QED
    BY <2>2, <2>5, <2>6, <2>7 DEF RowsInv, RowsOfPayments
<1>4. ASSUME NEW p \in Passes, CreditBack(p) PROVE RowsInv'
  <2>1. /\ transactions' = [transactions EXCEPT ![reset[p].id].success = FALSE]
        /\ UNCHANGED <<wallet, sent>>
    BY <1>4 DEF CreditBack
  <2>2. /\ DOMAIN transactions' = DOMAIN transactions
        /\ transactions' = [m \in DOMAIN transactions' |-> transactions'[m]]
    BY <2>1
  <2>3. ASSUME NEW m \in DOMAIN transactions
        PROVE  /\ transactions'[m] \in AnyRow
               /\ transactions'[m].owner = transactions[m].owner
               /\ transactions'[m].amount = transactions[m].amount
               /\ transactions'[m].success => transactions[m].success
    <3>1. transactions'[m] = transactions[m] \/ transactions'[m] = [transactions[m] EXCEPT !.success = FALSE]
      BY <2>1
    <3>2. transactions[m] \in AnyRow
      BY DEF LedgerInv, RowsInv
    <3> QED
      BY <3>1, <3>2 DEF AnyRow
  <2>4. ASSUME NEW m \in DOMAIN transactions
        PROVE  IF wallet[m] = "unused" THEN ~transactions'[m].success
               ELSE [id |-> m, owner |-> transactions'[m].owner, amount |-> transactions'[m].amount] \in sent
    <3>1. IF wallet[m] = "unused" THEN ~transactions[m].success
          ELSE [id |-> m, owner |-> transactions[m].owner, amount |-> transactions[m].amount] \in sent
      BY DEF LedgerInv, RowsInv, RowsOfPayments
    <3> QED
      BY <2>3, <3>1
  <2>5. DOMAIN transactions' \subseteq Ids
    BY <2>2 DEF LedgerInv, RowsInv
  <2> QED
    BY <2>1, <2>2, <2>3, <2>4, <2>5 DEF RowsInv, RowsOfPayments
<1>5. ASSUME NEW n \in Ids, Outcome(n) PROVE RowsInv'
  <2>1. UNCHANGED transactions /\ \A m \in Ids : wallet'[m] = "unused" <=> wallet[m] = "unused"
    BY <1>5 DEF Outcome, LedgerInv, WalletInv
  <2> QED
    BY <1>1, <2>1 DEF LedgerInv, RowsInv
<1>6. ASSUME NEW a \in Addr, Credit(a) PROVE UNCHANGED <<wallet, transactions>>
  BY <1>6 DEF Credit
<1>7. ASSUME NEW p \in Passes, Reset(p), ~CreditBack(p) PROVE UNCHANGED <<wallet, transactions>>
  BY <1>7 DEF Reset, StartReset, Look, LookFails, CreditFails, CreditLost, EndReset, ResetDies, money
<1>8. ASSUME NEW t \in Fillers, Fill(t) PROVE UNCHANGED <<wallet, transactions>>
  BY <1>8 DEF Fill, Fetch, List, EndFill, FillDies, Put, PutFails, money
<1>9. ASSUME Ask \/ Skip \/ Store \/ UNCHANGED vars PROVE UNCHANGED <<wallet, transactions>>
  BY <1>9 DEF Ask, Skip, Store, money, vars
<1>10. ASSUME UNCHANGED <<wallet, transactions>> PROVE RowsInv'
  BY <1>1, <1>10
<1> QED
  BY <1>2, <1>3, <1>4, <1>5, <1>6, <1>7, <1>8, <1>9, <1>10 DEF Next
-----------------------------------------------------------------------------
LEMMA PassKept ==
    ASSUME LedgerInv, Onward, NEW p \in Passes,
           reset'[p].pc = reset[p].pc, reset'[p].todo = reset[p].todo,
           reset'[p].id = reset[p].id, reset'[p].seen = reset[p].seen,
           reset'[p].dropped = reset[p].dropped,
           reset'[p].due \cap Successful' \subseteq reset[p].due \cap Successful,
           DOMAIN transactions \subseteq DOMAIN transactions'
    PROVE  PassInv(p)'
<1>1. PassInv(p)
  BY DEF LedgerInv, ResetInv
<1>2. At(p)' = At(p)
  BY DEF At
<1> QED
  BY <1>1, <1>2 DEF PassInv, Onward

(* A pass takes a step of its own.                                         *)
LEMMA PassMoves ==
    ASSUME LedgerInv, Onward, NEW p \in Passes, NEW r \in Pass,
           reset' = [reset EXCEPT ![p] = r], PassInv(p)',
           Successful' \subseteq Successful, DOMAIN transactions' = DOMAIN transactions
    PROVE  ResetInv'
<1>1. reset \in [Passes -> Pass]
  BY DEF LedgerInv, ResetInv
<1>2. reset' \in [Passes -> Pass]
  BY <1>1
<1>3. ASSUME NEW q \in Passes, q /= p PROVE PassInv(q)'
  <2>1. reset'[q] = reset[q]
    BY <1>1, <1>3
  <2> QED
    BY <2>1, PassKept
<1> QED
  BY <1>2, <1>3 DEF ResetInv

LEMMA OwnSteps ==
    ASSUME LedgerInv, Onward, NEW p \in Passes, Reset(p)
    PROVE  ResetInv'
<1>1. reset[p] \in Pass /\ reset \in [Passes -> Pass] /\ PassInv(p)
  BY DEF LedgerInv, ResetInv
<1>2. ASSUME NEW r \in Pass, reset' = [reset EXCEPT ![p] = r]
      PROVE  reset'[p] = r
  BY <1>1, <1>2
<1>3. ASSUME UNCHANGED transactions
      PROVE  Successful' = Successful /\ DOMAIN transactions' = DOMAIN transactions
  BY <1>3 DEF Successful
<1>4. Successful \subseteq Ids
  BY DEF LedgerInv, RowsInv, Successful
<1>5. CASE StartReset(p)
  <2>0. PICK cut \in SUBSET Rejected :
           reset' = [reset EXCEPT ![p] = [NoPass EXCEPT !.pc = "next", !.todo = Rejected \ cut,
                                                        !.due = (Rejected \ cut) \cap Successful]]
    BY <1>5 DEF StartReset
  <2> DEFINE list == Rejected \ cut
             r == [NoPass EXCEPT !.pc = "next", !.todo = list, !.due = list \cap Successful]
  <2>1. r \in Pass
    <3>1. list \in SUBSET Ids /\ list \cap Successful \in SUBSET Ids /\ {} \in SUBSET AnyRow
      BY DEF Rejected
    <3>2. NoPass \in Pass
      BY DEF NoPass, Pass
    <3> QED
      BY <3>1, <3>2 DEF Pass
  <2>2. reset' = [reset EXCEPT ![p] = r] /\ UNCHANGED <<transactions, wallet, sent>>
    BY <1>5, <2>0 DEF StartReset, money
  <2>3. r.pc = "next" /\ r.todo = list /\ r.seen = {} /\ r.due = list \cap Successful
    BY DEF NoPass
  <2> HIDE DEF r
  <2>4. reset'[p] = r
    BY <1>2, <2>1, <2>2
  <2>5. At(p)' = {}
    BY <2>3, <2>4 DEF At
  <2>6. PassInv(p)'
    BY <1>3, <2>2, <2>3, <2>4, <2>5 DEF PassInv, Rejected
  <2> QED
    BY <1>3, <2>1, <2>2, <2>6, PassMoves
<1>6. ASSUME NEW n \in Ids, Look(p, n) PROVE ResetInv'
  <2>1. UNCHANGED <<transactions, wallet, sent>> /\ reset[p].pc = "next" /\ n \in reset[p].todo
    BY <1>6 DEF Look, money
  <2>2. At(p) = {}
    BY <2>1 DEF At
  <2>3. CASE n \in Successful
    <3> DEFINE row == transactions[n]
               r == [reset[p] EXCEPT !.todo = @ \ {n}, !.pc = "found", !.id = n, !.seen = {row}]
    <3>1. reset' = [reset EXCEPT ![p] = r]
      BY <1>1, <1>6, <2>3 DEF Look
    <3>2. row \in AnyRow /\ n \in DOMAIN transactions /\ PaymentOf(n, row) \in sent
      BY <2>3 DEF Successful, LedgerInv, RowsInv, RowsOfPayments, PaymentOf
    <3> HIDE DEF row
    <3>3. r \in Pass
      BY <1>1, <3>2 DEF Pass
    <3>4. /\ r.pc = "found" /\ r.todo = reset[p].todo \ {n} /\ r.id = n /\ r.seen = {row}
          /\ r.due = reset[p].due /\ r.dropped = reset[p].dropped
      BY <1>1 DEF Pass
    <3> HIDE DEF r
    <3>5. reset'[p] = r
      BY <1>2, <3>1, <3>3
    <3>6. At(p)' = {n}
      BY <3>4, <3>5 DEF At
    <3>7. PassInv(p)'
      BY <1>1, <1>3, <2>1, <2>2, <3>2, <3>4, <3>5, <3>6 DEF PassInv
    <3> QED
      BY <1>3, <2>1, <3>1, <3>3, <3>7, PassMoves
  <2>4. CASE n \notin Successful
    <3> DEFINE r == [reset[p] EXCEPT !.todo = @ \ {n}]
    <3>1. reset' = [reset EXCEPT ![p] = r]
      BY <1>1, <1>6, <2>4 DEF Look
    <3>2. r \in Pass
      BY <1>1 DEF Pass
    <3>3. /\ r.pc = "next" /\ r.todo = reset[p].todo \ {n} /\ r.seen = reset[p].seen
          /\ r.due = reset[p].due /\ r.id = reset[p].id /\ r.dropped = reset[p].dropped
      BY <1>1, <2>1 DEF Pass
    <3> HIDE DEF r
    <3>4. reset'[p] = r
      BY <1>2, <3>1, <3>2
    <3>5. At(p)' = {}
      BY <3>3, <3>4 DEF At
    <3>6. PassInv(p)'
      BY <1>1, <1>3, <2>1, <2>2, <2>4, <3>3, <3>4, <3>5 DEF PassInv
    <3> QED
      BY <1>3, <2>1, <3>1, <3>2, <3>6, PassMoves
  <2> QED
    BY <2>3, <2>4
<1>7. CASE CreditBack(p)
  <2> DEFINE r == [reset[p] EXCEPT !.pc = "next", !.seen = {}, !.id = Unset]
  <2>1. /\ reset[p].pc = "found" /\ UNCHANGED <<wallet, sent>>
        /\ transactions' = [transactions EXCEPT ![reset[p].id].success = FALSE]
        /\ reset' = [reset EXCEPT ![p] = r]
    BY <1>1, <1>7 DEF CreditBack
  <2>2. r \in Pass
    BY <1>1 DEF Pass
  <2>3. /\ r.pc = "next" /\ r.seen = {} /\ r.due = reset[p].due /\ r.todo = reset[p].todo
        /\ r.dropped = reset[p].dropped
    BY <1>1 DEF Pass
  <2> HIDE DEF r
  <2>4. reset'[p] = r
    BY <1>2, <2>1, <2>2
  <2>5. At(p)' = {} /\ At(p) = {reset[p].id}
    BY <2>1, <2>3, <2>4 DEF At
  <2>6. DOMAIN transactions' = DOMAIN transactions
    BY <2>1
  <2>7. reset[p].id \in DOMAIN transactions
    BY <1>1, <2>5 DEF PassInv
  <2>8. Successful' = Successful \ {reset[p].id}
    <3>1. ~transactions'[reset[p].id].success
      <4>1. transactions[reset[p].id] \in AnyRow
        BY <2>7 DEF LedgerInv, RowsInv
      <4>2. transactions'[reset[p].id] = [transactions[reset[p].id] EXCEPT !.success = FALSE]
        BY <2>1, <2>7
      <4> QED
        BY <4>1, <4>2 DEF AnyRow
    <3>2. \A n \in DOMAIN transactions : n /= reset[p].id => transactions'[n] = transactions[n]
      BY <2>1
    <3> QED
      BY <2>6, <3>1, <3>2 DEF Successful
  <2>9. PassInv(p)'
    BY <1>1, <2>1, <2>3, <2>4, <2>5, <2>8 DEF PassInv
  <2> QED
    BY <2>1, <2>2, <2>6, <2>8, <2>9, PassMoves
<1>8. CASE CreditFails(p)
  <2> DEFINE r == [reset[p] EXCEPT !.pc = "next", !.seen = {}, !.id = Unset, !.due = @ \ {reset[p].id}]
  <2>1. /\ reset[p].pc = "found" /\ UNCHANGED <<transactions, wallet, sent>>
        /\ reset' = [reset EXCEPT ![p] = r]
    BY <1>1, <1>8 DEF CreditFails, money
  <2>2. r \in Pass
    BY <1>1 DEF Pass
  <2>3. /\ r.pc = "next" /\ r.seen = {} /\ r.due = reset[p].due \ {reset[p].id}
        /\ r.todo = reset[p].todo /\ r.dropped = reset[p].dropped
    BY <1>1 DEF Pass
  <2> HIDE DEF r
  <2>4. reset'[p] = r
    BY <1>2, <2>1, <2>2
  <2>5. At(p)' = {} /\ At(p) = {reset[p].id}
    BY <2>1, <2>3, <2>4 DEF At
  <2>6. PassInv(p)'
    BY <1>1, <1>3, <2>1, <2>3, <2>4, <2>5 DEF PassInv
  <2> QED
    BY <1>3, <2>1, <2>2, <2>6, PassMoves
<1>9. CASE CreditLost(p)
  <2> DEFINE r == [reset[p] EXCEPT !.pc = "next", !.seen = {}, !.id = Unset,
                                   !.dropped = @ \cup {reset[p].id}]
  <2>1. /\ reset[p].pc = "found" /\ UNCHANGED <<transactions, wallet, sent>>
        /\ reset' = [reset EXCEPT ![p] = r]
    BY <1>1, <1>9 DEF CreditLost, money
  <2>2. At(p) = {reset[p].id} /\ reset[p].id \in Ids
    BY <1>1, <2>1 DEF At, PassInv
  <2>3. r \in Pass
    BY <1>1, <2>2 DEF Pass
  <2>4. /\ r.pc = "next" /\ r.seen = {} /\ r.due = reset[p].due /\ r.todo = reset[p].todo
        /\ r.dropped = reset[p].dropped \cup {reset[p].id}
    BY <1>1 DEF Pass
  <2> HIDE DEF r
  <2>5. reset'[p] = r
    BY <1>2, <2>1, <2>3
  <2>6. At(p)' = {}
    BY <2>4, <2>5 DEF At
  <2>7. PassInv(p)'
    BY <1>1, <1>3, <2>1, <2>2, <2>4, <2>5, <2>6 DEF PassInv
  <2> QED
    BY <1>3, <2>1, <2>3, <2>7, PassMoves
<1>10. ASSUME NEW n \in Ids, LookFails(p, n) PROVE ResetInv'
  <2> DEFINE r == [reset[p] EXCEPT !.todo = @ \ {n}, !.due = @ \ {n}]
  <2>1. /\ reset[p].pc = "next" /\ UNCHANGED <<transactions, wallet, sent>>
        /\ reset' = [reset EXCEPT ![p] = r]
    BY <1>1, <1>10 DEF LookFails, money
  <2>2. r \in Pass
    BY <1>1 DEF Pass
  <2>3. /\ r.pc = "next" /\ r.seen = reset[p].seen /\ r.due = reset[p].due \ {n}
        /\ r.todo = reset[p].todo \ {n} /\ r.dropped = reset[p].dropped
    BY <1>1, <2>1 DEF Pass
  <2> HIDE DEF r
  <2>4. reset'[p] = r
    BY <1>2, <2>1, <2>2
  <2>5. At(p)' = {} /\ At(p) = {}
    BY <2>1, <2>3, <2>4 DEF At
  <2>6. PassInv(p)'
    BY <1>1, <1>3, <2>1, <2>3, <2>4, <2>5 DEF PassInv
  <2> QED
    BY <1>3, <2>1, <2>2, <2>6, PassMoves
<1>11. CASE EndReset(p) \/ ResetDies(p)
  <2>1. UNCHANGED <<transactions, wallet, sent>> /\ reset' = [reset EXCEPT ![p] = NoPass]
    BY <1>11 DEF EndReset, ResetDies, money
  <2>2. NoPass \in Pass /\ NoPass.pc = "off" /\ NoPass.todo = {} /\ NoPass.seen = {} /\ NoPass.due = {}
    BY DEF Pass, NoPass
  <2>3. reset'[p] = NoPass
    BY <1>2, <2>1, <2>2
  <2>4. At(p)' = {}
    BY <2>2, <2>3 DEF At
  <2>5. PassInv(p)'
    BY <2>2, <2>3, <2>4 DEF PassInv
  <2> QED
    BY <1>3, <2>1, <2>2, <2>5, PassMoves
<1> QED
  BY <1>5, <1>6, <1>7, <1>8, <1>9, <1>10, <1>11 DEF Reset

LEMMA ResetStep ==
    ASSUME LedgerInv, Onward, [Next]_vars
    PROVE  ResetInv'
<1>1. ASSUME UNCHANGED <<reset, transactions>> PROVE ResetInv'
  <2>1. Successful' = Successful
    BY <1>1 DEF Successful
  <2>2. ASSUME NEW p \in Passes PROVE PassInv(p)'
    BY <1>1, <2>1, PassKept
  <2> QED
    BY <1>1, <2>2 DEF LedgerInv, ResetInv
<1>2. CASE Book
  <2> SUFFICES ASSUME NEW n, n = RowId(results[k].id)
               PROVE  ResetInv'
    OBVIOUS
  <2>1. reset' = [p \in Passes |-> [reset[p] EXCEPT !.due = @ \ {n}]]
    BY <1>2 DEF Book
  <2>2. /\ DOMAIN transactions' = DOMAIN transactions \cup {n}
        /\ \A m \in DOMAIN transactions : m /= n => transactions'[m] = transactions[m]
    BY <1>2 DEF Book, Upsert
  <2>3. Successful' \subseteq Successful \cup {n}
    BY <2>2 DEF Successful
  <2>4. ASSUME NEW p \in Passes
        PROVE  /\ reset'[p] \in Pass
               /\ reset'[p].pc = reset[p].pc /\ reset'[p].todo = reset[p].todo
               /\ reset'[p].id = reset[p].id /\ reset'[p].seen = reset[p].seen
               /\ reset'[p].due = reset[p].due \ {n} /\ reset'[p].dropped = reset[p].dropped
    <3>1. reset[p] \in Pass
      BY DEF LedgerInv, ResetInv
    <3>2. reset'[p] = [reset[p] EXCEPT !.due = @ \ {n}]
      BY <2>1
    <3> QED
      BY <3>1, <3>2 DEF Pass
  <2>5. reset' \in [Passes -> Pass]
    BY <2>1, <2>4
  <2>6. ASSUME NEW p \in Passes PROVE PassInv(p)'
    <3>1. reset'[p].due \cap Successful' \subseteq reset[p].due \cap Successful
      BY <2>3, <2>4
    <3> QED
      BY <2>2, <2>4, <3>1, PassKept
  <2> QED
    BY <2>5, <2>6 DEF ResetInv
<1>3. CASE Send
  BY <1>1, <1>3 DEF Send
<1>4. ASSUME NEW a \in Addr, Credit(a) PROVE UNCHANGED <<reset, transactions>>
  BY <1>4 DEF Credit
<1>5. ASSUME NEW n \in Ids, Outcome(n) PROVE UNCHANGED <<reset, transactions>>
  BY <1>5 DEF Outcome
<1>6. ASSUME NEW t \in Fillers, Fill(t) PROVE UNCHANGED <<reset, transactions>>
  BY <1>6 DEF Fill, Fetch, List, EndFill, FillDies, Put, PutFails
<1>7. ASSUME Ask \/ Skip \/ Store \/ UNCHANGED vars PROVE UNCHANGED <<reset, transactions>>
  BY <1>7 DEF Ask, Skip, Store, vars
<1> QED
  BY <1>1, <1>2, <1>3, <1>4, <1>5, <1>6, <1>7, OwnSteps DEF Next
-----------------------------------------------------------------------------
(* What an insert does to the details: those that are there stay.          *)
LEMMA InsertFacts ==
    ASSUME LedgerInv, NEW n \in Ids, NEW h \in {0, 1}, Insert(n, h)
    PROVE  /\ details' \in Known
           /\ DOMAIN details' = DOMAIN details \cup {n}
           /\ \A m \in DOMAIN details : details'[m] = details[m]
<1>1. DOMAIN details \subseteq Ids /\ \A m \in DOMAIN details : details[m] \in {0, 1}
  BY KnownFacts DEF LedgerInv, FillInv
<1>2. details' = [m \in DOMAIN details \cup {n} |-> IF m \in DOMAIN details THEN details[m] ELSE h]
  BY DEF Insert
<1>3. /\ DOMAIN details' = DOMAIN details \cup {n} /\ DOMAIN details' \subseteq Ids
      /\ details' = [m \in DOMAIN details' |-> details'[m]]
      /\ \A m \in DOMAIN details : details'[m] = details[m]
      /\ \A m \in DOMAIN details' : details'[m] \in {0, 1}
  BY <1>1, <1>2
<1> QED
  BY <1>3, KnownFacts

LEMMA FillKept ==
    ASSUME LedgerInv, UNCHANGED fill, details' \in Known,
           \A n \in DOMAIN details : n \in DOMAIN details' /\ details'[n] = details[n]
    PROVE  FillInv'
BY DEF LedgerInv, FillInv

LEMMA StoreDetails ==
    ASSUME LedgerInv, Store
    PROVE  /\ details' \in Known
           /\ \A n \in DOMAIN details : n \in DOMAIN details' /\ details'[n] = details[n]
<1>1. PICK h \in asked : Insert(results[k].id, h) \/ UNCHANGED details
  BY DEF Store
<1>2. h \in {0, 1} /\ results[k].success /\ phase /= "idle"
  BY <1>1 DEF LedgerInv, ResultsInv
<1>3. results[k].id \in Ids
  <2>1. k \in DOMAIN results /\ results[k].id \in Ids \cup {Unset}
    BY <1>2, AtHand DEF LedgerInv
  <2>2. results[k].id /= Unset
    BY <1>2, <2>1 DEF LedgerInv, ResultsInv
  <2> QED
    BY <2>1, <2>2
<1>4. CASE UNCHANGED details
  BY <1>4 DEF LedgerInv, FillInv
<1>5. CASE Insert(results[k].id, h)
  BY <1>2, <1>3, <1>5, InsertFacts
<1> QED
  BY <1>1, <1>4, <1>5

(* A put: of the details it leaves what is there, but for a height that    *)
(* was still missing.                                                      *)
LEMMA PutDetails ==
    ASSUME LedgerInv, NEW t \in Fillers, NEW n \in Ids, Put(t, n)
    PROVE  /\ details' \in Known
           /\ n \in DOMAIN fill[t].known => n \in DOMAIN details'
           /\ \A m \in DOMAIN details :
                /\ m \in DOMAIN details' /\ details'[m] >= details[m]
                /\ t = "details" \/ m /= n => details'[m] = details[m]
           /\ t = "heights" /\ n \in DOMAIN fill[t].known => details'[n] = fill[t].known[n]
<1>1. /\ fill[t] \in Filler /\ details \in Known /\ fill[t].known \in Known
      /\ fill[t].pc = "listed" /\ n \in fill[t].todo
  BY DEF LedgerInv, FillInv, Filler, Put
<1>2. /\ DOMAIN details \subseteq Ids /\ details = [m \in DOMAIN details |-> details[m]]
      /\ \A m \in DOMAIN details : details[m] \in {0, 1}
      /\ \A m \in DOMAIN fill[t].known : fill[t].known[m] \in {0, 1}
  BY <1>1, KnownFacts
<1>3. CASE n \notin DOMAIN fill[t].known
  <2>1. UNCHANGED details
    BY <1>3 DEF Put
  <2> QED
    BY <1>1, <1>2, <1>3, <2>1
<1>4. CASE n \in DOMAIN fill[t].known /\ t = "details"
  <2>1. Insert(n, fill[t].known[n]) /\ fill[t].known[n] \in {0, 1}
    BY <1>2, <1>4 DEF Put
  <2>2. /\ details' \in Known
        /\ DOMAIN details' = DOMAIN details \cup {n}
        /\ \A m \in DOMAIN details : details'[m] = details[m]
    BY <2>1, InsertFacts
  <2> QED
    BY <1>2, <1>4, <2>2
<1>5. CASE n \in DOMAIN fill[t].known /\ t = "heights"
  <2>1. details' = [details EXCEPT ![n] = fill[t].known[n]] /\ fill[t].known[n] \in {0, 1}
    BY <1>2, <1>5 DEF Put
  <2>2. n \in DOMAIN details /\ details[n] = 0
    BY <1>1, <1>5 DEF LedgerInv, FillInv
  <2>3. /\ DOMAIN details' = DOMAIN details /\ details'[n] = fill[t].known[n]
        /\ \A m \in DOMAIN details : m /= n => details'[m] = details[m]
        /\ details' = [m \in DOMAIN details' |-> details'[m]]
    BY <2>1, <2>2
  <2>4. details' \in Known
    <3>1. \A m \in DOMAIN details' : details'[m] \in {0, 1}
      BY <1>2, <2>1, <2>3
    <3> QED
      BY <1>2, <2>3, <3>1, KnownFacts
  <2> QED
    BY <1>2, <1>5, <2>1, <2>2, <2>3, <2>4
<1> QED
  BY <1>3, <1>4, <1>5 DEF Fillers

LEMMA FillMoves ==
    ASSUME LedgerInv, NEW t \in Fillers, Fill(t)
    PROVE  FillInv'
<1>1. /\ fill \in [Fillers -> Filler] /\ fill[t] \in Filler /\ details \in Known
      /\ t = "details" \/ t = "heights"
      /\ "details" \in Fillers /\ "heights" \in Fillers
  BY DEF LedgerInv, FillInv, Fillers
<1>2. ASSUME NEW f \in Filler, fill' = [fill EXCEPT ![t] = f]
      PROVE  /\ fill' \in [Fillers -> Filler] /\ fill'[t] = f
             /\ \A u \in Fillers : u /= t => fill'[u] = fill[u]
  BY <1>1, <1>2
<1>3. /\ fill[t].due \subseteq DOMAIN fill[t].known
      /\ \A u \in Fillers : /\ fill[u].due \subseteq DOMAIN fill[u].known
                            /\ fill[u].pc /= "listed" => fill[u].todo = {}
  BY <1>1 DEF LedgerInv, FillInv
<1>4. \A m \in DOMAIN details : details[m] \in {0, 1} /\ m \in Ids
  BY <1>1, KnownFacts
<1>5. CASE Fetch(t)
  <2> DEFINE known == [n \in {m \in Ids : wallet[m] /= "unused"} |-> Height(n)]
             f == [NoFill EXCEPT !.pc = "fetched", !.known = known]
  <2>1. known \in Known
    <3>1. /\ DOMAIN known \subseteq Ids /\ known = [n \in DOMAIN known |-> known[n]]
          /\ \A n \in DOMAIN known : known[n] \in {0, 1}
      BY DEF Height
    <3> HIDE DEF known
    <3> QED
      BY <3>1, KnownFacts
  <2>2. fill' = [fill EXCEPT ![t] = f] /\ UNCHANGED details
    BY <1>5 DEF Fetch
  <2> HIDE DEF known
  <2>3. f \in Filler /\ f.pc = "fetched" /\ f.todo = {} /\ f.due = {}
    BY <2>1 DEF NoFill, Filler
  <2> HIDE DEF f
  <2>4. /\ fill' \in [Fillers -> Filler] /\ fill'[t] = f
        /\ \A u \in Fillers : u /= t => fill'[u] = fill[u]
    BY <1>2, <2>2, <2>3
  <2> QED
    BY <1>1, <1>3, <2>2, <2>3, <2>4 DEF LedgerInv, FillInv
<1>6. CASE List(t)
  <2> DEFINE rows == IF t = "details" THEN Successful ELSE DOMAIN details
  <2>0. PICK cut \in SUBSET WorkFor(t) :
           fill' = [fill EXCEPT ![t].pc = "listed", ![t].todo = WorkFor(t) \ cut,
                                ![t].due = (rows \cap DOMAIN fill[t].known) \ cut]
    BY <1>6 DEF List
  <2> DEFINE due == (rows \cap DOMAIN fill[t].known) \ cut
             todo == WorkFor(t) \ cut
             f == [fill[t] EXCEPT !.pc = "listed", !.todo = todo, !.due = due]
  <2>1. fill' = [fill EXCEPT ![t] = f] /\ UNCHANGED details /\ fill[t].pc = "fetched"
    BY <1>1, <1>6, <2>0 DEF List
  <2>2. todo \in SUBSET Ids /\ due \in SUBSET Ids
    BY <1>4 DEF WorkFor, Successful, LedgerInv, RowsInv
  <2> HIDE DEF due, todo
  <2>3. /\ f \in Filler /\ f.pc = "listed" /\ f.todo = todo /\ f.due = due
        /\ f.known = fill[t].known
    BY <1>1, <2>2 DEF Filler
  <2> HIDE DEF f
  <2>4. /\ fill' \in [Fillers -> Filler] /\ fill'[t] = f
        /\ \A u \in Fillers : u /= t => fill'[u] = fill[u]
    BY <1>2, <2>1, <2>3
  <2>5. /\ due \subseteq DOMAIN f.known
        /\ t = "details" => due \subseteq DOMAIN details \cup todo
        /\ t = "heights" => /\ \A n \in todo : n \in DOMAIN details /\ details[n] = 0
                            /\ due \subseteq DOMAIN details
    BY <2>3 DEF due, todo, WorkFor
  <2>6. ASSUME t = "heights", NEW n \in due
        PROVE  n \in todo \/ details[n] >= f.known[n]
    <3>1. n \in DOMAIN details /\ n \in DOMAIN f.known /\ n \notin cut
      BY <2>5, <2>6 DEF due
    <3>2. details[n] \in {0, 1} /\ f.known[n] \in {0, 1}
      BY <1>4, <2>3, <3>1, KnownFacts DEF Filler
    <3> QED
      BY <2>6, <3>1, <3>2 DEF todo, WorkFor
  <2>7. /\ details' \in Known
        /\ \A u \in Fillers : /\ fill'[u].due \subseteq DOMAIN fill'[u].known
                              /\ fill'[u].pc /= "listed" => fill'[u].todo = {}
    BY <1>1, <1>3, <2>1, <2>3, <2>4, <2>5
  <2>8. CASE t = "details"
    BY <1>1, <2>1, <2>3, <2>4, <2>5, <2>7, <2>8 DEF LedgerInv, FillInv
  <2>9. CASE t = "heights"
    BY <1>1, <2>1, <2>3, <2>4, <2>5, <2>6, <2>7, <2>9 DEF LedgerInv, FillInv
  <2> QED
    BY <1>1, <2>8, <2>9
<1>7. ASSUME NEW n \in Ids, Put(t, n) PROVE FillInv'
  <2> DEFINE f == [fill[t] EXCEPT !.todo = @ \ {n}]
  <2>1. fill' = [fill EXCEPT ![t] = f] /\ fill[t].pc = "listed" /\ n \in fill[t].todo
    BY <1>1, <1>7 DEF Put
  <2>2. /\ f \in Filler /\ f.pc = "listed" /\ f.todo = fill[t].todo \ {n} /\ f.due = fill[t].due
        /\ f.known = fill[t].known
    BY <1>1, <2>1 DEF Filler
  <2> HIDE DEF f
  <2>3. /\ fill' \in [Fillers -> Filler] /\ fill'[t] = f
        /\ \A u \in Fillers : u /= t => fill'[u] = fill[u]
    BY <1>2, <2>1, <2>2
  <2>4. /\ details' \in Known
        /\ n \in DOMAIN fill[t].known => n \in DOMAIN details'
        /\ \A m \in DOMAIN details :
             /\ m \in DOMAIN details' /\ details'[m] >= details[m]
             /\ t = "details" \/ m /= n => details'[m] = details[m]
        /\ t = "heights" /\ n \in DOMAIN fill[t].known => details'[n] = fill[t].known[n]
    BY <1>7, PutDetails
  <2>5. \A u \in Fillers : /\ fill'[u].due \subseteq DOMAIN fill'[u].known
                           /\ fill'[u].pc /= "listed" => fill'[u].todo = {}
    BY <1>3, <2>2, <2>3
  <2>6. CASE t = "details"
    <3>1. fill'["details"].due \subseteq DOMAIN details' \cup fill'["details"].todo
      BY <1>1, <1>3, <2>2, <2>3, <2>4, <2>6 DEF LedgerInv, FillInv
    <3>2. fill'["heights"] = fill["heights"] /\ \A m \in DOMAIN details : m \in DOMAIN details' /\ details'[m] = details[m]
      BY <1>1, <2>3, <2>4, <2>6
    <3>3. /\ \A m \in fill'["heights"].todo : m \in DOMAIN details' /\ details'[m] = 0
          /\ \A m \in fill'["heights"].due :
               /\ m \in DOMAIN details'
               /\ m \in fill'["heights"].todo \/ details'[m] >= fill'["heights"].known[m]
      BY <3>2 DEF LedgerInv, FillInv
    <3> QED
      BY <2>3, <2>4, <2>5, <3>1, <3>3 DEF FillInv
  <2>7. CASE t = "heights"
    <3>1. fill'["details"].due \subseteq DOMAIN details' \cup fill'["details"].todo
      BY <1>1, <2>3, <2>4, <2>7 DEF LedgerInv, FillInv
    <3>2. \A m \in fill'["heights"].todo : m \in DOMAIN details' /\ details'[m] = 0
      BY <2>2, <2>3, <2>4, <2>7 DEF LedgerInv, FillInv
    <3>3. ASSUME NEW m \in fill'["heights"].due
          PROVE  /\ m \in DOMAIN details'
                 /\ m \in fill'["heights"].todo \/ details'[m] >= fill'["heights"].known[m]
      <4>1. /\ m \in DOMAIN details /\ m \in DOMAIN fill[t].known
            /\ m \in fill[t].todo \/ details[m] >= fill[t].known[m]
        BY <1>3, <2>2, <2>3, <2>7, <3>3 DEF LedgerInv, FillInv
      <4>2. CASE m = n
        <5>1. details'[m] = fill[t].known[m] /\ details'[m] \in {0, 1} /\ m \in DOMAIN details'
          BY <2>4, <2>7, <4>1, <4>2, KnownFacts
        <5> QED
          BY <2>2, <2>3, <2>7, <5>1
      <4>3. CASE m /= n
        BY <2>2, <2>3, <2>4, <2>7, <4>1, <4>3
      <4> QED
        BY <4>2, <4>3
    <3> QED
      BY <2>3, <2>4, <2>5, <3>1, <3>2, <3>3 DEF FillInv
  <2> QED
    BY <1>1, <2>6, <2>7
<1>8. ASSUME NEW n \in Ids, PutFails(t, n) PROVE FillInv'
  <2> DEFINE f == [fill[t] EXCEPT !.todo = @ \ {n}, !.due = @ \ {n}]
  <2>1. fill' = [fill EXCEPT ![t] = f] /\ fill[t].pc = "listed" /\ UNCHANGED details
    BY <1>1, <1>8 DEF PutFails
  <2>2. /\ f \in Filler /\ f.pc = "listed" /\ f.todo = fill[t].todo \ {n} /\ f.due = fill[t].due \ {n}
        /\ f.known = fill[t].known
    BY <1>1, <2>1 DEF Filler
  <2> HIDE DEF f
  <2>3. /\ fill' \in [Fillers -> Filler] /\ fill'[t] = f
        /\ \A u \in Fillers : u /= t => fill'[u] = fill[u]
    BY <1>2, <2>1, <2>2
  <2>4. CASE t = "details"
    BY <1>1, <1>3, <2>1, <2>2, <2>3, <2>4 DEF LedgerInv, FillInv
  <2>5. CASE t = "heights"
    BY <1>1, <1>3, <2>1, <2>2, <2>3, <2>5 DEF LedgerInv, FillInv
  <2> QED
    BY <1>1, <2>4, <2>5
<1>9. CASE EndFill(t) \/ FillDies(t)
  <2>1. fill' = [fill EXCEPT ![t] = NoFill] /\ UNCHANGED details
    BY <1>9 DEF EndFill, FillDies
  <2>2. NoFill \in Filler /\ NoFill.pc = "off" /\ NoFill.todo = {} /\ NoFill.due = {}
    <3>1. <<>> \in [{} -> {0, 1}]
      OBVIOUS
    <3>2. <<>> \in Known
      BY <3>1 DEF Known
    <3> QED
      BY <3>2 DEF NoFill, Filler
  <2>3. /\ fill' \in [Fillers -> Filler] /\ fill'[t] = NoFill
        /\ \A u \in Fillers : u /= t => fill'[u] = fill[u]
    BY <1>2, <2>1, <2>2
  <2> QED
    BY <1>1, <1>3, <2>1, <2>2, <2>3 DEF LedgerInv, FillInv
<1> QED
  BY <1>5, <1>6, <1>7, <1>8, <1>9 DEF Fill

LEMMA FillStep ==
    ASSUME LedgerInv, [Next]_vars
    PROVE  FillInv'
<1>1. ASSUME UNCHANGED <<details, fill>> PROVE FillInv'
  BY <1>1, FillKept DEF LedgerInv, FillInv
<1>2. CASE Store
  <2>1. UNCHANGED fill
    BY <1>2 DEF Store
  <2> QED
    BY <1>2, <2>1, StoreDetails, FillKept
<1>3. ASSUME NEW a \in Addr, Credit(a) PROVE UNCHANGED <<details, fill>>
  BY <1>3 DEF Credit
<1>4. ASSUME NEW n \in Ids, Outcome(n) PROVE UNCHANGED <<details, fill>>
  BY <1>4 DEF Outcome
<1>5. ASSUME NEW p \in Passes, Reset(p) PROVE UNCHANGED <<details, fill>>
  BY <1>5 DEF Reset, StartReset, Look, LookFails, CreditBack, CreditFails, CreditLost, EndReset,
          ResetDies
<1>6. ASSUME Send \/ Book \/ Ask \/ Skip \/ UNCHANGED vars PROVE UNCHANGED <<details, fill>>
  BY <1>6 DEF Send, Book, Ask, Skip, vars
<1> QED
  BY <1>1, <1>2, <1>3, <1>4, <1>5, <1>6, FillMoves DEF Next

LEMMA LedgerStep == LedgerInv /\ [Next]_vars => LedgerInv'
<1> SUFFICES ASSUME LedgerInv, [Next]_vars PROVE LedgerInv'
  OBVIOUS
<1>1. WalletInv' /\ Onward
  BY WalletStep
<1> QED
  BY <1>1, ResultsStep, RowsStep, ResetStep, FillStep DEF LedgerInv
-----------------------------------------------------------------------------
(* Sums of payments and of results.                                        *)

LEMMA AmountOne == ASSUME NEW x, x.amount \in Nat PROVE AmountOf({x}) = x.amount
<1>1. HasAmounts({}) /\ {} \cup {x} = {x} /\ x \notin {}
  BY FS_EmptySet DEF HasAmounts
<1> QED
  BY <1>1, AmountAdd, AmountEmpty

LEMMA OpenSums ==
    ASSUME WalletInv, NEW a
    PROVE  HasAmounts(sent) /\ HasAmounts(Open(a)) /\ AmountOf(Open(a)) \in Nat
<1>1. HasAmounts(sent)
  BY DEF WalletInv, HasAmounts, Positive
<1>2. HasAmounts(Open(a))
  BY <1>1, FS_Subset DEF HasAmounts, Open
<1> QED
  BY <1>1, <1>2, AmountNat

(* An address has one result in hand at most.                              *)
LEMMA ToBookOne ==
    ASSUME ResultsInv, NEW j, Pending(j)
    PROVE  /\ ToBook(results[j].owner) = results[j].amount
           /\ results[j].amount \in Positive /\ results[j].owner \in Addr /\ j \in DOMAIN results
<1>1. phase = "book" /\ j \in k..Len(results) /\ results[j].success /\ k \in Nat
  BY DEF Pending, ResultsInv
<1>2. /\ k \in DOMAIN results /\ DOMAIN results = 1..Len(results) /\ Len(results) \in Nat
      /\ \A m \in DOMAIN results :
           results[m] \in [id : Ids \cup {Unset}, owner : Addr, amount : Positive, success : BOOLEAN]
  BY <1>1, AtHand
<1>3. j \in DOMAIN results /\ k..Len(results) \subseteq DOMAIN results
  BY <1>1, <1>2
<1>4. \A m \in k..Len(results) : results[m].owner = results[j].owner => m = j
  BY <1>3 DEF ResultsInv
<1>5. {m \in k..Len(results) : /\ phase = "book" /\ results[m].success
                               /\ results[m].owner = results[j].owner} = {j}
  BY <1>1, <1>4
<1>6. ToBook(results[j].owner) = AmountOf({results[j]})
  BY <1>5 DEF ToBook
<1>7. results[j].amount \in Positive /\ results[j].owner \in Addr
  BY <1>2, <1>3
<1> QED
  BY <1>3, <1>6, <1>7, AmountOne DEF Positive

LEMMA ToBookNone ==
    ASSUME NEW a, \A j : Pending(j) => results[j].owner /= a
    PROVE  ToBook(a) = 0
<1>1. {results[j] : j \in {m \in k..Len(results) : /\ phase = "book" /\ results[m].success
                                                   /\ results[m].owner = a}} = {}
  BY DEF Pending
<1> QED
  BY <1>1, AmountEmpty DEF ToBook

LEMMA ToBookNat == ASSUME ResultsInv, NEW a PROVE ToBook(a) \in Nat
<1>1. CASE \E j : Pending(j) /\ results[j].owner = a
  BY <1>1, ToBookOne DEF Positive
<1>2. CASE ~\E j : Pending(j) /\ results[j].owner = a
  BY <1>2, ToBookNone
<1> QED
  BY <1>1, <1>2

(* What is to be booked is open, so what is owed is what was credited, at  *)
(* most.                                                                   *)
LEMMA ToBookOpen ==
    ASSUME LedgerInv, NEW a \in Addr
    PROVE  ToBook(a) <= AmountOf(Open(a))
<1>1. ToBook(a) \in Nat /\ AmountOf(Open(a)) \in Nat /\ HasAmounts(Open(a))
  BY ToBookNat, OpenSums DEF LedgerInv
<1>2. CASE \E j : Pending(j) /\ results[j].owner = a
  <2>1. PICK j : Pending(j) /\ results[j].owner = a
    BY <1>2
  <2>2. ToBook(a) = results[j].amount /\ results[j].amount \in Nat /\ j \in DOMAIN results
    BY <2>1, ToBookOne DEF LedgerInv, Positive
  <2> DEFINE s == PaymentOf(results[j].id, results[j])
  <2>3. s \in sent
    BY <2>1, <2>2 DEF Pending, LedgerInv, ResultsInv
  <2>4. s.owner = a /\ s.amount = results[j].amount /\ InHand(s)
    BY <2>1 DEF PaymentOf, InHand, Pending
  <2>5. s \in Open(a)
    BY <2>3, <2>4 DEF Open, Held
  <2> HIDE DEF s
  <2>6. AmountOf({s}) = s.amount
    BY <2>2, <2>4, AmountOne
  <2>7. AmountOf({s}) <= AmountOf(Open(a))
    BY <1>1, <2>5, AmountMonotone
  <2> QED
    BY <2>2, <2>4, <2>6, <2>7
<1>3. CASE ~\E j : Pending(j) /\ results[j].owner = a
  BY <1>1, <1>3, ToBookNone
<1> QED
  BY <1>2, <1>3

LEMMA BalanceCap ==
    ASSUME LedgerInv, OnceOnly, NEW a \in Addr
    PROVE  balance[a] \in Int /\ balance[a] <= credited[a] /\ credited[a] \in 0..MaxCredit
<1>1. balance[a] \in Int /\ credited[a] \in 0..MaxCredit
  BY DEF LedgerInv, WalletInv
<1>2. ToBook(a) \in Nat /\ AmountOf(Open(a)) \in Nat /\ ToBook(a) <= AmountOf(Open(a))
  BY ToBookNat, OpenSums, ToBookOpen DEF LedgerInv
<1>3. AmountOf(Open(a)) + balance[a] - ToBook(a) <= credited[a]
  BY DEF OnceOnly
<1> QED
  BY <1>1, <1>2, <1>3, LedgerAssumption

LEMMA OpenShrinks ==
    ASSUME LedgerInv, UNCHANGED sent, \A s \in sent : Held(s)' => Held(s), NEW a
    PROVE  Open(a)' \subseteq Open(a) /\ AmountOf(Open(a)') <= AmountOf(Open(a))
<1>1. Open(a)' \in SUBSET Open(a)
  BY DEF Open
<1>2. HasAmounts(Open(a))
  BY OpenSums DEF LedgerInv
<1> QED
  BY <1>1, <1>2, AmountMonotone
-----------------------------------------------------------------------------
(* The steps of the money.  Two passes that have seen the same row would   *)
(* both credit it: what follows is of passes that are run one at a time.   *)
OnePass == \A p, q \in Passes : p = q

(* Whatever leaves the money and what is to be booked alone, and gives a   *)
(* pass nothing new to hold.                                               *)
LEMMA MoneyStays ==
    ASSUME MoneyInv, UNCHANGED money, UNCHANGED transactions,
           \/ results' = results /\ k' = k /\ phase' = phase
           \/ (results' = results \/ results' = <<>>) /\ phase /= "book" /\ phase' /= "book",
           \A p \in Passes : \A row \in reset'[p].seen : row \in reset[p].seen /\ reset'[p].id = reset[p].id
    PROVE  Covered' /\ Bounded' /\ OnceOnly'
<1>1. UNCHANGED <<credited, balance, wallet, sent, transactions>>
  BY DEF money
<1>2. \A j : (Pending(j)' <=> Pending(j)) /\ (Pending(j) => UNCHANGED results)
  BY <1>1 DEF Pending
<1>7. \A j \in DOMAIN results' : j \in DOMAIN results /\ results'[j] = results[j]
  OBVIOUS
<1>3. Covered'
  BY <1>1, <1>2, <1>7 DEF MoneyInv, Covered
<1>4. Bounded'
  BY <1>1, <1>7 DEF MoneyInv, Bounded
<1>5. ASSUME NEW s \in sent, Held(s)' PROVE Held(s)
  <2>1. InHand(s)' => InHand(s)
    BY <1>1 DEF InHand
  <2>2. Booked(s)' => Booked(s)
    BY <1>1 DEF Booked, Successful
  <2>3. Seen(s)' => Seen(s)
    BY DEF Seen
  <2> QED
    BY <1>1, <1>5, <2>1, <2>2, <2>3 DEF Held
<1>6. ASSUME NEW a \in Addr
      PROVE  AmountOf(Open(a)') + balance'[a] - ToBook(a)' <= credited'[a]
  <2>1. AmountOf(Open(a)') <= AmountOf(Open(a)) /\ Open(a)' \subseteq Open(a)
    BY <1>1, <1>5, OpenShrinks DEF MoneyInv
  <2>2. ToBook(a)' = ToBook(a)
    <3>1. {results'[j] : j \in {m \in k'..Len(results') : /\ phase' = "book" /\ results'[m].success
                                                         /\ results'[m].owner = a}}
            = {results[j] : j \in {m \in k..Len(results) : /\ phase = "book" /\ results[m].success
                                                           /\ results[m].owner = a}}
      BY <1>1
    <3> QED
      BY <3>1 DEF ToBook
  <2>3. AmountOf(Open(a)) \in Nat /\ AmountOf(Open(a)') \in Nat /\ ToBook(a) \in Nat
    <3>1. HasAmounts(Open(a))
      BY OpenSums DEF MoneyInv, LedgerInv
    <3>2. HasAmounts(Open(a)')
      BY <2>1, <3>1, FS_Subset DEF HasAmounts
    <3> QED
      BY <3>1, <3>2, AmountNat, ToBookNat DEF MoneyInv, LedgerInv
  <2>4. balance[a] \in Int /\ credited[a] \in Int /\ AmountOf(Open(a)) + balance[a] - ToBook(a) <= credited[a]
    BY DEF MoneyInv, LedgerInv, WalletInv, OnceOnly
  <2> QED
    BY <1>1, <2>1, <2>2, <2>3, <2>4
<1> QED
  BY <1>3, <1>4, <1>6 DEF OnceOnly

(* What is known of ToBook, in any state.                                  *)
Bills ==
    /\ \A j : Pending(j) => ToBook(results[j].owner) = results[j].amount
    /\ \A a : (\A j : Pending(j) => results[j].owner /= a) => ToBook(a) = 0
LEMMA BillsHold == ResultsInv => Bills
BY ToBookOne, ToBookNone DEF Bills
LEMMA BillsAfter == ResultsInv' => Bills'
BY BillsHold, PTL

LEMMA MoneyTypes ==
    ASSUME LedgerInv, NEW a \in Addr
    PROVE  /\ AmountOf(Open(a)) \in Nat /\ ToBook(a) \in Nat
           /\ balance[a] \in Int /\ credited[a] \in Int
           /\ \A T \in SUBSET Open(a) : AmountOf(T) \in Nat
<1>1. HasAmounts(Open(a))
  BY OpenSums DEF LedgerInv
<1>2. \A T \in SUBSET Open(a) : HasAmounts(T)
  BY <1>1, FS_Subset DEF HasAmounts
<1> QED
  BY <1>1, <1>2, AmountNat, ToBookNat DEF LedgerInv, WalletInv

LEMMA CreditMoney ==
    ASSUME MoneyInv, NEW x \in Addr, Credit(x)
    PROVE  Covered' /\ Bounded' /\ OnceOnly'
<1>1. /\ UNCHANGED <<wallet, sent, results, k, phase, transactions, reset>>
      /\ credited' = [credited EXCEPT ![x] = @ + 1] /\ balance' = [balance EXCEPT ![x] = @ + 1]
  BY DEF Credit, daemon
<1>2. LedgerInv /\ balance \in [Addr -> Int] /\ credited \in [Addr -> 0..MaxCredit]
  BY DEF MoneyInv, LedgerInv, WalletInv
<1>3. \A a \in Addr : /\ balance'[a] = (IF a = x THEN balance[a] + 1 ELSE balance[a])
                      /\ balance[a] \in Int /\ balance'[a] >= balance[a] /\ balance'[a] \in Int
  BY <1>1, <1>2
<1>4. \A a \in Addr : credited'[a] = (IF a = x THEN credited[a] + 1 ELSE credited[a]) /\ credited[a] \in Int
  BY <1>1, <1>2
<1>5. Covered'
  <2> SUFFICES ASSUME NEW j \in DOMAIN results, Pending(j)'
               PROVE  (/\ results[j].amount <= balance[results[j].owner]
                       /\ results[j].id \in DOMAIN transactions =>
                            transactions[results[j].id].owner /= results[j].owner
                       /\ \A p \in Passes : \A row \in reset[p].seen :
                            reset[p].id = results[j].id => row.owner /= results[j].owner)'
    BY <1>1 DEF Covered
  <2>1. Pending(j)
    BY <1>1 DEF Pending
  <2>2. results[j].amount \in Positive /\ results[j].owner \in Addr
    BY <1>2, <2>1, ToBookOne DEF LedgerInv
  <2>3. results[j].amount <= balance'[results[j].owner]
    BY <1>3, <2>1, <2>2 DEF MoneyInv, Covered, Positive
  <2> QED
    BY <1>1, <2>1, <2>3 DEF MoneyInv, Covered
<1>6. Bounded'
  <2>1. \A a \in Addr : balance'[a] >= 0
    BY <1>3 DEF MoneyInv, Bounded
  <2> QED
    BY <1>1, <2>1 DEF MoneyInv, Bounded
<1>7. ASSUME NEW a \in Addr
      PROVE  AmountOf(Open(a)') + balance'[a] - ToBook(a)' <= credited'[a]
  <2>1. Open(a)' = Open(a)
    BY <1>1 DEF Open, Held, InHand, Booked, Seen, Successful
  <2>2. ToBook(a)' = ToBook(a)
    BY <1>1 DEF ToBook
  <2>3. AmountOf(Open(a)) \in Nat /\ ToBook(a) \in Nat
    BY <1>2, MoneyTypes
  <2>4. AmountOf(Open(a)) + balance[a] - ToBook(a) <= credited[a]
    BY DEF MoneyInv, OnceOnly
  <2> QED
    BY <1>3, <1>4, <2>1, <2>2, <2>3, <2>4
<1> QED
  BY <1>5, <1>6, <1>7 DEF OnceOnly

LEMMA OutcomeMoney ==
    ASSUME MoneyInv, NEW n \in Ids, Outcome(n)
    PROVE  Covered' /\ Bounded' /\ OnceOnly'
<1>1. UNCHANGED <<credited, balance, sent, results, k, phase, transactions, reset>>
  BY DEF Outcome, daemon
<1>2. LedgerInv /\ \A m \in Ids : wallet[m] = "rejected" => wallet'[m] = "rejected"
  BY DEF MoneyInv, LedgerInv, WalletInv, Outcome
<1>3. Covered' /\ Bounded'
  BY <1>1 DEF MoneyInv, Covered, Bounded, Pending
<1>4. ASSUME NEW s \in sent, Held(s)' PROVE Held(s)
  <2>1. s.id \in Ids
    BY <1>2 DEF LedgerInv, WalletInv
  <2> QED
    BY <1>1, <1>2, <1>4, <2>1 DEF Held, InHand, Booked, Seen, Successful
<1>5. ASSUME NEW a \in Addr
      PROVE  AmountOf(Open(a)') + balance'[a] - ToBook(a)' <= credited'[a]
  <2>1. Open(a)' \subseteq Open(a) /\ AmountOf(Open(a)') <= AmountOf(Open(a))
    BY <1>1, <1>2, <1>4, OpenShrinks
  <2>2. ToBook(a)' = ToBook(a)
    BY <1>1 DEF ToBook
  <2>3. /\ AmountOf(Open(a)) \in Nat /\ AmountOf(Open(a)') \in Nat /\ ToBook(a) \in Nat
        /\ balance[a] \in Int /\ credited[a] \in Int
    BY <1>2, <2>1, MoneyTypes
  <2>4. AmountOf(Open(a)) + balance[a] - ToBook(a) <= credited[a]
    BY DEF MoneyInv, OnceOnly
  <2> QED
    BY <1>1, <2>1, <2>2, <2>3, <2>4
<1> QED
  BY <1>3, <1>5 DEF OnceOnly

(* A send adds a payment under a name nobody knows: the balance it is of   *)
(* is still there, and to be booked.                                       *)
LEMMA SendMoney ==
    ASSUME MoneyInv, LedgerInv', Send
    PROVE  Covered' /\ Bounded' /\ OnceOnly'
<1>1. LedgerInv
  BY DEF MoneyInv
<1>2. PICK S, accepted, order, id : Sends(S, accepted, order, id)
  BY <1>1, SendSends
<1>3. /\ DOMAIN results' = 1..Cardinality(S) /\ Len(results') = Cardinality(S)
      /\ Cardinality(S) \in Nat \ {0}
      /\ \A a \in accepted : id[a] \in Fresh /\ id[a] \in Range(id) /\ a \in Addr
      /\ Range(id) \subseteq Fresh /\ Fresh \subseteq Ids
      /\ \A a \in S : \E j \in 1..Cardinality(S) : order[j] = a
  BY <1>1, <1>2, SendFacts
<1>4. \A j \in 1..Cardinality(S) :
          /\ results'[j].owner = order[j] /\ order[j] \in S
          /\ results'[j].amount = balance[order[j]]
          /\ results'[j].success <=> order[j] \in accepted
          /\ results'[j].id = IF order[j] \in accepted THEN id[order[j]] ELSE Unset
  BY <1>1, <1>2, SendFacts
<1>5. /\ phase = "idle" /\ phase' = "book" /\ k' = 1
      /\ UNCHANGED <<credited, balance, transactions, reset>>
      /\ sent' = sent \cup {[id |-> id[a], owner |-> a, amount |-> balance[a]] : a \in accepted}
      /\ wallet' = [n \in Ids |-> IF n \in Range(id) THEN "pending" ELSE wallet[n]]
      /\ S \in SUBSET Addr /\ accepted \in SUBSET S
  BY <1>2 DEF Sends
<1>6. \A n \in Range(id) : wallet[n] = "unused" /\ n \notin DOMAIN transactions /\ n \in Ids
  BY <1>3 DEF Fresh
<1>7. \A s \in sent : s.id \in Ids /\ wallet[s.id] /= "unused" /\ s.id \notin Range(id) /\ s.amount \in Nat
  BY <1>1, <1>6 DEF LedgerInv, WalletInv, Positive
<1>8. ASSUME NEW j, Pending(j)'
      PROVE  /\ j \in 1..Cardinality(S) /\ j \in DOMAIN results' /\ order[j] \in accepted
             /\ results'[j].owner = order[j] /\ results'[j].amount = balance[order[j]]
             /\ results'[j].id = id[order[j]] /\ results'[j].id \in Range(id)
  <2>1. j \in 1..Cardinality(S) /\ results'[j].success
    BY <1>3, <1>5, <1>8 DEF Pending
  <2> QED
    BY <1>3, <1>4, <2>1
<1>9. \A a \in Addr : balance[a] \in Int /\ balance[a] <= MaxCredit
  BY <1>1, BalanceCap, LedgerAssumption DEF MoneyInv
<1>10. Covered'
  <2> SUFFICES ASSUME NEW j \in DOMAIN results', Pending(j)'
               PROVE  (/\ results[j].amount <= balance[results[j].owner]
                       /\ results[j].id \in DOMAIN transactions =>
                            transactions[results[j].id].owner /= results[j].owner
                       /\ \A p \in Passes : \A row \in reset[p].seen :
                            reset[p].id = results[j].id => row.owner /= results[j].owner)'
    BY DEF Covered
  <2>1. results'[j].amount <= balance'[results'[j].owner]
    <3>1. order[j] \in Addr
      BY <1>5, <1>8
    <3> QED
      BY <1>5, <1>8, <1>9, <3>1
  <2>2. results'[j].id \notin DOMAIN transactions'
    BY <1>5, <1>6, <1>8
  <2>3. ASSUME NEW p \in Passes, NEW row \in reset[p].seen PROVE reset[p].id /= results'[j].id
    <3>1. PaymentOf(reset[p].id, row) \in sent
      BY <1>1 DEF LedgerInv, ResetInv, PassInv
    <3>2. PaymentOf(reset[p].id, row).id = reset[p].id
      BY DEF PaymentOf
    <3> QED
      BY <1>7, <1>8, <3>1, <3>2
  <2> QED
    BY <1>5, <2>1, <2>2, <2>3
<1>11. Bounded'
  <2>1. ASSUME NEW s \in sent' PROVE s.amount <= MaxCredit
    <3>1. CASE s \in sent
      BY <3>1 DEF MoneyInv, Bounded
    <3>2. CASE s \notin sent
      <4>1. PICK a \in accepted : s = [id |-> id[a], owner |-> a, amount |-> balance[a]]
        BY <1>5, <3>2
      <4> QED
        BY <1>3, <1>9, <4>1
    <3> QED
      BY <3>1, <3>2
  <2>2. ASSUME NEW j \in DOMAIN results' PROVE results'[j].amount <= MaxCredit
    <3>1. results'[j].amount = balance[order[j]] /\ order[j] \in Addr
      BY <1>3, <1>4, <1>5
    <3> QED
      BY <1>9, <3>1
  <2> QED
    BY <1>5, <2>1, <2>2 DEF MoneyInv, Bounded
<1>12. ASSUME NEW s \in sent, Held(s)' PROVE Held(s)
  <2>1. wallet'[s.id] = wallet[s.id]
    BY <1>5, <1>7
  <2>2. ~InHand(s)'
    <3> SUFFICES ASSUME NEW j, Pending(j)', PaymentOf(results'[j].id, results'[j]) = s PROVE FALSE
      BY DEF InHand, Pending
    <3>1. s.id = results'[j].id
      BY DEF PaymentOf
    <3> QED
      BY <1>7, <1>8, <3>1
  <2>3. Booked(s)' => Booked(s)
    BY <1>5 DEF Booked, Successful
  <2>4. Seen(s)' => Seen(s)
    BY <1>5 DEF Seen
  <2> QED
    BY <1>12, <2>1, <2>2, <2>3, <2>4 DEF Held
<1>13. ASSUME NEW a \in Addr
       PROVE  AmountOf(Open(a)') + balance'[a] - ToBook(a)' <= credited'[a]
  <2>1. AmountOf(Open(a)) \in Nat /\ HasAmounts(Open(a)) /\ balance[a] \in Int /\ credited[a] \in Int
    BY <1>1, MoneyTypes, OpenSums DEF LedgerInv
  <2>2. ToBook(a) = 0
    <3>1. \A j : ~Pending(j)
      BY <1>5 DEF Pending
    <3> QED
      BY <3>1, ToBookNone
  <2>3. AmountOf(Open(a)) + balance[a] <= credited[a]
    <3>1. AmountOf(Open(a)) + balance[a] - ToBook(a) <= credited[a]
      BY DEF MoneyInv, OnceOnly
    <3> QED
      BY <2>1, <2>2, <3>1
  <2>4. Bills'
    BY BillsAfter DEF LedgerInv
  <2> DEFINE T == {s \in Open(a)' : s \in sent}
  <2>5. T \in SUBSET Open(a)
    BY <1>12 DEF Open
  <2>6. AmountOf(T) <= AmountOf(Open(a)) /\ HasAmounts(T) /\ AmountOf(T) \in Nat
    <3> HIDE DEF T
    <3>1. HasAmounts(T)
      BY <2>1, <2>5, FS_Subset DEF HasAmounts
    <3> QED
      BY <2>1, <2>5, <3>1, AmountMonotone, AmountNat
  <2>7. CASE a \in accepted
    <3> DEFINE x == [id |-> id[a], owner |-> a, amount |-> balance[a]]
    <3>1. x \notin sent /\ x \in sent' /\ x.amount = balance[a] /\ x.owner = a /\ x.id = id[a]
      <4>1. x.id = id[a]
        OBVIOUS
      <4> QED
        BY <1>3, <1>5, <1>7, <2>7, <4>1
    <3>2. \A s \in sent' : s.owner = a /\ s \notin sent => s = x
      BY <1>5
    <3>3. balance[a] \in Nat
      BY <2>1 DEF MoneyInv, Bounded
    <3> HIDE DEF x
    <3>4. Open(a)' \subseteq T \cup {x} /\ x \notin T
      BY <3>1, <3>2 DEF Open
    <3>5. wallet'[id[a]] = "pending"
      BY <1>3, <1>5, <2>7
    <3>6. x \in Open(a)'
      BY <3>1, <3>5 DEF Open, Held
    <3>7. Open(a)' = T \cup {x}
      BY <3>4, <3>6
    <3>8. AmountOf(Open(a)') = AmountOf(T) + balance[a]
      <4> HIDE DEF T
      <4> QED
        BY <2>6, <3>1, <3>3, <3>4, <3>7, AmountAdd
    <3>9. ToBook(a)' = balance[a]
      <4>1. PICK j \in 1..Cardinality(S) : order[j] = a
        BY <1>3, <1>5, <2>7
      <4>2. Pending(j)' /\ results'[j].owner = a /\ results'[j].amount = balance[a]
        BY <1>3, <1>4, <1>5, <2>7, <4>1 DEF Pending
      <4> QED
        BY <2>4, <4>2 DEF Bills
    <3> HIDE DEF T
    <3> QED
      BY <1>5, <2>1, <2>3, <2>6, <3>3, <3>8, <3>9
  <2>8. CASE a \notin accepted
    <3>1. Open(a)' = T
      <4>1. \A s \in sent' : s.owner = a => s \in sent
        BY <1>5, <2>8
      <4> QED
        BY <4>1 DEF Open
    <3>2. ToBook(a)' = 0
      <4>1. \A j : Pending(j)' => results'[j].owner /= a
        BY <1>8, <2>8
      <4> QED
        BY <2>4, <4>1 DEF Bills
    <3> HIDE DEF T
    <3> QED
      BY <1>5, <2>1, <2>3, <2>6, <3>1, <3>2
  <2> QED
    BY <2>7, <2>8
<1> QED
  BY <1>10, <1>11, <1>13 DEF OnceOnly

(* A booking moves a payment from the results to the rows, and its amount  *)
(* off the balance.                                                        *)
LEMMA BookMoney ==
    ASSUME MoneyInv, LedgerInv', Book
    PROVE  Covered' /\ Bounded' /\ OnceOnly'
<1> SUFFICES ASSUME NEW r, r = results[k], NEW n, n = RowId(r.id)
             PROVE  Covered' /\ Bounded' /\ OnceOnly'
  OBVIOUS
<1>1. LedgerInv
  BY DEF MoneyInv
<1>2. /\ r \in [id : Ids \cup {Unset}, owner : Addr, amount : Positive, success : BOOLEAN]
      /\ k \in DOMAIN results /\ DOMAIN results = 1..Len(results) /\ Len(results) \in Nat
      /\ r.success => n = r.id /\ PaymentOf(n, r) \in sent
      /\ results' = results
      /\ IF k < Len(results) THEN k' = k + 1 /\ phase' = "book" ELSE k' = 1 /\ phase' = "scan"
  BY <1>1, BookFacts
<1>3. /\ phase = "book" /\ UNCHANGED <<credited, wallet, sent>>
      /\ balance' = (IF r.success THEN [balance EXCEPT ![r.owner] = @ - r.amount] ELSE balance)
      /\ reset' = [p \in Passes |-> [reset[p] EXCEPT !.due = @ \ {n}]]
  BY DEF Book
<1> DEFINE row == [owner |-> r.owner, amount |-> r.amount, success |-> r.success]
<1>4. transactions' = [m \in DOMAIN transactions \cup {n} |-> IF m = n THEN row ELSE transactions[m]]
  BY DEF Book, Upsert
<1>5. row.owner = r.owner /\ row.amount = r.amount /\ row.success = r.success
  OBVIOUS
<1> HIDE DEF row
<1>6. /\ DOMAIN transactions' = DOMAIN transactions \cup {n} /\ transactions'[n] = row
      /\ \A m \in DOMAIN transactions : m /= n => transactions'[m] = transactions[m]
  BY <1>4
<1>7. \A p \in Passes : reset'[p].seen = reset[p].seen /\ reset'[p].id = reset[p].id
  <2> SUFFICES ASSUME NEW p \in Passes
               PROVE  reset'[p].seen = reset[p].seen /\ reset'[p].id = reset[p].id
    OBVIOUS
  <2>1. reset[p] \in Pass /\ reset'[p] = [reset[p] EXCEPT !.due = @ \ {n}]
    BY <1>1, <1>3 DEF LedgerInv, ResetInv
  <2> QED
    BY <2>1 DEF Pass
<1>8. \A j : Pending(j)' => Pending(j) /\ j /= k /\ j \in DOMAIN results
  BY <1>2, <1>3 DEF Pending
<1>9. \A j : Pending(j) /\ j /= k => Pending(j)'
  BY <1>2, <1>3 DEF Pending
<1>10. \A j \in DOMAIN results : j /= k => results[j].owner /= r.owner
  BY <1>1, <1>2 DEF LedgerInv, ResultsInv
<1>11. balance \in [Addr -> Int] /\ r.amount \in Nat /\ r.amount \in Int /\ r.owner \in Addr
  BY <1>1, <1>2 DEF LedgerInv, WalletInv, Positive
<1>12. \A a \in Addr : balance'[a] = IF r.success /\ a = r.owner THEN balance[a] - r.amount ELSE balance[a]
  <2>1. CASE r.success
    BY <1>3, <1>11, <2>1, Shifted
  <2>2. CASE ~r.success
    BY <1>3, <2>2
  <2> QED
    BY <2>1, <2>2
<1>13. r.success => Pending(k)
  BY <1>2, <1>3 DEF Pending
<1>14. Covered'
  <2> SUFFICES ASSUME NEW j \in DOMAIN results', Pending(j)'
               PROVE  (/\ results[j].amount <= balance[results[j].owner]
                       /\ results[j].id \in DOMAIN transactions =>
                            transactions[results[j].id].owner /= results[j].owner
                       /\ \A p \in Passes : \A x \in reset[p].seen :
                            reset[p].id = results[j].id => x.owner /= results[j].owner)'
    BY DEF Covered
  <2>1. Pending(j) /\ j /= k /\ j \in DOMAIN results /\ results[j].owner /= r.owner
    BY <1>8, <1>10
  <2>2. /\ results[j].amount <= balance[results[j].owner]
        /\ results[j].id \in DOMAIN transactions =>
             transactions[results[j].id].owner /= results[j].owner
        /\ \A p \in Passes : \A x \in reset[p].seen :
             reset[p].id = results[j].id => x.owner /= results[j].owner
    BY <2>1 DEF MoneyInv, Covered
  <2>3. results[j].owner \in Addr
    BY <1>1, <2>1, ToBookOne DEF LedgerInv
  <2>4. results[j].amount <= balance'[results[j].owner]
    BY <1>12, <2>1, <2>2, <2>3
  <2>5. results[j].id \in DOMAIN transactions' => transactions'[results[j].id].owner /= results[j].owner
    BY <1>5, <1>6, <2>1, <2>2
  <2> QED
    BY <1>2, <1>7, <2>2, <2>4, <2>5
<1>15. Bounded'
  <2>1. r.success => r.amount <= balance[r.owner]
    BY <1>2, <1>13 DEF MoneyInv, Covered
  <2>2. \A a \in Addr : balance[a] \in Int /\ balance[a] >= 0
    BY <1>11 DEF MoneyInv, Bounded
  <2>3. \A a \in Addr : balance'[a] >= 0
    BY <1>11, <1>12, <2>1, <2>2
  <2>4. row.amount <= MaxCredit
    BY <1>2, <1>5 DEF MoneyInv, Bounded
  <2>5. \A m \in DOMAIN transactions' : transactions'[m].amount <= MaxCredit
    BY <1>6, <2>4 DEF MoneyInv, Bounded
  <2> QED
    BY <1>2, <1>3, <2>3, <2>5 DEF MoneyInv, Bounded
<1>16. ASSUME NEW s \in sent, Held(s)' PROVE Held(s)
  <2>1. InHand(s)' => InHand(s)
    BY <1>2, <1>3, <1>8 DEF InHand, Pending
  <2>2. Booked(s)' => Booked(s) \/ InHand(s)
    <3> SUFFICES ASSUME Booked(s)' PROVE Booked(s) \/ InHand(s)
      OBVIOUS
    <3>1. s.id \in DOMAIN transactions' /\ transactions'[s.id].success /\ PaymentOf(s.id, transactions'[s.id]) = s
      BY DEF Booked, Successful
    <3>2. CASE s.id = n
      <4>1. r.success /\ PaymentOf(r.id, r) = s
        BY <1>2, <1>5, <1>6, <3>1, <3>2 DEF PaymentOf
      <4> QED
        BY <1>13, <4>1 DEF InHand, Pending
    <3>3. CASE s.id /= n
      BY <1>6, <3>1, <3>3 DEF Booked, Successful
    <3> QED
      BY <3>2, <3>3
  <2>3. Seen(s)' => Seen(s)
    BY <1>7 DEF Seen
  <2> QED
    BY <1>3, <1>16, <2>1, <2>2, <2>3 DEF Held
<1>17. ASSUME NEW a \in Addr
       PROVE  AmountOf(Open(a)') + balance'[a] - ToBook(a)' <= credited'[a]
  <2>1. Open(a)' \subseteq Open(a) /\ AmountOf(Open(a)') <= AmountOf(Open(a))
    BY <1>1, <1>3, <1>16, OpenShrinks
  <2>2. /\ AmountOf(Open(a)) \in Nat /\ AmountOf(Open(a)') \in Nat /\ ToBook(a) \in Nat
        /\ balance[a] \in Int /\ credited[a] \in Int
    BY <1>1, <2>1, MoneyTypes
  <2>3. AmountOf(Open(a)) + balance[a] - ToBook(a) <= credited[a]
    BY DEF MoneyInv, OnceOnly
  <2>4. Bills /\ Bills'
    BY <1>1, BillsHold, BillsAfter DEF LedgerInv
  <2>5. balance'[a] - ToBook(a)' = balance[a] - ToBook(a) /\ ToBook(a)' \in Nat
    <3>1. CASE r.success /\ a = r.owner
      <4>1. ToBook(a) = r.amount
        BY <1>2, <1>13, <2>4, <3>1 DEF Bills
      <4>2. ToBook(a)' = 0
        <5>1. \A j : Pending(j)' => results'[j].owner /= a
          BY <1>2, <1>8, <1>10, <3>1
        <5> QED
          BY <2>4, <5>1 DEF Bills
      <4> QED
        BY <1>11, <1>12, <2>2, <3>1, <4>1, <4>2
    <3>2. CASE ~(r.success /\ a = r.owner)
      <4>1. ToBook(a)' = ToBook(a)
        <5>1. CASE \E j : Pending(j) /\ results[j].owner = a
          <6>1. PICK j : Pending(j) /\ results[j].owner = a
            BY <5>1
          <6>2. j /= k
            BY <3>2, <6>1 DEF Pending
          <6>3. Pending(j)' /\ results'[j] = results[j]
            BY <1>2, <1>9, <6>1, <6>2
          <6> QED
            BY <2>4, <6>1, <6>3 DEF Bills
        <5>2. CASE ~\E j : Pending(j) /\ results[j].owner = a
          <6>1. \A j : Pending(j)' => results'[j].owner /= a
            BY <1>2, <1>8, <5>2
          <6> QED
            BY <2>4, <5>2, <6>1 DEF Bills
        <5> QED
          BY <5>1, <5>2
      <4> QED
        BY <1>12, <2>2, <3>2, <4>1
    <3> QED
      BY <3>1, <3>2
  <2>6. balance'[a] \in Int
    BY <1>11, <1>12, <2>2
  <2> QED
    BY <1>3, <2>1, <2>2, <2>3, <2>5, <2>6
<1> QED
  BY <1>14, <1>15, <1>17 DEF OnceOnly

(* A pass takes in hand what a row has as a success: that was open, and is *)
(* not to be booked any more.                                              *)
LEMMA LookMoney ==
    ASSUME MoneyInv, LedgerInv', NEW p \in Passes, NEW n \in Ids, Look(p, n)
    PROVE  Covered' /\ Bounded' /\ OnceOnly'
<1>1. LedgerInv /\ reset \in [Passes -> Pass] /\ reset[p] \in Pass
  BY DEF MoneyInv, LedgerInv, ResetInv
<1>2. UNCHANGED <<credited, balance, wallet, sent, results, k, phase, transactions>>
  BY DEF Look, money, daemon
<1>3. CASE n \notin Successful
  <2>1. \A q \in Passes : reset'[q].seen = reset[q].seen /\ reset'[q].id = reset[q].id
    <3>1. reset' = [reset EXCEPT ![p].todo = @ \ {n}]
      BY <1>3 DEF Look
    <3> QED
      BY <1>1, <3>1 DEF Pass
  <2>2. UNCHANGED money /\ UNCHANGED transactions /\ results' = results /\ k' = k /\ phase' = phase
    BY <1>2 DEF money
  <2> QED
    BY <2>1, <2>2, MoneyStays
<1>4. CASE n \in Successful
  <2> DEFINE row == transactions[n]
  <2>1. reset'[p].seen = {row} /\ reset'[p].id = n /\ \A q \in Passes : q /= p => reset'[q] = reset[q]
    <3>1. reset' = [reset EXCEPT ![p].todo = @ \ {n}, ![p].pc = "found", ![p].id = n, ![p].seen = {row}]
      BY <1>4 DEF Look
    <3> HIDE DEF row
    <3> QED
      BY <1>1, <3>1 DEF Pass
  <2>2. Covered'
    <3> SUFFICES ASSUME NEW j \in DOMAIN results, Pending(j)'
                 PROVE  (/\ results[j].amount <= balance[results[j].owner]
                         /\ results[j].id \in DOMAIN transactions =>
                              transactions[results[j].id].owner /= results[j].owner
                         /\ \A q \in Passes : \A x \in reset[q].seen :
                              reset[q].id = results[j].id => x.owner /= results[j].owner)'
      BY <1>2 DEF Covered
    <3>1. Pending(j)
      BY <1>2 DEF Pending
    <3>2. /\ results[j].amount <= balance[results[j].owner]
          /\ results[j].id \in DOMAIN transactions =>
               transactions[results[j].id].owner /= results[j].owner
          /\ \A q \in Passes : \A x \in reset[q].seen :
               reset[q].id = results[j].id => x.owner /= results[j].owner
      BY <3>1 DEF MoneyInv, Covered
    <3>3. n \in DOMAIN transactions
      BY <1>4 DEF Successful
    <3> QED
      BY <1>2, <2>1, <3>2, <3>3
  <2>3. Bounded'
    BY <1>2 DEF MoneyInv, Bounded
  <2>4. ASSUME NEW s \in sent, Held(s)' PROVE Held(s)
    <3>1. InHand(s)' => InHand(s)
      BY <1>2 DEF InHand
    <3>2. Booked(s)' => Booked(s)
      BY <1>2 DEF Booked, Successful
    <3>3. Seen(s)' => Seen(s) \/ Booked(s)
      <4> SUFFICES ASSUME NEW q \in Passes, NEW x \in reset'[q].seen, PaymentOf(reset'[q].id, x) = s
                   PROVE  Seen(s) \/ Booked(s)
        BY DEF Seen
      <4>1. CASE q = p
        <5>1. s = PaymentOf(n, row)
          BY <2>1, <4>1
        <5>2. s.id = n
          BY <5>1 DEF PaymentOf
        <5> QED
          BY <1>4, <5>1, <5>2 DEF Booked
      <4>2. CASE q /= p
        BY <2>1, <4>2 DEF Seen
      <4> QED
        BY <4>1, <4>2
    <3> QED
      BY <1>2, <2>4, <3>1, <3>2, <3>3 DEF Held
  <2>5. ASSUME NEW a \in Addr
        PROVE  AmountOf(Open(a)') + balance'[a] - ToBook(a)' <= credited'[a]
    <3>1. Open(a)' \subseteq Open(a) /\ AmountOf(Open(a)') <= AmountOf(Open(a))
      BY <1>1, <1>2, <2>4, OpenShrinks
    <3>2. ToBook(a)' = ToBook(a)
      BY <1>2 DEF ToBook
    <3>3. /\ AmountOf(Open(a)) \in Nat /\ AmountOf(Open(a)') \in Nat /\ ToBook(a) \in Nat
          /\ balance[a] \in Int /\ credited[a] \in Int
      BY <1>1, <3>1, MoneyTypes
    <3>4. AmountOf(Open(a)) + balance[a] - ToBook(a) <= credited[a]
      BY DEF MoneyInv, OnceOnly
    <3> QED
      BY <1>2, <3>1, <3>2, <3>3, <3>4
  <2> QED
    BY <2>2, <2>3, <2>5 DEF OnceOnly
<1> QED
  BY <1>3, <1>4

(* A credit closes the payment it is for: the wallet has rejected it, the  *)
(* row is off, no result is of it, and there is no other pass.             *)
LEMMA CreditBackMoney ==
    ASSUME OnePass, MoneyInv, LedgerInv', NEW p \in Passes, CreditBack(p)
    PROVE  Covered' /\ Bounded' /\ OnceOnly'
<1>1. LedgerInv /\ reset \in [Passes -> Pass] /\ reset[p] \in Pass /\ PassInv(p)
  BY DEF MoneyInv, LedgerInv, ResetInv
<1>2. PICK row \in reset[p].seen : balance' = [balance EXCEPT ![row.owner] = @ + row.amount]
  BY DEF CreditBack
<1>3. /\ reset[p].pc = "found" /\ UNCHANGED <<credited, wallet, sent, results, k, phase>>
      /\ transactions' = [transactions EXCEPT ![reset[p].id].success = FALSE]
      /\ reset' = [reset EXCEPT ![p].pc = "next", ![p].seen = {}, ![p].id = Unset]
  BY DEF CreditBack, daemon
<1> DEFINE id == reset[p].id
           s == PaymentOf(id, row)
<1>4. /\ s \in sent /\ s.id = id /\ s.owner = row.owner /\ s.amount = row.amount
      /\ s.owner \in Addr /\ s.amount \in Nat /\ id \in Ids /\ wallet[id] = "rejected"
      /\ id \in DOMAIN transactions
  <2>1. s \in sent /\ At(p) = {id}
    BY <1>1, <1>3 DEF PassInv, At
  <2>2. s.id = id /\ s.owner = row.owner /\ s.amount = row.amount
    BY DEF PaymentOf
  <2>3. s.owner \in Addr /\ s.amount \in Nat
    BY <1>1, <2>1 DEF LedgerInv, WalletInv, Positive
  <2> QED
    BY <1>1, <2>1, <2>2, <2>3 DEF PassInv
<1>5. s \in Open(s.owner)
  BY <1>4 DEF Open, Held, Seen
<1>6. \A q \in Passes : reset'[q].seen = {}
  <2>1. reset'[p].seen = {}
    BY <1>1, <1>3 DEF Pass
  <2> QED
    BY <2>1 DEF OnePass
<1>7. \A j : Pending(j)' <=> Pending(j)
  BY <1>3 DEF Pending
<1>8. ASSUME NEW j, Pending(j) PROVE PaymentOf(results[j].id, results[j]) /= s
  <2>1. j \in DOMAIN results
    BY <1>1, <1>8, ToBookOne DEF LedgerInv
  <2>2. id = results[j].id => row.owner /= results[j].owner
    BY <1>8, <2>1 DEF MoneyInv, Covered
  <2>3. /\ PaymentOf(results[j].id, results[j]).id = results[j].id
        /\ PaymentOf(results[j].id, results[j]).owner = results[j].owner
    BY DEF PaymentOf
  <2> QED
    BY <1>4, <2>2, <2>3
<1>9. /\ DOMAIN transactions' = DOMAIN transactions
      /\ \A m \in DOMAIN transactions : m /= id => transactions'[m] = transactions[m]
      /\ \A m \in DOMAIN transactions : /\ transactions'[m].owner = transactions[m].owner
                                        /\ transactions'[m].amount = transactions[m].amount
      /\ ~transactions'[id].success
  <2>1. \A m \in DOMAIN transactions : transactions[m] \in AnyRow
    BY <1>1 DEF LedgerInv, RowsInv
  <2>2. /\ DOMAIN transactions' = DOMAIN transactions
        /\ \A m \in DOMAIN transactions : m /= id => transactions'[m] = transactions[m]
    BY <1>3
  <2>3. transactions'[id] = [transactions[id] EXCEPT !.success = FALSE]
    BY <1>3, <1>4
  <2>4. /\ transactions'[id].owner = transactions[id].owner
        /\ transactions'[id].amount = transactions[id].amount
        /\ ~transactions'[id].success
    BY <1>4, <2>1, <2>3 DEF AnyRow
  <2> QED
    BY <2>2, <2>4
<1> HIDE DEF id, s
<1>10. balance \in [Addr -> Int]
  BY <1>1 DEF LedgerInv, WalletInv
<1>11. \A a \in Addr : /\ balance'[a] = (IF a = s.owner THEN balance[a] + s.amount ELSE balance[a])
                       /\ balance[a] \in Int /\ balance'[a] \in Int /\ balance'[a] >= balance[a]
  <2>1. \A a \in Addr : /\ balance'[a] = (IF a = s.owner THEN balance[a] + s.amount ELSE balance[a])
                        /\ balance[a] \in Int
    BY <1>2, <1>4, <1>10, Shifted
  <2> QED
    BY <1>4, <2>1
<1>12. Covered'
  <2> SUFFICES ASSUME NEW j \in DOMAIN results, Pending(j)'
               PROVE  (/\ results[j].amount <= balance[results[j].owner]
                       /\ results[j].id \in DOMAIN transactions =>
                            transactions[results[j].id].owner /= results[j].owner
                       /\ \A q \in Passes : \A x \in reset[q].seen :
                            reset[q].id = results[j].id => x.owner /= results[j].owner)'
    BY <1>3 DEF Covered
  <2>1. Pending(j)
    BY <1>7
  <2>2. results[j].owner \in Addr /\ results[j].amount \in Nat
    BY <1>1, <2>1, ToBookOne DEF LedgerInv, Positive
  <2>3. /\ results[j].amount <= balance[results[j].owner]
        /\ results[j].id \in DOMAIN transactions =>
             transactions[results[j].id].owner /= results[j].owner
    BY <2>1 DEF MoneyInv, Covered
  <2>4. results[j].amount <= balance'[results[j].owner]
    BY <1>11, <2>2, <2>3
  <2> QED
    BY <1>3, <1>6, <1>9, <2>3, <2>4
<1>13. Bounded'
  <2>1. \A a \in Addr : balance'[a] >= 0
    BY <1>11 DEF MoneyInv, Bounded
  <2> QED
    BY <1>3, <1>9, <2>1 DEF MoneyInv, Bounded
<1>14. ASSUME NEW u \in sent, Held(u)' PROVE Held(u) /\ u /= s
  <2>1. ~Seen(u)'
    BY <1>6 DEF Seen
  <2>2. InHand(u)' => InHand(u) /\ u /= s
    BY <1>3, <1>8 DEF InHand, Pending
  <2>3. Booked(u)' => Booked(u) /\ u /= s
    BY <1>4, <1>9 DEF Booked, Successful
  <2>4. wallet'[u.id] /= "rejected" => wallet[u.id] /= "rejected" /\ u /= s
    BY <1>3, <1>4
  <2> QED
    BY <1>14, <2>1, <2>2, <2>3, <2>4 DEF Held
<1>15. ASSUME NEW a \in Addr
       PROVE  AmountOf(Open(a)') + balance'[a] - ToBook(a)' <= credited'[a]
  <2>1. Open(a)' \subseteq Open(a) /\ AmountOf(Open(a)') <= AmountOf(Open(a))
    BY <1>1, <1>3, <1>14, OpenShrinks
  <2>2. ToBook(a)' = ToBook(a)
    BY <1>3 DEF ToBook
  <2>3. /\ AmountOf(Open(a)) \in Nat /\ AmountOf(Open(a)') \in Nat /\ ToBook(a) \in Nat
        /\ balance[a] \in Int /\ credited[a] \in Int
    BY <1>1, <2>1, MoneyTypes
  <2>4. AmountOf(Open(a)) + balance[a] - ToBook(a) <= credited[a]
    BY DEF MoneyInv, OnceOnly
  <2>5. CASE a = s.owner
    <3>1. Open(a)' \subseteq Open(a) \ {s}
      BY <1>3, <1>14 DEF Open
    <3>2. HasAmounts(Open(a)) /\ HasAmounts(Open(a) \ {s})
      <4>1. HasAmounts(Open(a))
        BY <1>1, OpenSums DEF LedgerInv
      <4> QED
        BY <4>1, FS_Subset DEF HasAmounts
    <3>3. AmountOf(Open(a)) = s.amount + AmountOf(Open(a) \ {s})
      BY <1>5, <2>5, <3>2, AmountRemove
    <3>4. AmountOf(Open(a)') <= AmountOf(Open(a) \ {s}) /\ AmountOf(Open(a) \ {s}) \in Nat
      BY <3>1, <3>2, AmountMonotone, AmountNat
    <3> QED
      BY <1>3, <1>4, <1>11, <2>2, <2>3, <2>4, <2>5, <3>3, <3>4
  <2>6. CASE a /= s.owner
    BY <1>3, <1>11, <2>1, <2>2, <2>3, <2>4, <2>6
  <2> QED
    BY <2>5, <2>6
<1> QED
  BY <1>12, <1>13, <1>15 DEF OnceOnly

LEMMA MoneyInit == Init => MoneyInv
<1> SUFFICES ASSUME Init PROVE MoneyInv
  OBVIOUS
<1>1. LedgerInv
  BY LedgerInit
<1>2. Covered /\ Bounded
  BY LedgerAssumption DEF Init, Covered, Bounded, Pending
<1>3. ASSUME NEW a \in Addr PROVE AmountOf(Open(a)) + balance[a] - ToBook(a) <= credited[a]
  <2>1. Open(a) = {} /\ ToBook(a) = 0 /\ balance[a] = 0 /\ credited[a] = 0
    BY <1>3, ToBookNone DEF Init, Open, Pending
  <2> QED
    BY <2>1, AmountEmpty
<1> QED
  BY <1>1, <1>2, <1>3 DEF MoneyInv, OnceOnly

LEMMA MoneyStep ==
    ASSUME OnePass
    PROVE  MoneyInv /\ [Next]_vars => MoneyInv'
<1> SUFFICES ASSUME MoneyInv, [Next]_vars PROVE MoneyInv'
  OBVIOUS
<1>1. LedgerInv'
  BY LedgerStep DEF MoneyInv
<1>2. reset \in [Passes -> Pass]
  BY DEF MoneyInv, LedgerInv, ResetInv
<1> SUFFICES Covered' /\ Bounded' /\ OnceOnly'
  BY <1>1 DEF MoneyInv
<1>3. ASSUME NEW a \in Addr, Credit(a) PROVE Covered' /\ Bounded' /\ OnceOnly'
  BY <1>3, CreditMoney
<1>4. ASSUME NEW n \in Ids, Outcome(n) PROVE Covered' /\ Bounded' /\ OnceOnly'
  BY <1>4, OutcomeMoney
<1>5. CASE Send \/ Book
  BY <1>1, <1>5, SendMoney, BookMoney
<1>6. CASE Ask \/ Skip \/ Store
  <2>1. UNCHANGED money /\ UNCHANGED transactions /\ UNCHANGED reset /\ phase = "scan" /\ (phase' \in {"scan", "idle"})
    BY <1>6 DEF Ask, Skip, Store, NextResult
  <2>2. UNCHANGED results \/ results' = <<>>
    BY <1>6 DEF Ask, Skip, Store, NextResult
  <2> QED
    BY <2>1, <2>2, MoneyStays
<1>7. ASSUME NEW p \in Passes, Reset(p) PROVE Covered' /\ Bounded' /\ OnceOnly'
  <2>1. ASSUME NEW n \in Ids, Look(p, n) PROVE Covered' /\ Bounded' /\ OnceOnly'
    BY <1>1, <2>1, LookMoney
  <2>2. CASE CreditBack(p)
    BY <1>1, <2>2, CreditBackMoney
  <2>3. CASE \/ StartReset(p) \/ CreditFails(p) \/ CreditLost(p) \/ EndReset(p) \/ ResetDies(p)
             \/ \E n \in Ids : LookFails(p, n)
    <3>1. UNCHANGED <<money, daemon, transactions>>
      BY <2>3 DEF StartReset, LookFails, CreditFails, CreditLost, EndReset, ResetDies
    <3>2. ASSUME NEW q \in Passes, NEW row \in reset'[q].seen
          PROVE  row \in reset[q].seen /\ reset'[q].id = reset[q].id
      <4>1. CASE StartReset(p)
        BY <1>2, <3>2, <4>1 DEF StartReset, NoPass
      <4>2. CASE CreditFails(p) \/ CreditLost(p)
        BY <1>2, <3>2, <4>2 DEF CreditFails, CreditLost, Pass
      <4>3. CASE \E n \in Ids : LookFails(p, n)
        BY <1>2, <3>2, <4>3 DEF LookFails, Pass
      <4>4. CASE EndReset(p) \/ ResetDies(p)
        BY <1>2, <3>2, <4>4 DEF EndReset, ResetDies, NoPass
      <4> QED
        BY <2>3, <4>1, <4>2, <4>3, <4>4
    <3>3. UNCHANGED money /\ UNCHANGED transactions /\ results' = results /\ k' = k /\ phase' = phase
      BY <3>1 DEF daemon
    <3> QED
      BY <3>2, <3>3, MoneyStays
  <2> QED
    BY <1>7, <2>1, <2>2, <2>3 DEF Reset
<1>8. ASSUME NEW t \in Fillers, Fill(t) PROVE Covered' /\ Bounded' /\ OnceOnly'
  <2>1. UNCHANGED <<money, daemon, transactions, reset>>
    BY <1>8 DEF Fill, Fetch, List, EndFill, FillDies, Put, PutFails
  <2>2. UNCHANGED money /\ UNCHANGED transactions /\ results' = results /\ k' = k /\ phase' = phase
    BY <2>1 DEF daemon
  <2> QED
    BY <2>1, <2>2, MoneyStays
<1>9. CASE UNCHANGED vars
  <2>1. /\ UNCHANGED money /\ UNCHANGED transactions /\ results' = results /\ k' = k /\ phase' = phase
        /\ UNCHANGED reset
    BY <1>9 DEF vars, daemon
  <2> QED
    BY <2>1, MoneyStays
<1> QED
  BY <1>3, <1>4, <1>5, <1>6, <1>7, <1>8, <1>9 DEF Next
-----------------------------------------------------------------------------
(* What holds for any number of passes at once.                            *)

LEMMA LedgerAlways == Spec => []LedgerInv
BY LedgerInit, LedgerStep, PTL DEF Spec

(* A row under an id of the wallet's is always of a payment made under     *)
(* that id, and no other row is ever a success: what the reset credits,    *)
(* and whom, it may read there.                                            *)
THEOREM RowsStayPayments == Spec => []RowsOfPayments
<1>1. LedgerInv => RowsOfPayments
  BY DEF LedgerInv, RowsInv
<1> QED
  BY <1>1, LedgerAlways, PTL

(* A reset pass that has come to the end of its list has left no payment   *)
(* on it a success that was one when it began, unless it logged a failure  *)
(* of it, or its Commit failed and nobody looked.                          *)
THEOREM PassesComplete == Spec => []PassCredits
<1>1. LedgerInv => PassCredits
  BY DEF LedgerInv, ResetInv, PassInv, At, AtEnd, PassCredits
<1> QED
  BY <1>1, LedgerAlways, PTL

(* A backfill that has come to the end of its list has left no success on  *)
(* it without a detail, and no detail below the height the wallet gave,    *)
(* but for the failures it logged.                                         *)
THEOREM FillsComplete == Spec => []FillComplete
<1>1. LedgerInv => FillComplete
  <2> SUFFICES ASSUME LedgerInv, NEW t \in Fillers, AtEnd(fill[t], "listed"), NEW n \in fill[t].due
               PROVE  n \in DOMAIN details /\ (t = "heights" => details[n] >= fill[t].known[n])
    BY DEF FillComplete
  <2>1. fill[t].todo = {}
    BY DEF AtEnd
  <2>2. CASE t = "details"
    BY <2>1, <2>2 DEF LedgerInv, FillInv
  <2>3. CASE t = "heights"
    BY <2>1, <2>3 DEF LedgerInv, FillInv
  <2> QED
    BY <2>2, <2>3 DEF Fillers
<1> QED
  BY <1>1, LedgerAlways, PTL

(* No step takes a height away: an insert leaves what is there, and what   *)
(* the block backfill overwrites is still 0 when it does, because no other *)
(* program overwrites a detail.                                            *)
THEOREM HeightsKept == Spec => HeightsStay
<1>1. LedgerInv /\ [Next]_vars =>
        [\A n \in DOMAIN details : n \in DOMAIN details' /\ details'[n] >= details[n]]_vars
  <2> SUFFICES ASSUME LedgerInv, Next, NEW n \in DOMAIN details
               PROVE  n \in DOMAIN details' /\ details'[n] >= details[n]
    OBVIOUS
  <2>1. details[n] \in {0, 1} /\ n \in Ids
    BY KnownFacts DEF LedgerInv, FillInv
  <2>2. ASSUME UNCHANGED details PROVE n \in DOMAIN details' /\ details'[n] >= details[n]
    BY <2>1, <2>2
  <2>3. CASE Store
    BY <2>1, <2>3, StoreDetails
  <2>4. ASSUME NEW t \in Fillers, NEW m \in Ids, Put(t, m)
        PROVE  n \in DOMAIN details' /\ details'[n] >= details[n]
    BY <2>4, PutDetails
  <2>5. ASSUME NEW t \in Fillers, Fetch(t) \/ List(t) \/ EndFill(t) \/ FillDies(t) \/ \E m \in Ids : PutFails(t, m)
        PROVE  UNCHANGED details
    BY <2>5 DEF Fetch, List, EndFill, FillDies, PutFails
  <2>6. ASSUME NEW a \in Addr, Credit(a) PROVE UNCHANGED details
    BY <2>6 DEF Credit
  <2>7. ASSUME NEW m \in Ids, Outcome(m) PROVE UNCHANGED details
    BY <2>7 DEF Outcome
  <2>8. ASSUME NEW p \in Passes, Reset(p) PROVE UNCHANGED details
    BY <2>8 DEF Reset, StartReset, Look, LookFails, CreditBack, CreditFails, CreditLost, EndReset,
          ResetDies
  <2>9. ASSUME Send \/ Book \/ Ask \/ Skip PROVE UNCHANGED details
    BY <2>9 DEF Send, Book, Ask, Skip
  <2> QED
    BY <2>2, <2>3, <2>4, <2>5, <2>6, <2>7, <2>8, <2>9 DEF Next, Fill
<1> QED
  BY <1>1, LedgerAlways, PTL DEF Spec, HeightsStay

(* What holds if passes do not overlap.                                    *)

LEMMA MoneyAlways == ASSUME OnePass PROVE Spec => []MoneyInv
<1>1. MoneyInv /\ [Next]_vars => MoneyInv'
  BY MoneyStep
<1> QED
  BY <1>1, MoneyInit, PTL DEF Spec

(* What the wallet has sent an address or may still send it, and what the  *)
(* books owe it, are never more together than it was credited.             *)
THEOREM NeverAWindfall == ASSUME OnePass PROVE Spec => []NoWindfall
<1>1. MoneyInv => NoWindfall
  <2> SUFFICES ASSUME MoneyInv, NEW a \in Addr
               PROVE  Live(a) + balance[a] - ToBook(a) <= credited[a]
    BY DEF NoWindfall
  <2> DEFINE L == {s \in sent : s.owner = a /\ wallet[s.id] /= "rejected"}
  <2>1. HasAmounts(Open(a)) /\ L \in SUBSET Open(a)
    BY OpenSums DEF MoneyInv, LedgerInv, Open, Held
  <2>2. Live(a) = AmountOf(L)
    BY DEF Live
  <2> HIDE DEF L
  <2>3. AmountOf(L) <= AmountOf(Open(a)) /\ AmountOf(L) \in Nat
    <3>1. AmountOf(L) <= AmountOf(Open(a))
      BY <2>1, AmountMonotone
    <3>2. AmountOf(L) \in Nat
      BY <2>1, MoneyTypes DEF MoneyInv
    <3> QED
      BY <3>1, <3>2
  <2>4. /\ AmountOf(Open(a)) \in Nat /\ ToBook(a) \in Nat
        /\ balance[a] \in Int /\ credited[a] \in Int
        /\ AmountOf(Open(a)) + balance[a] - ToBook(a) <= credited[a]
    BY MoneyTypes DEF MoneyInv, OnceOnly
  <2> QED
    BY <2>2, <2>3, <2>4
<1> QED
  BY <1>1, MoneyAlways, PTL

(* The types of the state: above all, that no balance is overdrawn, and    *)
(* none is above what the pool has credited.                               *)
THEOREM LedgerTypes == ASSUME OnePass PROVE Spec => []TypeOK
<1>1. MoneyInv => TypeOK
  <2> SUFFICES ASSUME MoneyInv PROVE TypeOK
    OBVIOUS
  <2>1. LedgerInv
    BY DEF MoneyInv
  <2>2. \A a \in Addr : balance[a] \in 0..MaxCredit
    BY <2>1, BalanceCap, LedgerAssumption DEF MoneyInv, Bounded
  <2>3. /\ credited \in [Addr -> 0..MaxCredit] /\ balance \in [Addr -> 0..MaxCredit]
        /\ wallet \in [Ids -> {"unused", "pending", "mined", "rejected"}]
    BY <2>1, <2>2 DEF LedgerInv, WalletInv
  <2>4. \A x \in Positive : x <= MaxCredit => x \in Amounts
    BY LedgerAssumption DEF Positive, Amounts
  <2>5. sent \subseteq [id : Ids, owner : Addr, amount : Amounts]
    BY <2>1, <2>4 DEF MoneyInv, Bounded, LedgerInv, WalletInv
  <2>6. results \in Seq(Result) /\ k \in 1..Len(results) + 1
    <3> DEFINE R == [id : Ids \cup {Unset}, owner : Addr, amount : Positive, success : BOOLEAN]
    <3>1. results \in Seq(R) /\ k \in Nat
      BY <2>1 DEF LedgerInv, ResultsInv
    <3>2. DOMAIN results = 1..Len(results) /\ Len(results) \in Nat /\ \A j \in DOMAIN results : results[j] \in R
      <4> HIDE DEF R
      <4> QED
        BY <3>1
    <3>3. \A j \in DOMAIN results : results[j] \in Result
      BY <2>4, <3>2 DEF MoneyInv, Bounded, Result
    <3>4. results = [j \in 1..Len(results) |-> results[j]]
      <4> HIDE DEF R
      <4> QED
        BY <3>1
    <3>5. results \in [1..Len(results) -> Result]
      BY <3>2, <3>3, <3>4
    <3>6. results \in Seq(Result)
      BY <3>2, <3>5, IsSequence
    <3>7. k \in 1..Len(results) + 1
      <4>1. CASE phase = "idle"
        BY <2>1, <3>2, <4>1 DEF LedgerInv, ResultsInv
      <4>2. CASE phase /= "idle"
        BY <2>1, <3>2, <4>2 DEF LedgerInv, ResultsInv
      <4> QED
        BY <4>1, <4>2
    <3> QED
      BY <3>6, <3>7
  <2>7. phase \in {"idle", "book", "scan"} /\ asked \subseteq {0, 1}
    BY <2>1 DEF LedgerInv, ResultsInv
  <2>8. DOMAIN transactions \subseteq Ids /\ \A n \in DOMAIN transactions : transactions[n] \in Row
    BY <2>1, <2>4 DEF MoneyInv, Bounded, LedgerInv, RowsInv, AnyRow, Row
  <2>9. DOMAIN details \subseteq Ids /\ \A n \in DOMAIN details : details[n] \in {0, 1}
    BY <2>1, KnownFacts DEF LedgerInv, FillInv
  <2>10. ASSUME NEW p \in Passes
         PROVE  /\ reset[p].pc \in {"off", "next", "found"} /\ reset[p].dropped \subseteq Ids
                /\ reset[p].todo \subseteq Ids /\ reset[p].due \subseteq Ids
                /\ reset[p].seen \subseteq Row /\ reset[p].id \in Ids \cup {Unset}
    <3>1. reset[p] \in Pass /\ \A row \in reset[p].seen : PaymentOf(reset[p].id, row) \in sent
      BY <2>1 DEF LedgerInv, ResetInv, PassInv
    <3>2. ASSUME NEW row \in reset[p].seen PROVE row \in Row
      <4>1. row \in AnyRow
        BY <3>1 DEF Pass
      <4>2. PaymentOf(reset[p].id, row).amount \in Amounts
        BY <2>5, <3>1
      <4>3. row.amount \in Amounts
        BY <4>2 DEF PaymentOf
      <4> QED
        BY <4>1, <4>3 DEF AnyRow, Row
    <3> QED
      BY <3>1, <3>2 DEF Pass
  <2>11. ASSUME NEW t \in Fillers
         PROVE  /\ fill[t].pc \in {"off", "fetched", "listed"}
                /\ fill[t].todo \subseteq Ids /\ fill[t].due \subseteq Ids
    <3>1. fill[t] \in Filler
      BY <2>1 DEF LedgerInv, FillInv
    <3> QED
      BY <3>1 DEF Filler
  <2> QED
    BY <2>3, <2>5, <2>6, <2>7, <2>8, <2>9, <2>10, <2>11 DEF TypeOK
<1> QED
  BY <1>1, MoneyAlways, PTL
=============================================================================
