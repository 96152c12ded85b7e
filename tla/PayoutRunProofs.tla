-------------------------- MODULE PayoutRunProofs --------------------------
(***************************************************************************)
(* What holds of PayoutRun for any addresses, amounts and splitPayments    *)
(* that keeps SplitAssumption: the shape of a run, then the safety         *)
(* properties, first those that survive every fault but a reconcile flag   *)
(* read wrongly or too late, then those that hold when nothing fails, up   *)
(* to the books of PayoutBooks.                                            *)
(***************************************************************************)
EXTENDS PayoutRefines, SumTheorems, TLAPS

(* The state a run leaves alone while it is between its first and its last *)
(* group is carried over as it stands.                                     *)
LEMMA PlanKept ==
    ASSUME GroupsFit, UNCHANGED plan
    PROVE  GroupsFit'
BY DEF GroupsFit, plan, Recipient

LEMMA SubRange ==
    ASSUME NEW x \in 0..MaxCredit
    PROVE  Sub64(x, Fee) \in 0..(Word - 1)
BY ConstantsAssumption DEF Sub64

(* A group of the run is a Group, and its payments are Payments.           *)
LEMMA PaymentFacts ==
    ASSUME TypeOK, NEW k \in DOMAIN groups
    PROVE  /\ groups[k].payments \in Seq(Payment)
           /\ DOMAIN groups[k].payments = 1..Len(groups[k].payments)
           /\ Len(groups[k].payments) \in Nat
           /\ \A j \in DOMAIN groups[k].payments :
                 /\ groups[k].payments[j].amount \in 0..(Word - 1)
                 /\ Recipient(k, j) \in Addr
<1>1. groups[k] \in Group
  BY DEF TypeOK
<1>2. groups[k].payments \in Seq(Payment)
  BY <1>1 DEF Group
<1>3. \A j \in DOMAIN groups[k].payments : groups[k].payments[j] \in Payment
  BY <1>2
<1>4. \A j \in DOMAIN groups[k].payments :
         /\ groups[k].payments[j].amount \in 0..(Word - 1)
         /\ groups[k].payments[j].address \in Addr
  BY <1>3 DEF Payment
<1> QED
  BY <1>2, <1>4 DEF Recipient

(* Charge(a) is what the recipient a of the group in hand is charged.      *)
LEMMA ChargeFacts ==
    ASSUME TypeOK, GroupsFit, g \in DOMAIN groups, NEW a \in Recipients(g)
    PROVE  /\ a \in Addr
           /\ Charge(a) = Sub64(cache[a], Fee) + Fee
           /\ Charge(a) \in Nat
           /\ Charge(a) >= cache[a]
           /\ Charge(a) <= WalletFunds => Charge(a) = cache[a]
<1> DEFINE p == CHOOSE q \in PaymentsOf(g) : q.address = a
<1>1. PICK j \in DOMAIN groups[g].payments : a = Recipient(g, j)
  BY DEF Recipients
<1>2. groups[g].payments[j] \in PaymentsOf(g) /\ groups[g].payments[j].address = a
  BY <1>1 DEF PaymentsOf, Recipient
<1>3. p \in PaymentsOf(g) /\ p.address = a
  BY <1>2
<1>4. PICK m \in DOMAIN groups[g].payments : p = groups[g].payments[m]
  BY <1>3 DEF PaymentsOf
<1>5. Recipient(g, m) = a
  BY <1>3, <1>4 DEF Recipient
<1>6. p.amount = Sub64(cache[a], Fee)
  BY <1>4, <1>5 DEF GroupsFit
<1>7. a \in Addr
  BY <1>1, PaymentFacts
<1>8. Charge(a) = Sub64(cache[a], Fee) + Fee
  BY <1>6 DEF Charge
<1>9. cache[a] \in 0..MaxCredit
  BY <1>7 DEF TypeOK
<1> QED
  BY <1>7, <1>8, <1>9, ConstantsAssumption DEF Sub64
-----------------------------------------------------------------------------
(* The two halves of the type invariant, which most actions change one of. *)
OutsideOK ==
    /\ balance \in [Addr -> Int] /\ credited \in [Addr -> 0..MaxCredit]
    /\ flags \subseteq Addr /\ bypass \subseteq Addr /\ halt \in BOOLEAN
    /\ paid \in [Addr -> Nat] /\ limbo \in [Addr -> Nat]
PlanOK ==
    /\ rows \subseteq Addr /\ cache \in [Addr -> 0..MaxCredit] /\ groups \in Seq(Group)
TallyOK ==
    /\ successAmount \in Nat /\ failedAmount \in Nat /\ unsettled \subseteq Nat
CursorOK == pc \in Steps /\ g \in Nat /\ i \in Nat /\ reply \in Seq(BOOLEAN)

LEMMA TypeParts == TypeOK <=> OutsideOK /\ PlanOK /\ TallyOK /\ CursorOK
BY DEF TypeOK, OutsideOK, PlanOK, TallyOK, CursorOK

LEMMA TypePartsNext == TypeOK' <=> OutsideOK' /\ PlanOK' /\ TallyOK' /\ CursorOK'
BY DEF TypeOK, OutsideOK, PlanOK, TallyOK, CursorOK

LEMMA OutsideKept == ASSUME OutsideOK, UNCHANGED outside PROVE OutsideOK'
BY DEF OutsideOK, outside, redis, wallet

LEMMA PlanTypeKept == ASSUME PlanOK, UNCHANGED plan PROVE PlanOK'
BY DEF PlanOK, plan

LEMMA TallyKept == ASSUME TallyOK, UNCHANGED tally PROVE TallyOK'
BY DEF TallyOK, tally

(* The local variables after the last step of a run.                       *)
LEMMA EndRunShape ==
    ASSUME EndRun
    PROVE  PlanOK' /\ TallyOK' /\ CursorOK' /\ GroupsFit' /\ IndicesFit'
<1>1. /\ pc' = "idle" /\ rows' = {} /\ cache' = NoCache /\ groups' = <<>>
      /\ g' = 1 /\ i' = 1 /\ reply' = <<>>
      /\ successAmount' = 0 /\ failedAmount' = 0 /\ unsettled' = {}
  BY DEF EndRun
<1>2. PlanOK'
  BY <1>1, ConstantsAssumption DEF PlanOK, NoCache
<1>3. TallyOK'
  BY <1>1 DEF TallyOK
<1>4. CursorOK'
  BY <1>1 DEF CursorOK, Steps
<1>5. GroupsFit'
  BY <1>1 DEF GroupsFit
<1>6. IndicesFit'
  BY <1>1 DEF IndicesFit
<1> QED
  BY <1>2, <1>3, <1>4, <1>5, <1>6

(* The step to the next group, or out of the loop.                         *)
LEMMA NextGroupShape ==
    ASSUME TypeOK, GroupsFit, g \in DOMAIN groups, NextGroup
    PROVE  PlanOK' /\ CursorOK' /\ GroupsFit' /\ IndicesFit'
<1>1. /\ \/ g < Len(groups) /\ pc' = "group" /\ g' = g + 1
         \/ pc' = "finish" /\ g' = g
      /\ i' = 1 /\ reply' = <<>> /\ UNCHANGED plan
  BY DEF NextGroup
<1>2. groups' = groups /\ DOMAIN groups = 1..Len(groups) /\ Len(groups) \in Nat /\ g \in Nat
  BY <1>1 DEF TypeOK, plan
<1>3. CursorOK'
  BY <1>1, <1>2 DEF CursorOK, Steps
<1>4. IndicesFit'
  BY <1>1, <1>2 DEF IndicesFit
<1> QED
  BY <1>1, <1>3, <1>4, PlanKept, PlanTypeKept, TypeParts

(* The payment in hand while its result is booked or its flag is set.      *)
LEMMA InHand ==
    ASSUME ShapeInv, pc = "flag" \/ (pc \in {"apply", "unbypass"} /\ Correlated)
    PROVE  /\ g \in DOMAIN groups /\ i \in DOMAIN Payments
           /\ Payments \in Seq(Payment) /\ i \in 1..Len(Payments) /\ Len(Payments) \in Nat
           /\ Payments[i].address = Recipient(g, i)
           /\ Payments[i].address \in Addr
           /\ cache[Payments[i].address] \in 0..MaxCredit
<1>1. g \in DOMAIN groups /\ i \in DOMAIN Payments
  BY DEF ShapeInv, IndicesFit, Payments
<1>2. Recipient(g, i) \in Addr /\ Payments \in Seq(Payment)
  BY <1>1, PaymentFacts DEF ShapeInv, Payments
<1>3. DOMAIN Payments = 1..Len(Payments) /\ Len(Payments) \in Nat
  BY <1>2
<1>4. Payments[i].address = Recipient(g, i)
  BY DEF Recipient, Payments
<1>5. cache[Recipient(g, i)] \in 0..MaxCredit
  BY <1>2 DEF ShapeInv, TypeOK
<1> QED
  BY <1>1, <1>2, <1>3, <1>4, <1>5

LEMMA NextResultShape ==
    ASSUME ShapeInv, pc \in {"apply", "unbypass"}, Correlated, NextResult
    PROVE  PlanOK' /\ CursorOK' /\ GroupsFit' /\ IndicesFit'
<1>1. CASE i < Len(reply)
  <2>1. /\ pc' = "apply" /\ i' = i + 1 /\ UNCHANGED plan /\ g' = g /\ reply' = reply
        /\ groups' = groups
    BY <1>1 DEF NextResult, plan
  <2>2. i' \in DOMAIN groups[g].payments
    BY <1>1, <2>1, InHand DEF Correlated, Payments
  <2>3. IndicesFit'
    BY <2>1, <2>2, InHand DEF IndicesFit
  <2>4. CursorOK'
    BY <2>1 DEF CursorOK, ShapeInv, TypeOK, Steps
  <2> QED
    BY <2>1, <2>3, <2>4, PlanKept, PlanTypeKept, TypeParts DEF ShapeInv
<1>2. CASE ~(i < Len(reply))
  BY <1>2, InHand, NextGroupShape DEF NextResult, ShapeInv
<1> QED
  BY <1>1, <1>2

LEMMA GroupFailedShape ==
    ASSUME ShapeInv, g \in DOMAIN groups, GroupFailed
    PROVE  PlanOK' /\ TallyOK' /\ CursorOK' /\ GroupsFit' /\ IndicesFit'
<1>1. TallyOK'
  BY DEF GroupFailed, TallyOK, ShapeInv, TypeOK
<1> QED
  BY <1>1, NextGroupShape DEF GroupFailed, ShapeInv
-----------------------------------------------------------------------------
(* ShapeInv is inductive: one lemma per group of actions.                  *)
CreditCovers == \A a \in Addr : balance[a] <= credited[a]

LEMMA ShapeFromParts ==
    ASSUME OutsideOK', PlanOK', TallyOK', CursorOK', GroupsFit', IndicesFit', CreditCovers'
    PROVE  ShapeInv'
BY TypePartsNext DEF ShapeInv, CreditCovers

LEMMA OutsideShape ==
    ASSUME ShapeInv, UNCHANGED outside
    PROVE  OutsideOK' /\ CreditCovers'
BY OutsideKept, TypeParts DEF ShapeInv, CreditCovers, outside

LEMMA LocalsShape ==
    ASSUME ShapeInv, UNCHANGED locals
    PROVE  PlanOK' /\ TallyOK' /\ CursorOK' /\ GroupsFit' /\ IndicesFit'
<1>1. /\ pc' = pc /\ g' = g /\ i' = i /\ reply' = reply /\ groups' = groups
      /\ UNCHANGED plan /\ UNCHANGED tally
  BY DEF locals, plan
<1>2. CursorOK'
  BY <1>1, TypeParts DEF ShapeInv, CursorOK
<1>3. IndicesFit'
  BY <1>1 DEF ShapeInv, IndicesFit, Correlated, Payments
<1> QED
  BY <1>1, <1>2, <1>3, PlanKept, PlanTypeKept, TallyKept, TypeParts DEF ShapeInv

LEMMA ShapeWorld ==
    ASSUME ShapeInv, World
    PROVE  ShapeInv'
<1> USE DEF ShapeInv
<1>1. OutsideOK /\ CreditCovers
  BY TypeParts DEF CreditCovers
<1>2. UNCHANGED locals
  BY DEF World, Credit, WalletResolves, Reconcile, ClearReconcileFlag, GrantBypass,
         SetTxnHalt, UnsetTxnHalt
<1>3. ASSUME NEW a \in Addr, Credit(a) PROVE OutsideOK' /\ CreditCovers'
  BY <1>1, <1>3, ConstantsAssumption DEF Credit, OutsideOK, CreditCovers, redis, wallet
<1>4. ASSUME NEW a \in Addr, WalletResolves(a) PROVE OutsideOK' /\ CreditCovers'
  BY <1>1, <1>4 DEF WalletResolves, OutsideOK, CreditCovers, redis
<1>5. ASSUME NEW a \in Addr, Reconcile(a) PROVE OutsideOK' /\ CreditCovers'
  BY <1>1, <1>5 DEF Reconcile, Unbooked, OutsideOK, CreditCovers, wallet
<1>6. ASSUME NEW a \in Addr, ClearReconcileFlag(a) \/ GrantBypass(a)
      PROVE  OutsideOK' /\ CreditCovers'
  BY <1>1, <1>6 DEF ClearReconcileFlag, GrantBypass, OutsideOK, CreditCovers, wallet
<1>7. ASSUME SetTxnHalt \/ UnsetTxnHalt PROVE OutsideOK' /\ CreditCovers'
  BY <1>1, <1>7 DEF SetTxnHalt, UnsetTxnHalt, OutsideOK, CreditCovers, wallet
<1>8. OutsideOK' /\ CreditCovers'
  BY <1>3, <1>4, <1>5, <1>6, <1>7 DEF World
<1> QED
  BY <1>2, <1>8, LocalsShape, ShapeFromParts

LEMMA ShapeStart ==
    ASSUME ShapeInv, performPayouts
    PROVE  ShapeInv'
<1>1. /\ pc = "idle" /\ pc' = "collect" /\ rows' \subseteq {a \in Addr : balance[a] >= 0}
      /\ cache' = [a \in Addr |-> IF a \in rows' THEN balance[a] ELSE 0]
      /\ UNCHANGED <<outside, groups, g, i, reply, tally>>
  BY DEF performPayouts, GetAllBalances
<1>2. groups = <<>> /\ i = 1 /\ g = 1
  BY <1>1 DEF ShapeInv, IndicesFit
<1>3. ASSUME NEW a \in Addr
      PROVE  (IF a \in rows' THEN balance[a] ELSE 0) \in 0..MaxCredit
  <2>1. balance[a] \in Int /\ credited[a] \in 0..MaxCredit /\ balance[a] <= credited[a]
    BY DEF ShapeInv, TypeOK
  <2> QED
    BY <1>1, <2>1, ConstantsAssumption
<1>4. PlanOK'
  BY <1>1, <1>2, <1>3 DEF PlanOK
<1>5. CursorOK'
  BY <1>1, <1>2 DEF CursorOK, Steps, ShapeInv, TypeOK
<1>6. GroupsFit' /\ IndicesFit'
  BY <1>1, <1>2 DEF GroupsFit, IndicesFit
<1> QED
  BY <1>1, <1>4, <1>5, <1>6, OutsideShape, TallyKept, TypeParts, ShapeFromParts DEF ShapeInv

(* What splitPayments returns for the eligible rows and the cached         *)
(* balances.                                                               *)
LEMMA SplitFacts ==
    ASSUME TypeOK, NEW S \in SUBSET Addr, NEW order \in RowOrders(S)
    PROVE  LET gs == SplitPayments(PaymentsFor(order, cache))
           IN  /\ gs \in Seq(Group)
               /\ \A k \in DOMAIN gs :
                     /\ gs[k].payments /= <<>>
                     /\ \A j \in DOMAIN gs[k].payments :
                           /\ gs[k].payments[j].address \in S \cap WellFormed
                           /\ gs[k].payments[j].amount
                                 = Sub64(cache[gs[k].payments[j].address], Fee)
                           /\ gs[k].payments[j].amount >= Word - Fee => Len(gs[k].payments) = 1
               /\ \A k, l \in DOMAIN gs :
                     \A j \in DOMAIN gs[k].payments, m \in DOMAIN gs[l].payments :
                        gs[k].payments[j].address = gs[l].payments[m].address => k = l /\ j = m
<1> DEFINE ps == PaymentsFor(order, cache)
           gs == SplitPayments(ps)
<1>1. cache \in [Addr -> 0..MaxCredit]
  BY DEF TypeOK
<1>2. GoodSplit(gs, ps, WellFormed)
  BY <1>1, SplitAssumption
<1>3. \A n \in DOMAIN ps : ps[n].address \in S /\ ps[n].amount = Sub64(cache[ps[n].address], Fee)
  BY DEF PaymentsFor, RowOrders
<1> HIDE DEF ps, gs
<1>4. /\ gs \in Seq(Group)
      /\ \A k \in DOMAIN gs :
            /\ gs[k].payments /= <<>>
            /\ \A j \in DOMAIN gs[k].payments :
                  /\ gs[k].payments[j].address \in S \cap WellFormed
                  /\ gs[k].payments[j].amount = Sub64(cache[gs[k].payments[j].address], Fee)
                  /\ gs[k].payments[j].amount >= Word - Fee => Len(gs[k].payments) = 1
      /\ \A k, l \in DOMAIN gs :
            \A j \in DOMAIN gs[k].payments, m \in DOMAIN gs[l].payments :
               gs[k].payments[j].address = gs[l].payments[m].address => k = l /\ j = m
  BY <1>2, <1>3 DEF GoodSplit
<1> QED
  BY <1>4 DEF ps, gs

LEMMA CollectFacts ==
    ASSUME TypeOK, CollectPayments, groups' /= <<>> \/ pc' = "batch"
    PROVE  /\ pc' = "batch" /\ UNCHANGED <<outside, rows, cache, g, i, reply, tally>>
           /\ \E flagged \in SUBSET flags, bypassed \in SUBSET bypass :
              /\ "redisRead" \notin Faults => flagged = flags
              /\ \E order \in RowOrders(Eligible(flagged, bypassed)) :
                    groups' = SplitPayments(PaymentsFor(order, cache))
              /\ groups' /= <<>>
<1>1. PICK missedFlags \in MayMiss(flags), missedBypass \in MayMiss(bypass) :
        \E order \in RowOrders(Eligible(flags \ missedFlags, bypass \ missedBypass)) :
           IF SplitPayments(PaymentsFor(order, cache)) = <<>>
           THEN EndRun
           ELSE /\ groups' = SplitPayments(PaymentsFor(order, cache))
                /\ pc' = "batch"
                /\ UNCHANGED <<rows, cache, g, i, reply, tally>>
  BY DEF CollectPayments
<1>2. PICK order \in RowOrders(Eligible(flags \ missedFlags, bypass \ missedBypass)) :
           IF SplitPayments(PaymentsFor(order, cache)) = <<>>
           THEN EndRun
           ELSE /\ groups' = SplitPayments(PaymentsFor(order, cache))
                /\ pc' = "batch"
                /\ UNCHANGED <<rows, cache, g, i, reply, tally>>
  BY <1>1
<1>3. /\ groups' = SplitPayments(PaymentsFor(order, cache)) /\ groups' /= <<>>
      /\ pc' = "batch"
      /\ UNCHANGED <<rows, cache, g, i, reply, tally>>
  BY <1>2 DEF EndRun
<1>4. UNCHANGED outside
  BY DEF CollectPayments
<1>5. "redisRead" \notin Faults => flags \ missedFlags = flags
  BY DEF MayMiss
<1> QED
  BY <1>3, <1>4, <1>5

LEMMA ShapeCollect ==
    ASSUME ShapeInv, CollectPayments
    PROVE  ShapeInv'
<1> USE DEF ShapeInv
<1>1. OutsideOK' /\ CreditCovers'
  BY OutsideShape DEF CollectPayments
<1>2. CASE groups' /= <<>> \/ pc' = "batch"
  <2>1. /\ pc' = "batch" /\ UNCHANGED <<outside, rows, cache, g, i, reply, tally>>
        /\ groups' /= <<>>
    BY <1>2, CollectFacts
  <2>2. PICK flagged \in SUBSET flags, bypassed \in SUBSET bypass :
             \E order \in RowOrders(Eligible(flagged, bypassed)) :
                groups' = SplitPayments(PaymentsFor(order, cache))
    BY <1>2, CollectFacts
  <2>3. PICK order \in RowOrders(Eligible(flagged, bypassed)) :
             groups' = SplitPayments(PaymentsFor(order, cache))
    BY <2>2
  <2>4. Eligible(flagged, bypassed) \in SUBSET Addr /\ Eligible(flagged, bypassed) \subseteq Valid
    BY DEF Eligible, TypeOK
  <2> DEFINE gs == groups'
  <2>5. /\ gs \in Seq(Group)
        /\ \A k \in DOMAIN gs :
              /\ gs[k].payments /= <<>>
              /\ \A j \in DOMAIN gs[k].payments :
                    /\ gs[k].payments[j].address \in Valid \cap WellFormed
                    /\ gs[k].payments[j].amount = Sub64(cache[gs[k].payments[j].address], Fee)
                    /\ gs[k].payments[j].amount >= Word - Fee => Len(gs[k].payments) = 1
        /\ \A k, l \in DOMAIN gs :
              \A j \in DOMAIN gs[k].payments, m \in DOMAIN gs[l].payments :
                 gs[k].payments[j].address = gs[l].payments[m].address => k = l /\ j = m
    BY <2>3, <2>4, SplitFacts
  <2>6. GroupsFit'
    BY <2>1, <2>5 DEF GroupsFit, Recipient
  <2>7. PlanOK'
    BY <2>1, <2>5, TypeParts DEF PlanOK
  <2>8. i = 1 /\ g = 1
    BY DEF IndicesFit, CollectPayments
  <2>9. CursorOK' /\ IndicesFit'
    BY <2>1, <2>8, TypeParts DEF CursorOK, IndicesFit, Steps
  <2> QED
    BY <1>1, <2>1, <2>6, <2>7, <2>9, TallyKept, TypeParts, ShapeFromParts
<1>3. CASE ~(groups' /= <<>> \/ pc' = "batch")
  <2>1. EndRun
    BY <1>3 DEF CollectPayments
  <2> QED
    BY <1>1, <2>1, EndRunShape, ShapeFromParts
<1> QED
  BY <1>2, <1>3

LEMMA ShapeBatch ==
    ASSUME ShapeInv, CreateNewBatch
    PROVE  ShapeInv'
<1> USE DEF ShapeInv
<1>1. OutsideOK' /\ CreditCovers'
  BY OutsideShape DEF CreateNewBatch
<1>2. CASE EndRun
  BY <1>1, <1>2, EndRunShape, ShapeFromParts
<1>3. CASE pc = "batch" /\ pc' = "group" /\ UNCHANGED <<plan, g, i, reply, tally>>
  <2>1. groups' = groups /\ g = 1 /\ i = 1 /\ g \in DOMAIN groups
    BY <1>3 DEF IndicesFit, plan, TypeOK
  <2>2. CursorOK' /\ IndicesFit'
    BY <1>3, <2>1 DEF CursorOK, IndicesFit, Steps, TypeOK
  <2> QED
    BY <1>1, <1>3, <2>2, TypeParts, PlanKept, PlanTypeKept, TallyKept, ShapeFromParts
<1> QED
  BY <1>2, <1>3 DEF CreateNewBatch

LEMMA ShapeHalted ==
    ASSUME ShapeInv, HaltedBetweenGroups
    PROVE  ShapeInv'
<1> USE DEF ShapeInv
<1>1. OutsideOK' /\ CreditCovers'
  BY OutsideShape DEF HaltedBetweenGroups
<1>2. /\ pc' = "finish" /\ UNCHANGED <<plan, g, i, reply, successAmount, failedAmount>>
      /\ unsettled' = unsettled \cup g..Len(groups)
  BY DEF HaltedBetweenGroups
<1>3. g \in Nat /\ Len(groups) \in Nat
  BY DEF TypeOK
<1>4. g..Len(groups) \subseteq Nat
  BY <1>3
<1>5. TallyOK
  BY TypeParts
<1>6. unsettled' \subseteq Nat
  BY <1>2, <1>4, <1>5, Zenon DEF TallyOK
<1>7. TallyOK'
  BY <1>2, <1>5, <1>6 DEF TallyOK
<1>8. CursorOK' /\ IndicesFit'
  BY <1>2 DEF CursorOK, IndicesFit, Steps, TypeOK
<1> QED
  BY <1>1, <1>2, <1>7, <1>8, TypeParts, PlanKept, PlanTypeKept, ShapeFromParts

LEMMA ShapeStartGroup ==
    ASSUME ShapeInv, StartGroup
    PROVE  ShapeInv'
<1> USE DEF ShapeInv
<1>1. OutsideOK' /\ CreditCovers'
  BY OutsideShape DEF StartGroup
<1>2. pc = "group" /\ pc' = "send" /\ UNCHANGED <<plan, g, i, reply, tally>>
  BY DEF StartGroup
<1>3. CursorOK' /\ IndicesFit'
  BY <1>2 DEF CursorOK, IndicesFit, Steps, TypeOK, plan
<1> QED
  BY <1>1, <1>2, <1>3, TypeParts, PlanKept, PlanTypeKept, TallyKept, ShapeFromParts

LEMMA ShapeAnswered ==
    ASSUME ShapeInv, NEW accepted, SendAnswered(accepted)
    PROVE  ShapeInv'
<1> USE DEF ShapeInv
<1>1. /\ pc = "send" /\ pc' = "apply" /\ i' = 1 /\ accepted \subseteq Recipients(g)
      /\ paid' = [a \in Addr |-> IF a \in accepted THEN paid[a] + Charge(a) ELSE paid[a]]
      /\ UNCHANGED <<balance, redis, credited, limbo, plan, g, tally>>
  BY DEF SendAnswered
<1>2. g \in DOMAIN groups
  BY <1>1 DEF IndicesFit
<1>3. \A a \in Addr : (IF a \in accepted THEN paid[a] + Charge(a) ELSE paid[a]) \in Nat
  <2> SUFFICES ASSUME NEW a \in Addr
               PROVE  (IF a \in accepted THEN paid[a] + Charge(a) ELSE paid[a]) \in Nat
    OBVIOUS
  <2>1. paid[a] \in Nat
    BY DEF TypeOK
  <2>2. a \in accepted => Charge(a) \in Nat
    BY <1>1, <1>2, ChargeFacts
  <2> QED
    BY <2>1, <2>2
<1>4. OutsideOK' /\ CreditCovers'
  BY <1>1, <1>3, TypeParts DEF OutsideOK, CreditCovers, redis
<1>5. /\ DOMAIN Payments = 1..Len(Payments) /\ Len(Payments) \in Nat
      /\ Payments /= <<>> /\ Payments \in Seq(Payment)
  BY <1>2, PaymentFacts DEF Payments, GroupsFit
<1>6. PICK n \in 0..Len(Payments) : reply' = Answer(accepted, n)
  BY <1>5 DEF SendAnswered
<1>7. \A j \in 1..n : (Payments[j].address \in accepted) \in BOOLEAN
  OBVIOUS
<1>8. reply' \in Seq(BOOLEAN)
  BY <1>5, <1>6, <1>7 DEF Answer
<1>9. CursorOK'
  BY <1>1, <1>8 DEF CursorOK, Steps, TypeOK
<1>10. groups' = groups /\ 1 \in DOMAIN groups[g].payments
  BY <1>1, <1>5 DEF plan, Payments
<1>11. IndicesFit'
  BY <1>1, <1>2, <1>10 DEF IndicesFit
<1> QED
  BY <1>1, <1>4, <1>9, <1>11, TypeParts, PlanKept, PlanTypeKept, TallyKept, ShapeFromParts

LEMMA ShapeRefused ==
    ASSUME ShapeInv, SendRefused
    PROVE  ShapeInv'
<1>1. g \in DOMAIN groups /\ GroupFailed
  BY DEF SendRefused, ShapeInv, IndicesFit
<1> QED
  BY <1>1, GroupFailedShape, OutsideShape, ShapeFromParts DEF SendRefused

LEMMA ShapeAmbiguous ==
    ASSUME ShapeInv, SendAmbiguous
    PROVE  ShapeInv'
<1> USE DEF ShapeInv
<1>1. /\ pc = "send" /\ pc' = "flag" /\ i' = 1
      /\ limbo' = [a \in Addr |-> IF a \in Recipients(g) /\ CanFund(a)
                                  THEN limbo[a] + Charge(a) ELSE limbo[a]]
      /\ UNCHANGED <<balance, redis, credited, paid, plan, g, reply, tally>>
  BY DEF SendAmbiguous
<1>2. g \in DOMAIN groups
  BY <1>1 DEF IndicesFit
<1>3. \A a \in Addr : (IF a \in Recipients(g) /\ CanFund(a)
                       THEN limbo[a] + Charge(a) ELSE limbo[a]) \in Nat
  <2> SUFFICES ASSUME NEW a \in Addr
               PROVE  (IF a \in Recipients(g) /\ CanFund(a)
                       THEN limbo[a] + Charge(a) ELSE limbo[a]) \in Nat
    OBVIOUS
  <2>1. limbo[a] \in Nat
    BY DEF TypeOK
  <2>2. a \in Recipients(g) => Charge(a) \in Nat
    BY <1>2, ChargeFacts
  <2> QED
    BY <2>1, <2>2
<1>4. OutsideOK' /\ CreditCovers'
  BY <1>1, <1>3, TypeParts DEF OutsideOK, CreditCovers, redis
<1>5. groups' = groups /\ 1 \in DOMAIN groups[g].payments
  BY <1>1, <1>2, PaymentFacts DEF plan, GroupsFit
<1>6. CursorOK' /\ IndicesFit'
  BY <1>1, <1>2, <1>5 DEF CursorOK, IndicesFit, Steps, TypeOK
<1> QED
  BY <1>1, <1>4, <1>6, TypeParts, PlanKept, PlanTypeKept, TallyKept, ShapeFromParts

LEMMA ShapeFlag ==
    ASSUME ShapeInv, FlagRecipient
    PROVE  ShapeInv'
<1> USE DEF ShapeInv
<1>1. /\ pc = "flag"
      /\ flags' = flags \cup {Payments[i].address} \/ flags' = flags
      /\ UNCHANGED <<balance, bypass, halt, credited, wallet>>
  BY DEF FlagRecipient, reconcilePendingKey
<1>2. OutsideOK' /\ CreditCovers'
  BY <1>1, InHand, TypeParts DEF OutsideOK, CreditCovers, wallet
<1>3. CASE i < Len(Payments)
  <2>1. i' = i + 1 /\ UNCHANGED <<pc, plan, g, reply, tally>>
    BY <1>3 DEF FlagRecipient
  <2>2. groups' = groups /\ i' \in DOMAIN groups[g].payments /\ g \in DOMAIN groups
    BY <1>1, <1>3, <2>1, InHand DEF plan, Payments
  <2>3. CursorOK' /\ IndicesFit'
    BY <1>1, <2>1, <2>2 DEF CursorOK, IndicesFit, TypeOK
  <2> QED
    BY <1>2, <2>1, <2>3, TypeParts, PlanKept, PlanTypeKept, TallyKept, ShapeFromParts
<1>4. CASE ~(i < Len(Payments))
  <2>1. GroupFailed /\ g \in DOMAIN groups
    BY <1>1, <1>4, InHand DEF FlagRecipient
  <2> QED
    BY <1>2, <2>1, GroupFailedShape, ShapeFromParts
<1> QED
  BY <1>3, <1>4

LEMMA ShapeReject ==
    ASSUME ShapeInv, RejectReply
    PROVE  ShapeInv'
<1>1. g \in DOMAIN groups /\ GroupFailed
  BY DEF RejectReply, ShapeInv, IndicesFit
<1> QED
  BY <1>1, GroupFailedShape, OutsideShape, ShapeFromParts DEF RejectReply

LEMMA ShapeRecord ==
    ASSUME ShapeInv, RecordFailure
    PROVE  ShapeInv'
<1>1. TallyOK'
  BY InHand, TypeParts DEF RecordFailure, ShapeInv, TallyOK
<1> QED
  BY <1>1, NextResultShape, OutsideShape, ShapeFromParts DEF RecordFailure

LEMMA ShapeCommit ==
    ASSUME ShapeInv, CommitPayout
    PROVE  ShapeInv'
<1> USE DEF ShapeInv
<1> DEFINE b == Payments[i].address
<1>1. /\ pc = "apply" /\ Correlated /\ pc' = "unbypass"
      /\ successAmount' = successAmount + cache[b]
      /\ balance' = [balance EXCEPT ![b] = @ - cache[b]]
      /\ UNCHANGED <<redis, credited, wallet, plan, g, i, reply, failedAmount, unsettled>>
  BY DEF CommitPayout
<1>2. b \in Addr /\ cache[b] \in 0..MaxCredit
  BY <1>1, InHand
<1> HIDE DEF b
<1>3. OutsideOK'
  BY <1>1, <1>2, ConstantsAssumption, TypeParts DEF OutsideOK, redis, wallet
<1>4. CreditCovers'
  BY <1>1, <1>2, ConstantsAssumption DEF CreditCovers, TypeOK
<1>5. TallyOK'
  BY <1>1, <1>2, ConstantsAssumption, TypeParts DEF TallyOK
<1>6. CursorOK' /\ IndicesFit'
  BY <1>1 DEF CursorOK, IndicesFit, Steps, TypeOK, plan, Correlated, Payments
<1> QED
  BY <1>1, <1>3, <1>4, <1>5, <1>6, TypeParts, PlanKept, PlanTypeKept, ShapeFromParts

LEMMA ShapeLose ==
    ASSUME ShapeInv, LosePayout
    PROVE  ShapeInv'
<1> USE DEF ShapeInv
<1>1. OutsideOK' /\ CreditCovers'
  BY OutsideShape DEF LosePayout
<1>2. TallyOK'
  BY InHand, TypeParts DEF LosePayout, TallyOK
<1>3. CASE NextResult
  BY <1>1, <1>2, <1>3, NextResultShape, ShapeFromParts DEF LosePayout
<1>4. CASE pc' = "unbypass" /\ UNCHANGED <<plan, g, i, reply>>
  <2>1. CursorOK' /\ IndicesFit'
    BY <1>4 DEF CursorOK, IndicesFit, Steps, TypeOK, plan, Correlated, Payments, LosePayout
  <2> QED
    BY <1>1, <1>2, <1>4, <2>1, TypeParts, PlanKept, PlanTypeKept, ShapeFromParts
<1> QED
  BY <1>3, <1>4 DEF LosePayout

LEMMA ShapeUnbypass ==
    ASSUME ShapeInv, ClearBypass
    PROVE  ShapeInv'
<1> USE DEF ShapeInv
<1>1. pc = "unbypass" /\ Correlated /\ NextResult
  BY DEF ClearBypass, IndicesFit
<1>2. OutsideOK' /\ CreditCovers'
  BY TypeParts DEF ClearBypass, OutsideOK, CreditCovers, wallet
<1>3. TallyOK'
  BY TallyKept, TypeParts DEF ClearBypass
<1> QED
  BY <1>1, <1>2, <1>3, NextResultShape, ShapeFromParts

LEMMA ShapeEnd ==
    ASSUME ShapeInv, UpdateBatchAmounts \/ Crash
    PROVE  ShapeInv'
<1>1. EndRun /\ UNCHANGED outside
  BY DEF UpdateBatchAmounts, Crash
<1> QED
  BY <1>1, EndRunShape, OutsideShape, ShapeFromParts

LEMMA ShapeInit == Init => ShapeInv
<1> SUFFICES ASSUME Init PROVE ShapeInv
  OBVIOUS
<1>1. OutsideOK
  <2>1. MaxCredit \in Nat
    BY ConstantsAssumption
  <2>2. 0 \in 0..MaxCredit
    BY <2>1
  <2>3. halt \in BOOLEAN
    BY DEF Init
  <2>4. /\ balance \in [Addr -> Int] /\ credited \in [Addr -> 0..MaxCredit]
        /\ paid \in [Addr -> Nat] /\ limbo \in [Addr -> Nat]
    BY <2>2 DEF Init
  <2>5. flags \subseteq Addr /\ bypass \subseteq Addr
    BY DEF Init
  <2> QED
    BY <2>3, <2>4, <2>5 DEF OutsideOK
<1>2. PlanOK /\ TallyOK /\ CursorOK
  BY ConstantsAssumption DEF Init, PlanOK, TallyOK, CursorOK, Steps, NoCache
<1>3. GroupsFit /\ IndicesFit
  BY DEF Init, GroupsFit, IndicesFit
<1> QED
  BY <1>1, <1>2, <1>3, TypeParts DEF ShapeInv, Init

LEMMA ShapeStep == ShapeInv /\ [Next]_vars => ShapeInv'
<1> SUFFICES ASSUME ShapeInv, [Next]_vars PROVE ShapeInv'
  OBVIOUS
<1>1. CASE World
  BY <1>1, ShapeWorld
<1>2. CASE performPayouts
  BY <1>2, ShapeStart
<1>3. CASE Run
  BY <1>3, ShapeCollect, ShapeBatch, ShapeHalted, ShapeStartGroup, ShapeAnswered,
     ShapeRefused, ShapeAmbiguous, ShapeFlag, ShapeReject, ShapeRecord, ShapeCommit,
     ShapeLose, ShapeUnbypass, ShapeEnd DEF Run
<1>4. CASE Crash
  BY <1>4, ShapeEnd
<1>5. CASE UNCHANGED vars
  <2>1. UNCHANGED outside /\ UNCHANGED locals
    BY <1>5 DEF vars, outside, locals, plan, tally, redis, wallet
  <2> QED
    BY <2>1, OutsideShape, LocalsShape, ShapeFromParts
<1> QED
  BY <1>1, <1>2, <1>3, <1>4, <1>5 DEF Next

(* Every variable keeps its type, and a run its shape: the indices of the  *)
(* group and of the result in hand are never out of range, and the groups  *)
(* stay what splitPayments made of the cached balances, whatever fails.    *)
THEOREM Shape == Spec => []ShapeInv
  BY ShapeInit, ShapeStep, PTL DEF Spec

(* In particular every variable keeps its type: no fault, no interleaving  *)
(* with the operator or the pool makes a row exceed what the pool credited *)
(* or a tally negative.                                                    *)
THEOREM TypeCorrect == Spec => []TypeOK
<1>1. ShapeInv => TypeOK
  BY DEF ShapeInv
<1> QED
  BY <1>1, Shape, PTL

(* A balance below the fee wraps around when the fee is taken off, and the *)
(* payment, which no wallet can fund, is alone in its group: the others of *)
(* a batch do not fail with it.                                            *)
THEOREM UnderflowsAreAlone == Spec => []UnderflowIsAlone
<1> SUFFICES ShapeInv => UnderflowIsAlone
  BY Shape, PTL
<1>1. ASSUME ShapeInv, NEW k \in DOMAIN groups, NEW a \in Recipients(k), cache[a] < Fee
      PROVE  Recipients(k) = {a}
  <2>1. PICK j \in DOMAIN groups[k].payments : a = Recipient(k, j)
    BY DEF Recipients
  <2>2. a \in Addr /\ cache[a] \in 0..MaxCredit
    BY <1>1, <2>1, PaymentFacts DEF ShapeInv, TypeOK
  <2>3. groups[k].payments[j].amount = Sub64(cache[a], Fee)
    BY <1>1, <2>1 DEF ShapeInv, GroupsFit
  <2>4. groups[k].payments[j].amount >= Word - Fee
    BY <1>1, <2>2, <2>3, ConstantsAssumption DEF Sub64
  <2>5. Len(groups[k].payments) = 1
    BY <1>1, <2>1, <2>4 DEF ShapeInv, GroupsFit
  <2>6. DOMAIN groups[k].payments = {1}
    BY <1>1, <2>5, PaymentFacts DEF ShapeInv
  <2> QED
    BY <2>1, <2>6 DEF Recipients
<1> QED
  BY <1>1 DEF UnderflowIsAlone

(* The rows that a run may not touch: what it does to money or to a flag   *)
(* it does to recipients of the group in hand.                             *)
Excluded == Addr \ (Valid \cap WellFormed)

LEMMA NotARecipient ==
    ASSUME ShapeInv, g \in DOMAIN groups, NEW a \in Excluded
    PROVE  a \notin Recipients(g)
BY DEF ShapeInv, GroupsFit, Recipients, Excluded

LEMMA ExcludedStep ==
    ASSUME ShapeInv, ExcludedUntouched, [Next]_vars
    PROVE  ExcludedUntouched'
<1> SUFFICES ASSUME NEW a \in Excluded
             PROVE  paid'[a] = 0 /\ limbo'[a] = 0 /\ balance'[a] = credited'[a] /\ a \notin flags'
  BY DEF ExcludedUntouched, Excluded
<1>1. a \in Addr /\ paid[a] = 0 /\ limbo[a] = 0 /\ balance[a] = credited[a] /\ a \notin flags
  BY DEF ExcludedUntouched, Excluded
<1>2. /\ balance \in [Addr -> Int] /\ credited \in [Addr -> 0..MaxCredit]
      /\ paid \in [Addr -> Nat] /\ limbo \in [Addr -> Nat]
  BY DEF ShapeInv, TypeOK
<1>3. CASE UNCHANGED outside
  BY <1>1, <1>3 DEF outside, redis, wallet
<1>4. ASSUME NEW b \in Addr, Credit(b)
      PROVE  balance'[a] = credited'[a] /\ UNCHANGED <<flags, paid, limbo>>
  BY <1>1, <1>2, <1>4 DEF Credit, redis, wallet
<1>5. ASSUME NEW b \in Addr, WalletResolves(b)
      PROVE  paid'[a] = 0 /\ limbo'[a] = 0 /\ UNCHANGED <<balance, credited, flags>>
  <2>1. limbo[b] > 0 /\ b /= a
    BY <1>1, <1>5 DEF WalletResolves
  <2> QED
    BY <1>1, <1>2, <1>5, <2>1 DEF WalletResolves, redis
<1>6. ASSUME NEW b \in Addr, Reconcile(b)
      PROVE  balance'[a] = balance[a] /\ a \notin flags' /\ UNCHANGED <<credited, paid, limbo>>
  <2>1. b /= a
    BY <1>1, <1>6 DEF Reconcile
  <2> QED
    BY <1>1, <1>2, <1>6, <2>1 DEF Reconcile, wallet
<1>7. CASE World
  BY <1>1, <1>4, <1>5, <1>6, <1>7 DEF World, ClearReconcileFlag, GrantBypass, SetTxnHalt, UnsetTxnHalt, wallet
<1>8. ASSUME NEW accepted \in SUBSET Addr, SendAnswered(accepted)
      PROVE  paid'[a] = 0 /\ UNCHANGED <<balance, credited, limbo, flags>>
  <2>1. a \notin accepted
    BY <1>8, NotARecipient DEF SendAnswered, ShapeInv, IndicesFit
  <2> QED
    BY <1>1, <1>8, <2>1 DEF SendAnswered, redis
<1>9. CASE SendAmbiguous
  <2>1. a \notin Recipients(g)
    BY <1>9, NotARecipient DEF SendAmbiguous, ShapeInv, IndicesFit
  <2> QED
    BY <1>1, <1>9, <2>1 DEF SendAmbiguous, redis
<1>10. ASSUME pc = "flag" \/ (pc \in {"apply", "unbypass"} /\ Correlated)
       PROVE  Payments[i].address /= a /\ Payments[i].address \in Addr
  <2>1. /\ g \in DOMAIN groups /\ i \in DOMAIN Payments
        /\ Payments[i].address = Recipient(g, i) /\ Payments[i].address \in Addr
    BY <1>10, InHand
  <2>2. Recipient(g, i) \in Recipients(g)
    BY <2>1 DEF Recipients, Payments
  <2> QED
    BY <2>1, <2>2, NotARecipient
<1>11. CASE FlagRecipient
  BY <1>1, <1>10, <1>11 DEF FlagRecipient, reconcilePendingKey, wallet
<1>12. CASE CommitPayout
  <2>1. Payments[i].address /= a /\ Payments[i].address \in Addr
    BY <1>10, <1>12 DEF CommitPayout
  <2> QED
    BY <1>1, <1>2, <1>12, <2>1 DEF CommitPayout, redis, wallet
<1>13. CASE ClearBypass
  BY <1>1, <1>13 DEF ClearBypass, wallet
<1>14. CASE Run
  BY <1>1, <1>3, <1>8, <1>9, <1>11, <1>12, <1>13, <1>14
     DEF Run, CollectPayments, CreateNewBatch, HaltedBetweenGroups, StartGroup, SendRefused,
         RejectReply, RecordFailure, LosePayout, UpdateBatchAmounts
<1>15. CASE UNCHANGED vars
  BY <1>1, <1>15 DEF vars
<1> QED
  BY <1>3, <1>7, <1>14, <1>15 DEF Next, performPayouts, Crash

(* A row that is not valid or has a malformed address is never sent to,    *)
(* debited or flagged, whatever fails: CollectPayments and splitPayments   *)
(* keep it out of every group.                                             *)
THEOREM ExcludedLeftAlone == Spec => []ExcludedUntouched
<1>1. Init => ExcludedUntouched
  BY DEF Init, ExcludedUntouched
<1>2. ShapeInv /\ ExcludedUntouched /\ [Next]_vars => ExcludedUntouched'
  BY ExcludedStep
<1> QED
  BY <1>1, <1>2, Shape, PTL DEF Spec
-----------------------------------------------------------------------------
(* The totals of a run.  The groups up to the one in hand are settled: no  *)
(* result was counted for one, or all of its results were.  Of the group   *)
(* in hand the results up to the one in hand have been counted.            *)
Settled(n) == SumFunctionOnSet(GroupAmount, (1..n) \ unsettled)
Counted(n) == SumFunctionOnSet(cache, {Recipient(g, j) : j \in 1..n})
ResultsCounted == IF pc = "unbypass" THEN i ELSE IF pc = "apply" /\ Correlated THEN i - 1 ELSE 0

TallyInv ==
    /\ pc \in {"idle", "collect", "batch"} =>
          successAmount = 0 /\ failedAmount = 0 /\ unsettled = {}
    /\ pc \in {"group", "send", "flag", "apply", "unbypass"} =>
          /\ unsettled \subseteq 1..(g - 1)
          /\ successAmount + failedAmount = Settled(g - 1) + Counted(ResultsCounted)
    /\ pc = "finish" =>
          /\ unsettled \subseteq DOMAIN groups
          /\ successAmount + failedAmount = Settled(Len(groups))

(* The recipients of the first n payments of a group, and their sum.       *)
LEMMA RecipientsSum ==
    ASSUME ShapeInv, NEW k \in DOMAIN groups, NEW n \in 0..Len(groups[k].payments)
    PROVE  Summable(cache, {Recipient(k, j) : j \in 1..n})
<1> DEFINE f == [j \in 1..n |-> Recipient(k, j)]
<1>1. \A j \in 1..n : Recipient(k, j) \in Addr
  BY PaymentFacts DEF ShapeInv
<1>2. IsFiniteSet(1..n)
  BY FS_Interval
<1>3. IsFiniteSet({f[j] : j \in 1..n})
  <2>1. f = [j \in 1..n |-> f[j]]
    OBVIOUS
  <2> HIDE DEF f
  <2> QED
    BY <1>2, <2>1, ImageFinite
<1>4. {f[j] : j \in 1..n} = {Recipient(k, j) : j \in 1..n}
  OBVIOUS
<1>5. ASSUME NEW a \in Addr PROVE cache[a] \in Nat
  <2>1. cache[a] \in 0..MaxCredit
    BY DEF ShapeInv, TypeOK
  <2>2. MaxCredit \in Nat
    BY ConstantsAssumption
  <2> QED
    BY <2>1, <2>2
<1> HIDE DEF f
<1> QED
  BY <1>1, <1>3, <1>4, <1>5 DEF Summable

LEMMA RecipientsAll ==
    ASSUME ShapeInv, NEW k \in DOMAIN groups
    PROVE  /\ Recipients(k) = {Recipient(k, j) : j \in 1..Len(groups[k].payments)}
           /\ GroupAmount[k] = SumFunctionOnSet(cache, Recipients(k))
           /\ GroupAmount[k] \in Nat
<1>1. Recipients(k) = {Recipient(k, j) : j \in 1..Len(groups[k].payments)}
  BY PaymentFacts DEF ShapeInv, Recipients
<1>2. GroupAmount[k] = SumFunctionOnSet(cache, Recipients(k))
  BY DEF GroupAmount
<1>3. Len(groups[k].payments) \in 0..Len(groups[k].payments)
  BY PaymentFacts DEF ShapeInv
<1>4. Summable(cache, Recipients(k))
  BY <1>1, <1>3, RecipientsSum
<1> QED
  BY <1>1, <1>2, <1>4, SumNat

LEMMA GroupsSum ==
    ASSUME ShapeInv, NEW S \in SUBSET DOMAIN groups
    PROVE  Summable(GroupAmount, S)
<1>1. DOMAIN groups = 1..Len(groups) /\ Len(groups) \in Int
  BY DEF ShapeInv, TypeOK
<1>2. IsFiniteSet(DOMAIN groups)
  BY <1>1, FS_Interval
<1> QED
  BY <1>2, FS_Subset, RecipientsAll DEF Summable

(* One result more is counted.                                             *)
LEMMA CountOne ==
    ASSUME ShapeInv, pc \in {"apply", "unbypass"}, Correlated
    PROVE  /\ Counted(i) = Counted(i - 1) + cache[Payments[i].address]
           /\ Counted(i - 1) \in Nat
<1> DEFINE P == {Recipient(g, j) : j \in 1..(i - 1)}
           a == Recipient(g, i)
<1>1. /\ g \in DOMAIN groups /\ i \in 1..Len(groups[g].payments) /\ i \in Nat
      /\ a = Payments[i].address /\ cache[a] \in Nat
      /\ DOMAIN groups[g].payments = 1..Len(groups[g].payments) /\ Len(groups[g].payments) \in Nat
  <2>1. cache[a] \in Nat
    BY InHand, ConstantsAssumption
  <2> QED
    BY <2>1, InHand DEF Payments
<1>2. i - 1 \in 0..Len(groups[g].payments)
  BY <1>1
<1>3. Summable(cache, P)
  BY <1>1, <1>2, RecipientsSum
<1>4. a \notin P
  <2> SUFFICES ASSUME NEW j \in 1..(i - 1), Recipient(g, j) = Recipient(g, i) PROVE FALSE
    OBVIOUS
  <2>1. j \in DOMAIN groups[g].payments /\ i \in DOMAIN groups[g].payments /\ j /= i
    BY <1>1
  <2> QED
    BY <1>1, <2>1 DEF ShapeInv, GroupsFit
<1>5. {Recipient(g, j) : j \in 1..i} = P \cup {a}
  <2>1. \A j : j \in 1..i <=> j \in 1..(i - 1) \/ j = i
    BY <1>1
  <2> QED
    BY <2>1
<1> HIDE DEF P, a
<1>6. SumFunctionOnSet(cache, P \cup {a}) = SumFunctionOnSet(cache, P) + cache[a]
  BY <1>1, <1>3, <1>4, SumAdd
<1>7. SumFunctionOnSet(cache, P) \in Nat
  BY <1>3, SumNat
<1>8. Counted(i) = SumFunctionOnSet(cache, P \cup {a}) /\ Counted(i - 1) = SumFunctionOnSet(cache, P)
  BY <1>5 DEF Counted, P
<1> QED
  BY <1>1, <1>6, <1>7, <1>8

(* The group in hand is settled with the last of its results.              *)
LEMMA SettleOne ==
    ASSUME ShapeInv, g \in DOMAIN groups, unsettled \subseteq 1..(g - 1)
    PROVE  /\ Settled(g) = Settled(g - 1) + GroupAmount[g]
           /\ Settled(g - 1) \in Nat
<1> DEFINE S == (1..(g - 1)) \ unsettled
<1>1. g \in 1..Len(groups) /\ Len(groups) \in Nat /\ g \in Nat /\ DOMAIN groups = 1..Len(groups)
  BY DEF ShapeInv, TypeOK
<1>2. S \in SUBSET DOMAIN groups /\ g \notin S /\ (1..g) \ unsettled = S \cup {g}
  <2>1. g \notin 1..(g - 1) /\ \A k : k \in 1..g <=> k \in 1..(g - 1) \/ k = g
    BY <1>1
  <2>2. 1..(g - 1) \subseteq 1..Len(groups)
    BY <1>1
  <2> QED
    BY <1>1, <2>1, <2>2
<1>3. Settled(g) = SumFunctionOnSet(GroupAmount, S \cup {g}) /\ Settled(g - 1) = SumFunctionOnSet(GroupAmount, S)
  BY <1>2 DEF Settled
<1> HIDE DEF S
<1>4. Summable(GroupAmount, S) /\ GroupAmount[g] \in Nat
  BY <1>2, GroupsSum, RecipientsAll
<1> QED
  BY <1>2, <1>3, <1>4, SumAdd, SumNat

(* Before the first group, and before the first result of a group.         *)
LEMMA NoneYet == \A h, U : SumFunctionOnSet(h, (1..0) \ U) = 0
<1>1. \A U : (1..0) \ U = {}
  OBVIOUS
<1> QED
  BY <1>1, SumEmpty

LEMMA NoneCounted == Counted(0) = 0 /\ Counted(0)' = 0
<1>1. {Recipient(g, j) : j \in 1..0} = {} /\ {Recipient(g, j) : j \in 1..0}' = {}
  OBVIOUS
<1> QED
  BY <1>1, SumEmpty DEF Counted

(* The steps that only move between the parts of a run, or end it.         *)
LEMMA TallyStays ==
    ASSUME TallyInv, UNCHANGED locals
    PROVE  TallyInv'
<1>1. /\ pc' = pc /\ g' = g /\ i' = i /\ reply' = reply /\ groups' = groups /\ cache' = cache
      /\ successAmount' = successAmount /\ failedAmount' = failedAmount /\ unsettled' = unsettled
  BY DEF locals, plan, tally
<1>2. GroupAmount' = GroupAmount
  BY <1>1 DEF GroupAmount, Recipients, Recipient
<1>3. /\ Settled(g - 1)' = Settled(g - 1) /\ Settled(Len(groups))' = Settled(Len(groups))
      /\ Counted(ResultsCounted)' = Counted(ResultsCounted)
  BY <1>1, <1>2 DEF Settled, Counted, ResultsCounted, Correlated, Payments, Recipient
<1> QED
  BY <1>1, <1>3 DEF TallyInv

LEMMA TallyBegins ==
    ASSUME TallyInv, pc \in {"idle", "collect"}, pc' \in {"collect", "batch"}, UNCHANGED tally
    PROVE  TallyInv'
BY DEF TallyInv, tally

LEMMA TallyEnds == ASSUME EndRun PROVE TallyInv'
BY DEF EndRun, TallyInv

LEMMA GroupAmountKept ==
    ASSUME UNCHANGED plan
    PROVE  groups' = groups /\ cache' = cache /\ GroupAmount' = GroupAmount
<1>1. groups' = groups /\ cache' = cache
  BY DEF plan
<1> QED
  BY <1>1 DEF GroupAmount, Recipients, Recipient

(* Into a part of a run where no result of the group in hand is counted.   *)
LEMMA TallyMiddle ==
    ASSUME pc' \in {"group", "send", "flag", "apply"}, ResultsCounted' = 0,
           unsettled' \subseteq 1..(g' - 1),
           successAmount' + failedAmount' = Settled(g - 1)', Settled(g - 1)' \in Nat
    PROVE  TallyInv'
<1>1. Counted(ResultsCounted)' = 0
  <2>1. 1..0 = {}
    OBVIOUS
  <2>2. Counted(ResultsCounted)' = SumFunctionOnSet(cache', {})
    BY <2>1 DEF Counted
  <2> QED
    BY <2>2, SumEmpty
<1>2. Settled(g - 1)' = Settled(g - 1)' + Counted(ResultsCounted)'
  BY <1>1
<1> QED
  BY <1>2 DEF TallyInv

(* No result is counted while the wallet is asked and recipients flagged.  *)
LEMMA TallyWaits ==
    ASSUME ShapeInv, TallyInv, pc \in {"group", "send", "flag"},
           pc' \in {"group", "send", "flag", "apply"}, ResultsCounted' = 0, UNCHANGED <<plan, g, tally>>
    PROVE  TallyInv'
<1>1. unsettled \subseteq 1..(g - 1) /\ successAmount + failedAmount = Settled(g - 1) + Counted(0)
  BY DEF TallyInv, ResultsCounted
<1>2. g \in DOMAIN groups
  BY DEF ShapeInv, IndicesFit
<1>3. Settled(g - 1) \in Nat /\ Counted(0) = 0
  BY <1>1, <1>2, SettleOne, NoneCounted
<1>4. Settled(g - 1)' = Settled(g - 1)
  BY GroupAmountKept DEF Settled, tally
<1>5. successAmount' + failedAmount' = Settled(g - 1)' /\ unsettled' \subseteq 1..(g' - 1)
  BY <1>1, <1>3, <1>4 DEF tally
<1> QED
  BY <1>3, <1>4, <1>5, TallyMiddle

LEMMA TallyBatch ==
    ASSUME ShapeInv, TallyInv, CreateNewBatch
    PROVE  TallyInv'
<1>1. CASE EndRun
  BY <1>1, TallyEnds
<1>2. CASE pc' = "group" /\ UNCHANGED <<plan, g, i, reply, tally>>
  <2>1. g = 1 /\ unsettled = {} /\ successAmount = 0 /\ failedAmount = 0
    BY DEF CreateNewBatch, ShapeInv, IndicesFit, TallyInv
  <2>2. g' - 1 = 0 /\ unsettled' = {} /\ successAmount' + failedAmount' = 0
    BY <1>2, <2>1 DEF tally
  <2>3. Settled(g - 1)' = 0
    BY <2>2, NoneYet DEF Settled
  <2>4. ResultsCounted' = 0
    BY <1>2 DEF ResultsCounted
  <2> QED
    BY <1>2, <2>2, <2>3, <2>4, TallyMiddle
<1> QED
  BY <1>1, <1>2 DEF CreateNewBatch

(* Halted before group g: it and all after it are unsettled.               *)
LEMMA TallyHalted ==
    ASSUME ShapeInv, TallyInv, HaltedBetweenGroups
    PROVE  TallyInv'
<1>1. /\ pc = "group" /\ pc' = "finish" /\ unsettled' = unsettled \cup g..Len(groups)
      /\ UNCHANGED plan /\ successAmount' = successAmount /\ failedAmount' = failedAmount
  BY DEF HaltedBetweenGroups
<1>2. unsettled \subseteq 1..(g - 1) /\ successAmount + failedAmount = Settled(g - 1) + Counted(0)
  BY <1>1 DEF TallyInv, ResultsCounted
<1>3. g \in DOMAIN groups /\ DOMAIN groups = 1..Len(groups) /\ Len(groups) \in Nat
  BY <1>1 DEF ShapeInv, TypeOK, IndicesFit
<1>4. Settled(g - 1) \in Nat /\ Counted(0) = 0
  BY <1>2, <1>3, SettleOne, NoneCounted
<1>5. unsettled' \subseteq DOMAIN groups /\ (1..Len(groups)) \ unsettled' = (1..(g - 1)) \ unsettled
  <2>1. \A k : k \in 1..(g - 1) <=> k \in 1..Len(groups) /\ k \notin g..Len(groups)
    BY <1>3
  <2>2. g..Len(groups) \subseteq 1..Len(groups)
    BY <1>3
  <2> QED
    BY <1>1, <1>2, <1>3, <2>1, <2>2
<1>6. Settled(Len(groups))' = Settled(g - 1)
  BY <1>1, <1>5, GroupAmountKept DEF Settled
<1>7. successAmount' + failedAmount' = Settled(Len(groups))' /\ unsettled' \subseteq DOMAIN groups'
  BY <1>1, <1>2, <1>4, <1>5, <1>6, GroupAmountKept
<1> QED
  BY <1>1, <1>7 DEF TallyInv

(* Out of the loop, or to the next group, when the one in hand is settled. *)
LEMMA TallyNextGroup ==
    ASSUME ShapeInv, g \in DOMAIN groups, NextGroup, unsettled' \subseteq 1..g,
           successAmount' + failedAmount' = SumFunctionOnSet(GroupAmount, (1..g) \ unsettled')
    PROVE  TallyInv'
<1>1. UNCHANGED plan /\ groups' = groups /\ GroupAmount' = GroupAmount
  BY GroupAmountKept DEF NextGroup
<1>2. g \in Nat /\ Len(groups) \in Nat /\ g <= Len(groups) /\ DOMAIN groups = 1..Len(groups)
  BY DEF ShapeInv, TypeOK
<1>3. CASE g < Len(groups)
  <2>1. pc' = "group" /\ g' = g + 1 /\ g' - 1 = g
    BY <1>2, <1>3 DEF NextGroup
  <2>2. Settled(g - 1)' = SumFunctionOnSet(GroupAmount, (1..g) \ unsettled')
    BY <1>1, <2>1 DEF Settled
  <2>3. Summable(GroupAmount, (1..g) \ unsettled')
    <3>1. 1..g \subseteq 1..Len(groups)
      BY <1>2
    <3> QED
      BY <1>2, <3>1, GroupsSum
  <2>4. ResultsCounted' = 0
    BY <2>1 DEF ResultsCounted
  <2> QED
    BY <2>1, <2>2, <2>3, <2>4, SumNat, TallyMiddle
<1>4. CASE ~(g < Len(groups))
  <2>1. pc' = "finish" /\ g = Len(groups)
    BY <1>2, <1>4 DEF NextGroup
  <2>2. Settled(Len(groups))' = SumFunctionOnSet(GroupAmount, (1..g) \ unsettled')
    BY <1>1, <2>1 DEF Settled
  <2>3. unsettled' \subseteq DOMAIN groups'
    BY <1>1, <1>2, <2>1
  <2> QED
    BY <2>1, <2>2, <2>3 DEF TallyInv
<1> QED
  BY <1>3, <1>4

LEMMA TallyGroupFailed ==
    ASSUME ShapeInv, TallyInv, g \in DOMAIN groups, pc \in {"send", "flag", "apply"},
           ResultsCounted = 0, GroupFailed
    PROVE  TallyInv'
<1>1. unsettled \subseteq 1..(g - 1) /\ successAmount + failedAmount = Settled(g - 1) + Counted(0)
  BY DEF TallyInv
<1>2. Settled(g - 1) \in Nat /\ Counted(0) = 0
  BY <1>1, SettleOne, NoneCounted
<1>3. g \in Nat \ {0}
  BY DEF ShapeInv, TypeOK
<1>4. unsettled' \subseteq 1..g /\ (1..g) \ unsettled' = (1..(g - 1)) \ unsettled
  <2>1. \A k : k \in 1..(g - 1) <=> k \in 1..g /\ k /= g
    BY <1>3
  <2>2. g \in 1..g
    BY <1>3
  <2> QED
    BY <1>1, <2>1, <2>2 DEF GroupFailed
<1>5. successAmount' + failedAmount' = SumFunctionOnSet(GroupAmount, (1..g) \ unsettled')
  <2>1. successAmount' = successAmount /\ failedAmount' = failedAmount
    BY DEF GroupFailed
  <2>2. Settled(g - 1) = SumFunctionOnSet(GroupAmount, (1..g) \ unsettled')
    BY <1>4 DEF Settled
  <2>3. successAmount + failedAmount = Settled(g - 1)
    BY <1>1, <1>2
  <2> QED
    BY <2>1, <2>2, <2>3
<1> QED
  BY <1>4, <1>5, TallyNextGroup DEF GroupFailed

LEMMA TallyNextResult ==
    ASSUME ShapeInv, pc \in {"apply", "unbypass"}, Correlated, unsettled \subseteq 1..(g - 1),
           NextResult, unsettled' = unsettled,
           successAmount' + failedAmount' = Settled(g - 1) + Counted(i)
    PROVE  TallyInv'
<1>1. /\ g \in DOMAIN groups /\ i \in 1..Len(Payments) /\ Len(Payments) \in Nat
      /\ Len(reply) = Len(Payments) /\ g \in Nat /\ i \in Nat
  BY InHand DEF Correlated, ShapeInv, TypeOK
<1>2. CASE i < Len(reply)
  <2>1. /\ pc' = "apply" /\ i' = i + 1 /\ g' = g /\ reply' = reply /\ UNCHANGED plan
    BY <1>2 DEF NextResult
  <2>2. groups' = groups /\ cache' = cache /\ GroupAmount' = GroupAmount
    BY <2>1, GroupAmountKept
  <2>3. ResultsCounted' = i
    BY <1>1, <2>1, <2>2 DEF ResultsCounted, Correlated, Payments
  <2>4. Counted(ResultsCounted)' = Counted(i) /\ Settled(g - 1)' = Settled(g - 1)
    BY <2>1, <2>2, <2>3 DEF Counted, Settled, Recipient
  <2> QED
    BY <2>1, <2>4 DEF TallyInv
<1>3. CASE ~(i < Len(reply))
  <2>1. NextGroup /\ i = Len(Payments)
    BY <1>1, <1>3 DEF NextResult
  <2>2. Counted(i) = GroupAmount[g]
    BY <1>1, <2>1, RecipientsAll DEF Counted, Payments
  <2>3. successAmount' + failedAmount' = Settled(g)
    BY <1>1, <2>2, SettleOne
  <2>4. unsettled' \subseteq 1..g
    <3>1. 1..(g - 1) \subseteq 1..g
      BY <1>1
    <3> QED
      BY <3>1
  <2> QED
    BY <1>1, <2>1, <2>3, <2>4, TallyNextGroup DEF Settled
<1> QED
  BY <1>2, <1>3

(* The result in hand is counted, and the loop goes on or clears a bypass. *)
LEMMA TallyResult ==
    ASSUME ShapeInv, TallyInv, pc = "apply", Correlated, unsettled' = unsettled,
           successAmount' + failedAmount' = successAmount + failedAmount + cache[Payments[i].address],
           NextResult \/ (pc' = "unbypass" /\ UNCHANGED <<plan, g, i, reply>>)
    PROVE  TallyInv'
<1>1. unsettled \subseteq 1..(g - 1) /\ successAmount + failedAmount = Settled(g - 1) + Counted(i - 1)
  BY DEF TallyInv, ResultsCounted
<1>2. g \in DOMAIN groups /\ cache[Payments[i].address] \in Nat
  BY InHand, ConstantsAssumption
<1>3. Settled(g - 1) \in Nat
  BY <1>1, <1>2, SettleOne
<1>4. Counted(i) = Counted(i - 1) + cache[Payments[i].address] /\ Counted(i - 1) \in Nat
  BY CountOne
<1>5. successAmount' + failedAmount' = Settled(g - 1) + Counted(i)
  BY <1>1, <1>2, <1>3, <1>4
<1>6. CASE NextResult
  BY <1>1, <1>5, <1>6, TallyNextResult
<1>7. CASE pc' = "unbypass" /\ UNCHANGED <<plan, g, i, reply>>
  <2>1. groups' = groups /\ cache' = cache /\ GroupAmount' = GroupAmount
    BY <1>7, GroupAmountKept
  <2>2. Counted(ResultsCounted)' = Counted(i) /\ Settled(g - 1)' = Settled(g - 1)
    BY <1>7, <2>1 DEF Counted, Settled, ResultsCounted, Recipient
  <2> QED
    BY <1>1, <1>5, <1>7, <2>2 DEF TallyInv
<1> QED
  BY <1>6, <1>7

LEMMA TallyStep == ShapeInv /\ TallyInv /\ [Next]_vars => TallyInv'
<1> SUFFICES ASSUME ShapeInv, TallyInv, [Next]_vars PROVE TallyInv'
  OBVIOUS
<1>1. CASE World \/ UNCHANGED vars
  <2>1. UNCHANGED locals
    BY <1>1 DEF World, Credit, WalletResolves, Reconcile, ClearReconcileFlag, GrantBypass,
           SetTxnHalt, UnsetTxnHalt, vars, locals, plan, tally
  <2> QED
    BY <2>1, TallyStays
<1>2. CASE performPayouts
  BY <1>2, TallyBegins DEF performPayouts
<1>3. CASE CollectPayments
  <2>1. EndRun \/ (pc = "collect" /\ pc' = "batch" /\ UNCHANGED tally)
    BY <1>3 DEF CollectPayments
  <2> QED
    BY <2>1, TallyEnds, TallyBegins
<1>4. CASE CreateNewBatch
  BY <1>4, TallyBatch
<1>5. CASE HaltedBetweenGroups
  BY <1>5, TallyHalted
<1>6. CASE StartGroup
  <2>1. ResultsCounted' = 0
    BY <1>6 DEF StartGroup, ResultsCounted
  <2> QED
    BY <1>6, <2>1, TallyWaits DEF StartGroup
<1>7. ASSUME NEW accepted, SendAnswered(accepted) PROVE TallyInv'
  <2>1. pc' = "apply" /\ i' = 1 /\ pc = "send" /\ UNCHANGED <<plan, g, tally>>
    BY <1>7 DEF SendAnswered
  <2>2. ResultsCounted' = 0
    BY <2>1 DEF ResultsCounted
  <2> QED
    BY <2>1, <2>2, TallyWaits
<1>8. CASE SendRefused \/ RejectReply
  <2>1. g \in DOMAIN groups /\ GroupFailed /\ pc \in {"send", "apply"} /\ ResultsCounted = 0
    BY <1>8 DEF SendRefused, RejectReply, ResultsCounted, ShapeInv, IndicesFit
  <2> QED
    BY <2>1, TallyGroupFailed
<1>9. CASE SendAmbiguous
  <2>1. ResultsCounted' = 0
    BY <1>9 DEF SendAmbiguous, ResultsCounted
  <2> QED
    BY <1>9, <2>1, TallyWaits DEF SendAmbiguous
<1>10. CASE FlagRecipient
  <2>1. pc = "flag" /\ ResultsCounted = 0 /\ g \in DOMAIN groups
    BY <1>10 DEF FlagRecipient, ResultsCounted, ShapeInv, IndicesFit
  <2>2. CASE GroupFailed
    BY <2>1, <2>2, TallyGroupFailed
  <2>3. CASE UNCHANGED <<pc, plan, g, reply, tally>>
    <3>1. pc' = "flag" /\ ResultsCounted' = 0
      BY <2>1, <2>3 DEF ResultsCounted
    <3> QED
      BY <2>1, <2>3, <3>1, TallyWaits
  <2> QED
    BY <1>10, <2>2, <2>3 DEF FlagRecipient
<1>11. CASE RecordFailure \/ CommitPayout \/ LosePayout
  <2>1. /\ pc = "apply" /\ Correlated /\ unsettled' = unsettled
        /\ NextResult \/ (pc' = "unbypass" /\ UNCHANGED <<plan, g, i, reply>>)
    BY <1>11 DEF RecordFailure, CommitPayout, LosePayout
  <2>2. \/ /\ successAmount' = successAmount + cache[Payments[i].address]
           /\ failedAmount' = failedAmount
        \/ /\ failedAmount' = failedAmount + cache[Payments[i].address]
           /\ successAmount' = successAmount
    BY <1>11 DEF RecordFailure, CommitPayout, LosePayout
  <2>3. successAmount \in Nat /\ failedAmount \in Nat /\ cache[Payments[i].address] \in Nat
    BY <2>1, InHand, ConstantsAssumption DEF ShapeInv, TypeOK
  <2>4. successAmount' + failedAmount' = successAmount + failedAmount + cache[Payments[i].address]
    BY <2>2, <2>3
  <2> QED
    BY <2>1, <2>4, TallyResult
<1>12. CASE ClearBypass
  <2>1. pc = "unbypass" /\ Correlated /\ NextResult /\ UNCHANGED tally
    BY <1>12 DEF ClearBypass, ShapeInv, IndicesFit
  <2>2. unsettled \subseteq 1..(g - 1) /\ successAmount + failedAmount = Settled(g - 1) + Counted(i)
    BY <2>1 DEF TallyInv, ResultsCounted
  <2> QED
    BY <2>1, <2>2, TallyNextResult DEF tally
<1>13. CASE UpdateBatchAmounts \/ Crash
  BY <1>13, TallyEnds DEF UpdateBatchAmounts, Crash
<1> QED
  BY <1>1, <1>2, <1>3, <1>4, <1>5, <1>6, <1>7, <1>8, <1>9, <1>10, <1>11, <1>12, <1>13 DEF Next, Run

(* The amounts a run counts as sent and as failed, and those of the groups *)
(* that went unanswered, make up all it set out to pay, whatever fails:    *)
(* successAmount and failedAmount of performPayouts.                       *)
THEOREM TallyIsComplete == Spec => []TallyComplete
<1>1. Init => TallyInv
  BY DEF Init, TallyInv
<1>2. ShapeInv /\ TallyInv => TallyComplete
  <2> SUFFICES ASSUME ShapeInv, TallyInv, pc = "finish"
               PROVE  SumFunctionOnSet(GroupAmount, DOMAIN groups)
                         = successAmount + failedAmount + SumFunctionOnSet(GroupAmount, unsettled)
    BY DEF TallyComplete
  <2> DEFINE D == DOMAIN groups
  <2>1. unsettled \in SUBSET D /\ successAmount + failedAmount = Settled(Len(groups)) /\ D = 1..Len(groups)
    BY DEF TallyInv, ShapeInv, TypeOK
  <2>2. Settled(Len(groups)) = SumFunctionOnSet(GroupAmount, D \ unsettled)
    BY <2>1 DEF Settled
  <2>3. Summable(GroupAmount, D) /\ Summable(GroupAmount, unsettled) /\ Summable(GroupAmount, D \ unsettled)
    BY <2>1, GroupsSum
  <2> HIDE DEF D
  <2>4. SumFunctionOnSet(GroupAmount, D)
          = SumFunctionOnSet(GroupAmount, unsettled) + SumFunctionOnSet(GroupAmount, D \ unsettled)
    <3> DEFINE h == GroupAmount
    <3>1. Summable(h, D) /\ unsettled \in SUBSET D
      BY <2>1, <2>3
    <3> HIDE DEF h
    <3>2. SumFunctionOnSet(h, D) = SumFunctionOnSet(h, unsettled) + SumFunctionOnSet(h, D \ unsettled)
      BY <3>1, SumUnion
    <3> QED
      BY <3>2 DEF h
  <2>5. /\ SumFunctionOnSet(GroupAmount, unsettled) \in Nat
        /\ SumFunctionOnSet(GroupAmount, D \ unsettled) \in Nat
    BY <2>3, SumNat
  <2> QED
    BY <2>1, <2>2, <2>4, <2>5 DEF D
<1> QED
  BY <1>1, <1>2, Shape, TallyStep, PTL DEF Spec
-----------------------------------------------------------------------------
(* How the actions move the cursor of a run, as far as the addresses it    *)
(* still has to deal with are concerned.                                   *)

(* A result of the group in hand behind the one in hand is a payout of a.  *)
Later(a) == \E j \in DOMAIN Payments : j > i /\ reply[j] /\ Recipient(g, j) = a

LEMMA LocalsSame ==
    ASSUME UNCHANGED locals, NEW a
    PROVE  /\ Unsent(a)' <=> Unsent(a)
           /\ ToBook(a)' <=> ToBook(a)
           /\ ToFlag(a)' <=> ToFlag(a)
BY DEF locals, plan, Unsent, ToBook, ToFlag, Recipients, Recipient, Correlated, Payments

LEMMA EndRunNone ==
    ASSUME EndRun, NEW a
    PROVE  ~Unsent(a)' /\ ~ToBook(a)' /\ ~ToFlag(a)'
BY DEF EndRun, Unsent, ToBook, ToFlag

LEMMA NextGroupLess ==
    ASSUME TypeOK, NextGroup, NEW a
    PROVE  /\ Unsent(a)' => \E k \in DOMAIN groups : a \in Recipients(k) /\ k > g
           /\ ~ToBook(a)' /\ ~ToFlag(a)'
<1>1. /\ \/ g' = g + 1 /\ pc' = "group"
         \/ g' = g /\ pc' = "finish"
      /\ groups' = groups /\ g \in Nat
  BY DEF NextGroup, plan, TypeOK
<1>2. DOMAIN groups = 1..Len(groups) /\ Len(groups) \in Nat
  BY DEF TypeOK
<1> QED
  BY <1>1, <1>2 DEF Unsent, ToBook, ToFlag, Recipients, Recipient

LEMMA BehindIsUnsent ==
    ASSUME NEW a, \E k \in DOMAIN groups : a \in Recipients(k) /\ k > g
    PROVE  Unsent(a)
BY DEF Unsent

LEMMA NextResultLess ==
    ASSUME ShapeInv, pc \in {"apply", "unbypass"}, Correlated, NextResult, NEW a
    PROVE  /\ Unsent(a)' => Unsent(a)
           /\ ToBook(a)' <=> Later(a)
           /\ ~ToFlag(a)'
<1>1. /\ i \in 1..Len(Payments) /\ Len(reply) = Len(Payments) /\ Len(Payments) \in Nat
      /\ DOMAIN Payments = 1..Len(Payments) /\ i \in Nat
  BY InHand DEF Correlated
<1>2. CASE i < Len(reply)
  <2>1. /\ pc' = "apply" /\ i' = i + 1 /\ groups' = groups /\ g' = g /\ reply' = reply
    BY <1>2 DEF NextResult, plan
  <2>2. Unsent(a)' => Unsent(a)
    BY <2>1 DEF Unsent, Recipients, Recipient
  <2>3. ToBook(a)' <=> Later(a)
    BY <1>1, <2>1 DEF ToBook, Later, Correlated, Payments, Recipient
  <2>4. ~ToFlag(a)'
    BY <2>1 DEF ToFlag
  <2> QED
    BY <2>2, <2>3, <2>4
<1>3. CASE ~(i < Len(reply))
  <2>1. NextGroup
    BY <1>3 DEF NextResult
  <2>2. ~Later(a)
    BY <1>1, <1>3 DEF Later
  <2> QED
    BY <2>1, <2>2, NextGroupLess, BehindIsUnsent DEF ShapeInv
<1> QED
  BY <1>2, <1>3

LEMMA BookingIs ==
    ASSUME ShapeInv, pc \in {"apply", "unbypass"}, Correlated, NEW a
    PROVE  /\ ToBook(a) <=> Later(a) \/ (pc = "apply" /\ reply[i] /\ Recipient(g, i) = a)
           /\ Later(a) => a /= Recipient(g, i)
<1>1. /\ g \in DOMAIN groups /\ i \in DOMAIN Payments /\ i \in Nat
      /\ DOMAIN Payments = 1..Len(Payments)
  BY InHand
<1>2. ToBook(a) <=> Later(a) \/ (pc = "apply" /\ reply[i] /\ Recipient(g, i) = a)
  BY <1>1 DEF ToBook, Later
<1>3. Later(a) => a /= Recipient(g, i)
  BY <1>1 DEF Later, ShapeInv, GroupsFit, Payments
<1> QED
  BY <1>2, <1>3

(* The recipients of the group in hand are in no group behind it.          *)
LEMMA HandedOver ==
    ASSUME ShapeInv, g \in DOMAIN groups, NEW a \in Recipients(g)
    PROVE  /\ ~(\E k \in DOMAIN groups : a \in Recipients(k) /\ k > g)
           /\ pc \in {"apply", "unbypass", "flag"} => ~Unsent(a)
<1>1. ASSUME NEW k \in DOMAIN groups, a \in Recipients(k) PROVE k = g
  BY <1>1 DEF Recipients, ShapeInv, GroupsFit
<1>2. g \in Nat
  BY DEF ShapeInv, TypeOK
<1> QED
  BY <1>1, <1>2 DEF Unsent
-----------------------------------------------------------------------------
(* SafeInv is inductive while reads of Redis do not fail.                  *)
LEMMA SafeFacts ==
    ASSUME SafeInv, NEW a \in Addr
    PROVE  /\ balance[a] \in Int /\ balance[a] >= 0
           /\ credited[a] \in Int /\ paid[a] \in Int /\ limbo[a] \in Nat
           /\ cache[a] \in Int /\ cache[a] >= 0 /\ cache[a] <= MaxCredit /\ MaxCredit \in Nat
           /\ Unsent(a) \/ ToBook(a) => a \notin flags /\ cache[a] <= balance[a]
           /\ credited[a] - balance[a] <= paid[a]
           /\ ToBook(a) => credited[a] - balance[a] + cache[a] <= paid[a]
<1>1. /\ balance[a] \in Int /\ credited[a] \in 0..MaxCredit /\ paid[a] \in Nat
      /\ limbo[a] \in Nat /\ cache[a] \in 0..MaxCredit
  BY DEF SafeInv, ShapeInv, TypeOK
<1>2. MaxCredit \in Nat
  BY ConstantsAssumption
<1>3. credited[a] - balance[a] + (IF ToBook(a) THEN cache[a] ELSE 0) <= paid[a]
  BY DEF SafeInv, PaidCovered
<1>4. balance[a] >= 0
  BY DEF SafeInv, NoOverdraft
<1>5. Unsent(a) \/ ToBook(a) => a \notin flags /\ cache[a] <= balance[a]
  BY DEF SafeInv, CacheCovered
<1> QED
  BY <1>1, <1>2, <1>3, <1>4, <1>5

(* A step that ends obligations of the run, or pays, or lifts flags.       *)
LEMMA SafeFromLess ==
    ASSUME SafeInv, ShapeInv',
           UNCHANGED <<balance, credited>>,
           \A a \in Addr : paid'[a] >= paid[a],
           flags' \subseteq flags,
           \/ UNCHANGED <<cache, rows>> /\ (pc' = "collect" => pc = "collect")
           \/ pc' /= "collect" /\ \A a \in Addr : ~Unsent(a)' /\ ~ToBook(a)',
           \A a \in Addr : (Unsent(a)' => Unsent(a)) /\ (ToBook(a)' => ToBook(a))
    PROVE  SafeInv'
<1>1. NoOverdraft'
  BY DEF SafeInv, NoOverdraft
<1>2. CacheCovered'
  <2>1. pc' = "collect" => \A a \in rows' : cache'[a] <= balance'[a]
    BY DEF SafeInv, CacheCovered
  <2>2. ASSUME NEW a \in Addr, Unsent(a)' \/ ToBook(a)'
        PROVE  a \notin flags' /\ cache'[a] <= balance'[a]
    BY <2>2, SafeFacts
  <2> QED
    BY <2>1, <2>2 DEF CacheCovered
<1>3. PaidCovered'
  <2> SUFFICES ASSUME NEW a \in Addr
               PROVE  (credited[a] - balance[a] + (IF ToBook(a) THEN cache[a] ELSE 0) <= paid[a])'
    BY DEF PaidCovered
  <2>1. /\ balance'[a] = balance[a] /\ credited'[a] = credited[a] /\ paid'[a] >= paid[a]
        /\ ToBook(a)' => ToBook(a) /\ cache'[a] = cache[a]
        /\ paid'[a] \in Int /\ cache'[a] \in Int
    BY DEF ShapeInv, TypeOK
  <2> QED
    BY <2>1, SafeFacts
<1> QED
  BY <1>1, <1>2, <1>3 DEF SafeInv

(* What the balance a run has read depends on until its flag has been read *)
(* as well: the EXISTS of the flag does not fail, and nobody settles the   *)
(* flag in between.                                                        *)
FlagsAreRead == "redisRead" \notin Faults /\ "midRead" \notin Faults

LEMMA SafeWorld ==
    ASSUME SafeInv, ShapeInv', World, FlagsAreRead
    PROVE  SafeInv'
<1>1. UNCHANGED locals
  BY DEF World, Credit, WalletResolves, Reconcile, ClearReconcileFlag, GrantBypass,
         SetTxnHalt, UnsetTxnHalt
<1>2. pc' = pc /\ cache' = cache /\ rows' = rows
  BY <1>1 DEF locals, plan
<1>3. \A a \in Addr : (Unsent(a)' <=> Unsent(a)) /\ (ToBook(a)' <=> ToBook(a))
  BY <1>1, LocalsSame
<1>4. ASSUME NEW b \in Addr, Credit(b) PROVE SafeInv'
  <2>1. PICK c \in Credits : /\ credited' = [credited EXCEPT ![b] = @ + c]
                             /\ balance' = [balance EXCEPT ![b] = @ + c]
    BY <1>4 DEF Credit
  <2>2. c \in Nat /\ flags' = flags /\ paid' = paid
    BY <1>4, ConstantsAssumption DEF Credit, redis, wallet
  <2>3. \A a \in Addr : /\ balance'[a] >= balance[a]
                        /\ credited'[a] - balance'[a] = credited[a] - balance[a]
                        /\ balance'[a] \in Int /\ credited'[a] \in Int
    <3>1. /\ balance \in [Addr -> Int] /\ credited \in [Addr -> 0..MaxCredit]
          /\ MaxCredit \in Nat
      BY ConstantsAssumption DEF SafeInv, ShapeInv, TypeOK
    <3>2. ASSUME NEW a \in Addr
          PROVE  /\ balance'[a] = IF a = b THEN balance[a] + c ELSE balance[a]
                 /\ credited'[a] = IF a = b THEN credited[a] + c ELSE credited[a]
                 /\ balance[a] \in Int /\ credited[a] \in Nat
      BY <2>1, <3>1
    <3> QED
      BY <2>2, <3>2
  <2>4. NoOverdraft'
    BY <2>3, SafeFacts DEF NoOverdraft
  <2>5. PaidCovered'
    BY <1>2, <1>3, <2>2, <2>3 DEF SafeInv, PaidCovered
  <2>6. rows \subseteq Addr
    BY DEF SafeInv, ShapeInv, TypeOK
  <2>7. pc' = "collect" => \A a \in rows' : cache'[a] <= balance'[a]
    <3> SUFFICES ASSUME pc' = "collect", NEW a \in rows' PROVE cache'[a] <= balance'[a]
      OBVIOUS
    <3>1. a \in Addr /\ cache[a] <= balance[a]
      BY <1>2, <2>6 DEF SafeInv, CacheCovered
    <3> QED
      BY <1>2, <2>3, <3>1, SafeFacts
  <2>8. CacheCovered'
    BY <1>2, <1>3, <2>2, <2>3, <2>7, SafeFacts DEF CacheCovered
  <2> QED
    BY <2>4, <2>5, <2>8 DEF SafeInv
<1>5. ASSUME NEW b \in Addr, WalletResolves(b) PROVE SafeInv'
  <2>1. \A a \in Addr : paid'[a] >= paid[a]
    <3>1. limbo[b] \in Nat /\ paid \in [Addr -> Nat]
      BY DEF SafeInv, ShapeInv, TypeOK
    <3> QED
      BY <1>5, <3>1 DEF WalletResolves
  <2> QED
    BY <1>2, <1>3, <1>5, <2>1, SafeFromLess DEF WalletResolves, redis
<1>6. ASSUME NEW b \in Addr, Reconcile(b) PROVE SafeInv'
  <2>1. /\ b \in flags /\ pc /= "collect" /\ flags' = flags \ {b}
        /\ 0 <= Unbooked(b) /\ Unbooked(b) <= balance[b]
        /\ balance' = [balance EXCEPT ![b] = @ - Unbooked(b)]
        /\ credited' = credited /\ paid' = paid
    BY <1>6 DEF Reconcile, wallet, FlagsAreRead
  <2>2. ~Unsent(b) /\ ~ToBook(b)
    BY <2>1, SafeFacts
  <2>3. /\ balance'[b] = balance[b] - Unbooked(b)
        /\ \A a \in Addr : a /= b => balance'[a] = balance[a]
    BY <2>1 DEF SafeInv, ShapeInv, TypeOK
  <2>4. balance'[b] >= 0 /\ credited[b] - balance'[b] <= paid[b]
    BY <2>1, <2>3, SafeFacts DEF Unbooked
  <2>5. NoOverdraft'
    BY <2>3, <2>4, SafeFacts DEF NoOverdraft
  <2>6. PaidCovered'
    <3> SUFFICES ASSUME NEW a \in Addr
                 PROVE  (credited[a] - balance[a] + (IF ToBook(a) THEN cache[a] ELSE 0)
                            <= paid[a])'
      BY DEF PaidCovered
    <3>1. CASE a = b
      BY <1>3, <2>1, <2>2, <2>4, <3>1, SafeFacts, ShapeInv' DEF ShapeInv, TypeOK
    <3>2. CASE a /= b
      BY <1>2, <1>3, <2>1, <2>3, <3>2 DEF SafeInv, PaidCovered
    <3> QED
      BY <3>1, <3>2
  <2>7. CacheCovered'
    BY <1>2, <1>3, <2>1, <2>2, <2>3, SafeFacts DEF CacheCovered
  <2> QED
    BY <2>5, <2>6, <2>7 DEF SafeInv
<1>7. ASSUME NEW b \in Addr, ClearReconcileFlag(b) \/ GrantBypass(b) PROVE SafeInv'
  <2>1. /\ UNCHANGED <<balance, credited, paid>> /\ flags' \subseteq flags
    BY <1>7 DEF ClearReconcileFlag, GrantBypass, wallet
  <2>2. \A a \in Addr : paid'[a] >= paid[a]
    BY <2>1, SafeFacts
  <2> QED
    BY <1>2, <1>3, <2>1, <2>2, SafeFromLess
<1>8. ASSUME SetTxnHalt \/ UnsetTxnHalt PROVE SafeInv'
  <2>1. /\ UNCHANGED <<balance, credited, paid, flags>>
    BY <1>8 DEF SetTxnHalt, UnsetTxnHalt, wallet
  <2>2. \A a \in Addr : paid'[a] >= paid[a]
    BY <2>1, SafeFacts
  <2> QED
    BY <1>2, <1>3, <2>1, <2>2, SafeFromLess
<1> QED
  BY <1>4, <1>5, <1>6, <1>7, <1>8 DEF World

LEMMA SafeStart ==
    ASSUME SafeInv, ShapeInv', performPayouts
    PROVE  SafeInv'
<1>1. /\ pc = "idle" /\ pc' = "collect"
      /\ cache' = [a \in Addr |-> IF a \in rows' THEN balance[a] ELSE 0]
      /\ UNCHANGED <<outside, groups>>
  BY DEF performPayouts
<1>2. rows' \subseteq Addr
  BY DEF ShapeInv, TypeOK
<1>3. groups' = <<>> /\ UNCHANGED <<balance, credited, paid, flags>>
  BY <1>1 DEF SafeInv, ShapeInv, IndicesFit, outside, redis, wallet
<1>4. \A a \in Addr : ~Unsent(a)' /\ ~ToBook(a)'
  BY <1>1, <1>3 DEF Unsent, ToBook
<1>5. CacheCovered'
  BY <1>1, <1>2, <1>3, <1>4, SafeFacts DEF CacheCovered
<1>6. NoOverdraft'
  BY <1>3 DEF SafeInv, NoOverdraft
<1>7. PaidCovered'
  BY <1>3, <1>4, SafeFacts DEF PaidCovered
<1> QED
  BY <1>5, <1>6, <1>7 DEF SafeInv

LEMMA SafeCollect ==
    ASSUME SafeInv, ShapeInv', CollectPayments, FlagsAreRead
    PROVE  SafeInv'
<1>1. UNCHANGED <<balance, credited, paid, flags>>
  BY DEF CollectPayments, outside, redis, wallet
<1>2. \A a \in Addr : paid'[a] >= paid[a]
  BY <1>1, SafeFacts
<1>3. CASE groups' /= <<>> \/ pc' = "batch"
  <2>1. pc = "collect" /\ pc' = "batch" /\ UNCHANGED <<rows, cache>> /\ TypeOK
    BY <1>3, CollectFacts DEF SafeInv, ShapeInv, CollectPayments
  <2>2. PICK bypassed \in SUBSET bypass :
           \E order \in RowOrders(Eligible(flags, bypassed)) :
              groups' = SplitPayments(PaymentsFor(order, cache))
    BY <1>3, <2>1, CollectFacts DEF FlagsAreRead
  <2>3. PICK order \in RowOrders(Eligible(flags, bypassed)) :
              groups' = SplitPayments(PaymentsFor(order, cache))
    BY <2>2
  <2>4. Eligible(flags, bypassed) \in SUBSET Addr
    BY <2>1 DEF Eligible, TypeOK
  <2>5. \A k \in DOMAIN groups' : \A j \in DOMAIN groups'[k].payments :
           groups'[k].payments[j].address \in Eligible(flags, bypassed)
    BY <2>1, <2>3, <2>4, SplitFacts
  <2>6. ASSUME NEW a \in Addr
        PROVE  /\ Unsent(a)' => a \notin flags' /\ cache'[a] <= balance'[a]
               /\ ~ToBook(a)'
    <3>1. Unsent(a)' => a \in Eligible(flags, bypassed)
      BY <2>5 DEF Unsent, Recipients, Recipient
    <3>2. a \in Eligible(flags, bypassed) => a \in rows /\ a \notin flags
      BY DEF Eligible
    <3>3. a \in rows => cache[a] <= balance[a]
      BY <2>1 DEF SafeInv, CacheCovered
    <3>4. ~ToBook(a)'
      BY <2>1 DEF ToBook
    <3> QED
      BY <1>1, <2>1, <3>1, <3>2, <3>3, <3>4
  <2>7. CacheCovered'
    BY <2>1, <2>6 DEF CacheCovered
  <2>8. NoOverdraft'
    BY <1>1 DEF SafeInv, NoOverdraft
  <2>9. PaidCovered'
    BY <1>1, <2>6, SafeFacts DEF PaidCovered
  <2> QED
    BY <2>7, <2>8, <2>9 DEF SafeInv
<1>4. CASE ~(groups' /= <<>> \/ pc' = "batch")
  <2>1. EndRun
    BY <1>4 DEF CollectPayments
  <2>2. pc' /= "collect"
    BY <2>1 DEF EndRun
  <2> QED
    BY <1>1, <1>2, <2>1, <2>2, EndRunNone, SafeFromLess
<1> QED
  BY <1>3, <1>4

LEMMA SafeEndRun ==
    ASSUME SafeInv, ShapeInv', EndRun, UNCHANGED outside
    PROVE  SafeInv'
<1>1. UNCHANGED <<balance, credited, paid, flags>> /\ pc' /= "collect"
  BY DEF outside, redis, wallet, EndRun
<1>2. \A a \in Addr : paid'[a] >= paid[a]
  BY <1>1, SafeFacts
<1> QED
  BY <1>1, <1>2, EndRunNone, SafeFromLess

LEMMA SafeNextGroup ==
    ASSUME SafeInv, ShapeInv', NextGroup, UNCHANGED <<balance, credited, paid, flags>>
    PROVE  SafeInv'
<1>1. UNCHANGED <<cache, rows>> /\ pc' /= "collect"
  BY DEF NextGroup, plan
<1>2. \A a \in Addr : paid'[a] >= paid[a]
  BY SafeFacts
<1>3. \A a \in Addr : (Unsent(a)' => Unsent(a)) /\ (ToBook(a)' => ToBook(a))
  BY NextGroupLess, BehindIsUnsent DEF SafeInv, ShapeInv
<1> QED
  BY <1>1, <1>2, <1>3, SafeFromLess

LEMMA SafeBatch ==
    ASSUME SafeInv, ShapeInv', CreateNewBatch \/ HaltedBetweenGroups \/ StartGroup
    PROVE  SafeInv'
<1>1. CASE EndRun
  BY <1>1, SafeEndRun DEF CreateNewBatch, HaltedBetweenGroups, StartGroup
<1>2. CASE ~EndRun
  <2>1. /\ UNCHANGED <<balance, credited, paid, flags, cache, rows, groups, g>>
        /\ \/ pc = "batch" /\ pc' = "group"
           \/ pc = "group" /\ pc' \in {"send", "finish"}
    BY <1>2 DEF CreateNewBatch, HaltedBetweenGroups, StartGroup, outside, redis, wallet, plan
  <2>2. \A a \in Addr : (Unsent(a)' => Unsent(a)) /\ (ToBook(a)' => ToBook(a))
    BY <2>1 DEF Unsent, ToBook, Recipients, Recipient
  <2>3. \A a \in Addr : paid'[a] >= paid[a]
    BY <2>1, SafeFacts
  <2> QED
    BY <2>1, <2>2, <2>3, SafeFromLess
<1> QED
  BY <1>1, <1>2

(* What an answer of the wallet that correlates makes the run book: what   *)
(* it has just paid.                                                       *)
LEMMA AnsweredFacts ==
    ASSUME SafeInv, NEW accepted, SendAnswered(accepted), NEW a \in Addr
    PROVE  /\ ~ToBook(a) /\ ~ToFlag(a) /\ ~ToFlag(a)'
           /\ Unsent(a)' => Unsent(a) /\ a \notin accepted
           /\ ToBook(a)' => a \in accepted
           /\ a \in accepted => /\ Unsent(a) /\ CanFund(a)
                                /\ Charge(a) \in Nat /\ Charge(a) >= cache[a]
                                /\ paid'[a] = paid[a] + Charge(a)
                                /\ Charge(a) <= WalletFunds => Charge(a) = cache[a]
           /\ a \notin accepted => paid'[a] = paid[a]
<1>1. /\ pc = "send" /\ pc' = "apply" /\ i' = 1 /\ accepted \subseteq Recipients(g)
      /\ paid' = [x \in Addr |-> IF x \in accepted THEN paid[x] + Charge(x) ELSE paid[x]]
      /\ \A x \in accepted : CanFund(x)
      /\ UNCHANGED plan /\ groups' = groups /\ g' = g
  BY DEF SendAnswered, plan
<1>2. g \in DOMAIN groups /\ TypeOK /\ GroupsFit
  BY <1>1 DEF SafeInv, ShapeInv, IndicesFit
<1>3. ~ToBook(a) /\ ~ToFlag(a) /\ ~ToFlag(a)'
  BY <1>1 DEF ToBook, ToFlag
<1>4. Unsent(a)' => \E k \in DOMAIN groups : a \in Recipients(k) /\ k > g
  BY <1>1 DEF Unsent, Recipients, Recipient
<1>5. a \in accepted => ~(\E k \in DOMAIN groups : a \in Recipients(k) /\ k > g)
  BY <1>1, <1>2, HandedOver DEF SafeInv
<1>6. ToBook(a)' => a \in accepted
  <2>1. SUFFICES ASSUME ToBook(a)' PROVE a \in accepted
    OBVIOUS
  <2>2. PICK j \in DOMAIN Payments : Len(reply') = Len(Payments) /\ reply'[j]
                                     /\ Recipient(g, j) = a
    BY <1>1, <2>1 DEF ToBook, Correlated, Payments, Recipient
  <2>3. /\ DOMAIN Payments = 1..Len(Payments) /\ Len(Payments) \in Nat
        /\ Payments \in Seq(Payment)
    BY <1>2, PaymentFacts DEF Payments
  <2>4. PICK n \in 0..Len(Payments) : reply' = Answer(accepted, n)
    BY <2>3 DEF SendAnswered
  <2>5. Len(Answer(accepted, n)) = n
    BY <2>3 DEF Answer
  <2>6. reply'[j] = (Payments[j].address \in accepted)
    BY <2>2, <2>3, <2>4, <2>5 DEF Answer
  <2> QED
    BY <2>2, <2>6 DEF Recipient, Payments
<1>7. a \in accepted => Unsent(a)
  BY <1>1, <1>2 DEF Unsent
<1>8. a \in accepted => /\ CanFund(a) /\ Charge(a) \in Nat /\ Charge(a) >= cache[a]
                        /\ Charge(a) <= WalletFunds => Charge(a) = cache[a]
  BY <1>1, <1>2, ChargeFacts
<1> QED
  BY <1>1, <1>3, <1>4, <1>5, <1>6, <1>7, <1>8, BehindIsUnsent

LEMMA SafeAnswered ==
    ASSUME SafeInv, ShapeInv', NEW accepted, SendAnswered(accepted)
    PROVE  SafeInv'
<1>1. UNCHANGED <<balance, credited, flags, cache>> /\ pc' = "apply"
  BY DEF SendAnswered, redis, plan
<1>2. NoOverdraft'
  BY <1>1 DEF SafeInv, NoOverdraft
<1>3. ASSUME NEW a \in Addr, Unsent(a)' \/ ToBook(a)'
      PROVE  a \notin flags' /\ cache'[a] <= balance'[a]
  <2>1. Unsent(a)
    BY <1>3, AnsweredFacts
  <2> QED
    BY <1>1, <2>1, SafeFacts
<1>4. CacheCovered'
  BY <1>1, <1>3 DEF CacheCovered
<1>5. PaidCovered'
  <2> SUFFICES ASSUME NEW a \in Addr
               PROVE  (credited[a] - balance[a] + (IF ToBook(a) THEN cache[a] ELSE 0) <= paid[a])'
    BY DEF PaidCovered
  <2>1. CASE a \in accepted
    BY <1>1, <2>1, SafeFacts, AnsweredFacts
  <2>2. CASE a \notin accepted
    BY <1>1, <2>2, SafeFacts, AnsweredFacts
  <2> QED
    BY <2>1, <2>2
<1> QED
  BY <1>2, <1>4, <1>5 DEF SafeInv

LEMMA SafeRefused ==
    ASSUME SafeInv, ShapeInv', SendRefused \/ RejectReply
    PROVE  SafeInv'
<1>1. NextGroup /\ UNCHANGED <<balance, credited, paid, flags>>
  BY DEF SendRefused, RejectReply, GroupFailed, outside, redis, wallet
<1> QED
  BY <1>1, SafeNextGroup

LEMMA SafeAmbiguous ==
    ASSUME SafeInv, ShapeInv', SendAmbiguous
    PROVE  SafeInv'
<1>1. /\ UNCHANGED <<balance, credited, paid, flags, cache, rows, groups, g>>
      /\ pc = "send" /\ pc' = "flag"
  BY DEF SendAmbiguous, redis, plan
<1>2. \A a \in Addr : (Unsent(a)' => Unsent(a)) /\ (ToBook(a)' => ToBook(a))
  BY <1>1 DEF Unsent, ToBook, Recipients, Recipient
<1>3. \A a \in Addr : paid'[a] >= paid[a]
  BY <1>1, SafeFacts
<1> QED
  BY <1>1, <1>2, <1>3, SafeFromLess

(* What a turn of the flagging loop leaves for the run to do.              *)
LEMMA FlagFacts ==
    ASSUME SafeInv, FlagRecipient, NEW a \in Addr
    PROVE  /\ ~ToBook(a) /\ ~ToBook(a)'
           /\ Unsent(a)' => Unsent(a) /\ a \notin Recipients(g)
           /\ Recipient(g, i) \in Recipients(g) /\ Recipient(g, i) \in Addr
           /\ ToFlag(a) => ToFlag(a)' \/ a = Recipient(g, i)
           /\ ToFlag(a)' => ToFlag(a)
           /\ pc' /= "collect" /\ UNCHANGED <<balance, credited, paid, limbo, cache, rows>>
           /\ \/ flags' = flags \cup {Recipient(g, i)}
              \/ flags' = flags /\ "redisWrite" \in Faults
<1>1. /\ pc = "flag" /\ ShapeInv
      /\ UNCHANGED <<balance, credited, paid, limbo>>
      /\ \/ flags' = flags \cup {Recipient(g, i)}
         \/ flags' = flags /\ "redisWrite" \in Faults
  BY DEF FlagRecipient, SafeInv, wallet, reconcilePendingKey, Recipient, Payments
<1>2. /\ g \in DOMAIN groups /\ i \in DOMAIN Payments /\ i \in 1..Len(Payments)
      /\ Len(Payments) \in Nat /\ DOMAIN Payments = 1..Len(Payments)
      /\ Recipient(g, i) \in Addr
  BY <1>1, InHand
<1>3. Recipient(g, i) \in Recipients(g)
  BY <1>2 DEF Recipients, Payments
<1>4. ~ToBook(a)
  BY <1>1 DEF ToBook
<1>5. CASE i < Len(Payments)
  <2>1. /\ i' = i + 1 /\ pc' = "flag" /\ groups' = groups /\ g' = g
        /\ UNCHANGED <<cache, rows>>
    BY <1>1, <1>5 DEF FlagRecipient, plan
  <2>2. Unsent(a)' => \E k \in DOMAIN groups : a \in Recipients(k) /\ k > g
    BY <2>1 DEF Unsent, Recipients, Recipient
  <2>3. ToFlag(a) => ToFlag(a)' \/ a = Recipient(g, i)
    BY <1>1, <1>2, <2>1 DEF ToFlag, Payments, Recipient
  <2>4. ToFlag(a)' => ToFlag(a)
    BY <1>1, <1>2, <2>1 DEF ToFlag, Payments, Recipient
  <2>5. ~ToBook(a)'
    BY <2>1 DEF ToBook
  <2>6. Unsent(a)' => Unsent(a) /\ a \notin Recipients(g)
    BY <1>1, <1>2, <2>2, BehindIsUnsent, HandedOver
  <2> QED
    BY <1>1, <1>2, <1>3, <1>4, <2>1, <2>3, <2>4, <2>5, <2>6
<1>6. CASE ~(i < Len(Payments))
  <2>1. NextGroup /\ UNCHANGED <<cache, rows>> /\ pc' /= "collect"
    BY <1>6 DEF FlagRecipient, GroupFailed, NextGroup, plan
  <2>2. /\ Unsent(a)' => \E k \in DOMAIN groups : a \in Recipients(k) /\ k > g
        /\ ~ToBook(a)' /\ ~ToFlag(a)'
    BY <1>1, <2>1, NextGroupLess DEF ShapeInv
  <2>3. ToFlag(a) => a = Recipient(g, i)
    BY <1>2, <1>6 DEF ToFlag
  <2>4. Unsent(a)' => Unsent(a) /\ a \notin Recipients(g)
    BY <1>1, <1>2, <2>2, BehindIsUnsent, HandedOver
  <2> QED
    BY <1>1, <1>2, <1>3, <1>4, <2>1, <2>2, <2>3, <2>4
<1> QED
  BY <1>5, <1>6

LEMMA SafeFlag ==
    ASSUME SafeInv, ShapeInv', FlagRecipient
    PROVE  SafeInv'
<1>1. NoOverdraft'
  BY FlagFacts DEF SafeInv, NoOverdraft
<1>2. ASSUME NEW a \in Addr, Unsent(a)' \/ ToBook(a)'
      PROVE  a \notin flags' /\ cache'[a] <= balance'[a]
  BY <1>2, FlagFacts, SafeFacts
<1>3. pc' /= "collect"
  BY DEF FlagRecipient, GroupFailed, NextGroup
<1>4. CacheCovered'
  BY <1>2, <1>3 DEF CacheCovered
<1>5. PaidCovered'
  <2> SUFFICES ASSUME NEW a \in Addr
               PROVE  (credited[a] - balance[a] + (IF ToBook(a) THEN cache[a] ELSE 0) <= paid[a])'
    BY DEF PaidCovered
  <2> QED
    BY FlagFacts, SafeFacts
<1> QED
  BY <1>1, <1>4, <1>5 DEF SafeInv

(* The turns of atomicBalanceUpdates.                                      *)
LEMMA UnbypassLess ==
    ASSUME ShapeInv, pc = "apply", Correlated, pc' = "unbypass", UNCHANGED <<plan, g, i, reply>>,
           NEW a
    PROVE  /\ Unsent(a)' => Unsent(a)
           /\ ToBook(a)' <=> Later(a)
           /\ ~ToFlag(a)'
<1>1. groups' = groups
  BY DEF plan
<1>2. Unsent(a)' => Unsent(a)
  BY <1>1 DEF Unsent, Recipients, Recipient
<1>3. ToBook(a)' <=> Later(a)
  BY <1>1 DEF ToBook, Later, Correlated, Payments, Recipient
<1>4. ~ToFlag(a)'
  BY DEF ToFlag
<1> QED
  BY <1>2, <1>3, <1>4

LEMMA SafeNextResult ==
    ASSUME SafeInv, ShapeInv', pc \in {"apply", "unbypass"}, Correlated,
           \/ NextResult
           \/ pc = "apply" /\ pc' = "unbypass" /\ UNCHANGED <<plan, g, i, reply>>,
           UNCHANGED <<balance, credited, paid, flags>>
    PROVE  SafeInv'
<1>1. UNCHANGED <<cache, rows>> /\ pc' /= "collect"
  BY DEF NextResult, NextGroup, plan
<1>2. \A a \in Addr : paid'[a] >= paid[a]
  BY SafeFacts
<1>3. ASSUME NEW a \in Addr PROVE (Unsent(a)' => Unsent(a)) /\ (ToBook(a)' => ToBook(a))
  <2>1. (Unsent(a)' => Unsent(a)) /\ (ToBook(a)' => Later(a))
    BY NextResultLess, UnbypassLess DEF SafeInv
  <2>2. Later(a) => ToBook(a)
    BY BookingIs DEF SafeInv
  <2> QED
    BY <2>1, <2>2
<1> QED
  BY <1>1, <1>2, <1>3, SafeFromLess

LEMMA SafeRecord ==
    ASSUME SafeInv, ShapeInv', RecordFailure \/ LosePayout
    PROVE  SafeInv'
<1>1. pc = "apply" /\ Correlated /\ UNCHANGED <<balance, credited, paid, flags>>
  BY DEF RecordFailure, LosePayout, outside, redis, wallet
<1>2. \/ NextResult
      \/ pc = "apply" /\ pc' = "unbypass" /\ UNCHANGED <<plan, g, i, reply>>
  BY <1>1 DEF RecordFailure, LosePayout
<1> QED
  BY <1>1, <1>2, SafeNextResult

LEMMA SafeUnbypass ==
    ASSUME SafeInv, ShapeInv', ClearBypass
    PROVE  SafeInv'
<1>1. pc = "unbypass" /\ NextResult /\ UNCHANGED <<balance, credited, paid, flags>>
  BY DEF ClearBypass, wallet
<1>2. Correlated
  BY <1>1 DEF SafeInv, ShapeInv, IndicesFit
<1> QED
  BY <1>1, <1>2, SafeNextResult

(* What booking a payout does to its recipient and to the others.          *)
LEMMA CommitFacts ==
    ASSUME SafeInv, CommitPayout, NEW a \in Addr
    PROVE  /\ pc = "apply" /\ Correlated /\ pc' = "unbypass"
           /\ UNCHANGED <<credited, paid, limbo, flags, cache, rows>>
           /\ ~ToFlag(a) /\ ~ToFlag(a)'
           /\ Unsent(a)' => Unsent(a) /\ a /= Recipient(g, i)
           /\ a = Recipient(g, i) => /\ ToBook(a) /\ ~ToBook(a)'
                                     /\ balance'[a] = balance[a] - cache[a]
           /\ a /= Recipient(g, i) => /\ ToBook(a)' <=> ToBook(a)
                                      /\ balance'[a] = balance[a]
<1>1. /\ pc = "apply" /\ Correlated /\ reply[i] /\ pc' = "unbypass"
      /\ balance' = [balance EXCEPT ![Recipient(g, i)] = @ - cache[Recipient(g, i)]]
      /\ UNCHANGED <<plan, g, i, reply>>
      /\ UNCHANGED <<credited, paid, limbo, flags, cache, rows>>
  BY DEF CommitPayout, Recipient, Payments, redis, wallet, plan
<1>2. ShapeInv /\ balance \in [Addr -> Int]
  BY DEF SafeInv, ShapeInv, TypeOK
<1>3. g \in DOMAIN groups /\ i \in DOMAIN Payments
  BY <1>1, <1>2, InHand
<1>4. Recipient(g, i) \in Recipients(g)
  BY <1>3 DEF Recipients, Payments
<1>5. /\ Unsent(a)' => Unsent(a)
      /\ ToBook(a)' <=> Later(a)
      /\ ~ToFlag(a)'
  BY <1>1, <1>2, UnbypassLess
<1>6. /\ ToBook(a) <=> Later(a) \/ Recipient(g, i) = a
      /\ Later(a) => a /= Recipient(g, i)
  BY <1>1, <1>2, BookingIs
<1>7. a = Recipient(g, i) => ~Unsent(a)
  BY <1>1, <1>2, <1>3, <1>4, HandedOver
<1>8. ~ToFlag(a)
  BY <1>1 DEF ToFlag
<1>9. /\ a = Recipient(g, i) => balance'[a] = balance[a] - cache[a]
      /\ a /= Recipient(g, i) => balance'[a] = balance[a]
  BY <1>1, <1>2
<1> QED
  BY <1>1, <1>5, <1>6, <1>7, <1>8, <1>9

LEMMA SafeCommit ==
    ASSUME SafeInv, ShapeInv', CommitPayout
    PROVE  SafeInv'
<1>1. NoOverdraft'
  <2> SUFFICES ASSUME NEW a \in Addr PROVE balance'[a] >= 0
    BY DEF NoOverdraft
  <2> QED
    BY CommitFacts, SafeFacts
<1>2. ASSUME NEW a \in Addr, Unsent(a)' \/ ToBook(a)'
      PROVE  a \notin flags' /\ cache'[a] <= balance'[a]
  BY <1>2, CommitFacts, SafeFacts
<1>3. pc' /= "collect"
  BY DEF CommitPayout
<1>4. CacheCovered'
  BY <1>2, <1>3 DEF CacheCovered
<1>5. PaidCovered'
  <2> SUFFICES ASSUME NEW a \in Addr
               PROVE  (credited[a] - balance[a] + (IF ToBook(a) THEN cache[a] ELSE 0) <= paid[a])'
    BY DEF PaidCovered
  <2>1. CASE a = Recipient(g, i)
    BY <2>1, CommitFacts, SafeFacts
  <2>2. CASE a /= Recipient(g, i)
    BY <2>2, CommitFacts, SafeFacts
  <2> QED
    BY <2>1, <2>2
<1> QED
  BY <1>1, <1>4, <1>5 DEF SafeInv

LEMMA SafeEnd ==
    ASSUME SafeInv, ShapeInv', UpdateBatchAmounts \/ Crash
    PROVE  SafeInv'
BY SafeEndRun DEF UpdateBatchAmounts, Crash
-----------------------------------------------------------------------------
LEMMA SafeInit == Init => SafeInv
<1> SUFFICES ASSUME Init PROVE SafeInv
  OBVIOUS
<1>1. ShapeInv
  BY ShapeInit
<1>2. \A a \in Addr : ~Unsent(a) /\ ~ToBook(a)
  <2>1. groups = <<>> /\ pc = "idle"
    BY DEF Init
  <2> QED
    BY <2>1 DEF Unsent, ToBook
<1>3. NoOverdraft /\ PaidCovered
  BY <1>2 DEF Init, NoOverdraft, PaidCovered
<1>4. CacheCovered
  BY <1>2 DEF Init, CacheCovered
<1> QED
  BY <1>1, <1>3, <1>4 DEF SafeInv

LEMMA SafeStutter ==
    ASSUME SafeInv, UNCHANGED vars
    PROVE  SafeInv'
<1>1. ShapeInv'
  BY ShapeStep DEF SafeInv
<1>2. /\ UNCHANGED locals /\ UNCHANGED <<balance, credited, paid, flags, cache, rows, pc>>
  BY DEF vars, locals, plan, tally
<1>3. \A a \in Addr : (Unsent(a)' <=> Unsent(a)) /\ (ToBook(a)' <=> ToBook(a))
  BY <1>2, LocalsSame
<1>4. \A a \in Addr : paid'[a] >= paid[a]
  BY <1>2, SafeFacts
<1> QED
  BY <1>1, <1>2, <1>3, <1>4, SafeFromLess

LEMMA SafeStep ==
    ASSUME FlagsAreRead, SafeInv, [Next]_vars
    PROVE  SafeInv'
<1>1. ShapeInv'
  BY ShapeStep DEF SafeInv
<1>2. CASE World
  BY <1>1, <1>2, SafeWorld
<1>3. CASE performPayouts
  BY <1>1, <1>3, SafeStart
<1>4. CASE Run
  <2>1. CASE CollectPayments
    BY <1>1, <2>1, SafeCollect
  <2>2. CASE CreateNewBatch \/ HaltedBetweenGroups \/ StartGroup
    BY <1>1, <2>2, SafeBatch
  <2>3. CASE \E accepted \in SUBSET Addr : SendAnswered(accepted)
    BY <1>1, <2>3, SafeAnswered
  <2>4. CASE SendRefused \/ RejectReply
    BY <1>1, <2>4, SafeRefused
  <2>5. CASE SendAmbiguous
    BY <1>1, <2>5, SafeAmbiguous
  <2>6. CASE FlagRecipient
    BY <1>1, <2>6, SafeFlag
  <2>7. CASE RecordFailure \/ LosePayout
    BY <1>1, <2>7, SafeRecord
  <2>8. CASE CommitPayout
    BY <1>1, <2>8, SafeCommit
  <2>9. CASE ClearBypass
    BY <1>1, <2>9, SafeUnbypass
  <2>10. CASE UpdateBatchAmounts
    BY <1>1, <2>10, SafeEnd
  <2> QED
    BY <1>4, <2>1, <2>2, <2>3, <2>4, <2>5, <2>6, <2>7, <2>8, <2>9, <2>10 DEF Run
<1>5. CASE Crash
  BY <1>1, <1>5, SafeEnd
<1>6. CASE UNCHANGED vars
  BY <1>6, SafeStutter
<1> QED
  BY <1>2, <1>3, <1>4, <1>5, <1>6 DEF Next

(* SafeInv, the invariant behind the three properties below: it holds      *)
(* through crashes, failed statements, failed writes to Redis, short       *)
(* replies and hasty operators, as long as no EXISTS of performPayouts     *)
(* fails and no flag is settled between a row's SELECT and its EXISTS.     *)
THEOREM Safe ==
    ASSUME FlagsAreRead
    PROVE  Spec => []SafeInv
<1>1. Init => SafeInv
  BY SafeInit
<1>2. SafeInv /\ [Next]_vars => SafeInv'
  BY SafeStep
<1> QED
  BY <1>1, <1>2, PTL DEF Spec

(* atomicBalanceUpdates takes nothing off a balance that the wallet has    *)
(* not broadcast.                                                          *)
THEOREM UnpaidIsNeverDebited ==
    ASSUME FlagsAreRead
    PROVE  Spec => []NoUnpaidDebit
<1>1. SafeInv => NoUnpaidDebit
  BY SafeFacts DEF NoUnpaidDebit
<1> QED
  BY <1>1, Safe, PTL

(* sql.DecreaseBalance never takes a balance below zero, although the      *)
(* amount it is given was read at the start of the run.                    *)
THEOREM BalancesStayPositive ==
    ASSUME FlagsAreRead
    PROVE  Spec => []NoOverdraft
<1>1. SafeInv => NoOverdraft
  BY DEF SafeInv
<1> QED
  BY <1>1, Safe, PTL

(* The reconcile flag keeps its address out of every group that is sent,   *)
(* from the check in the loop over the rows to the call of the wallet.     *)
THEOREM FlagKeepsOut ==
    ASSUME FlagsAreRead
    PROVE  Spec => []FlaggedNeverSent
<1>1. SafeInv => FlaggedNeverSent
  <2> SUFFICES ASSUME SafeInv, pc = "send", NEW a \in Recipients(g), a \in flags
               PROVE  FALSE
    BY DEF FlaggedNeverSent
  <2>1. g \in DOMAIN groups /\ a \in Addr
    BY DEF SafeInv, ShapeInv, TypeOK, IndicesFit
  <2>2. Unsent(a)
    BY <2>1 DEF Unsent
  <2> QED
    BY <2>1, <2>2, SafeFacts
<1> QED
  BY <1>1, Safe, PTL
-----------------------------------------------------------------------------
(* The wallet and the row of one address.  As long as they agree, only a   *)
(* step that strikes the address takes that away (AgreeStep), whatever     *)
(* happens to others; and when nothing can fail, no step strikes anybody:  *)
(* wallet and rows agree throughout (HonestInv), and nobody is paid twice. *)

LEMMA AgreeFacts ==
    ASSUME SafeInv, NEW a \in Addr, AgreesOn(a)
    PROVE  /\ balance[a] \in Int /\ balance[a] >= 0
           /\ credited[a] \in Int /\ paid[a] \in Int /\ limbo[a] \in Int /\ limbo[a] >= 0
           /\ cache[a] \in Int
           /\ Unbooked(a) = paid[a] - (credited[a] - balance[a]) /\ Unbooked(a) \in Int
           /\ ToBook(a) => Unbooked(a) = cache[a] /\ limbo[a] = 0 /\ a \notin flags
                           /\ cache[a] <= balance[a]
           /\ Unsent(a) => a \notin flags /\ cache[a] <= balance[a]
           /\ ~ToBook(a) /\ (a \in flags \/ ToFlag(a))
                 => Unbooked(a) >= 0 /\ Unbooked(a) + limbo[a] <= balance[a]
           /\ ~ToBook(a) /\ ~(a \in flags \/ ToFlag(a)) => Unbooked(a) = 0 /\ limbo[a] = 0
<1>1. /\ balance[a] \in Int /\ balance[a] >= 0
      /\ credited[a] \in Int /\ paid[a] \in Int /\ limbo[a] \in Nat
      /\ cache[a] \in Int
      /\ Unsent(a) \/ ToBook(a) => a \notin flags /\ cache[a] <= balance[a]
  BY SafeFacts
<1>2. Unbooked(a) = paid[a] - (credited[a] - balance[a])
  BY DEF Unbooked
<1>3. IF ToBook(a) THEN Unbooked(a) = cache[a] /\ limbo[a] = 0
      ELSE IF a \in flags \/ ToFlag(a)
           THEN Unbooked(a) >= 0 /\ Unbooked(a) + limbo[a] <= balance[a]
           ELSE Unbooked(a) = 0 /\ limbo[a] = 0
  BY DEF AgreesOn
<1>4. Unbooked(a) \in Int
  BY <1>1, <1>2
<1> QED
  BY <1>1, <1>2, <1>3, <1>4

(* Agreement with an address means that it cannot be sent too much.        *)
LEMMA NotOverpaid ==
    ASSUME SafeInv, NEW a \in Addr, AgreesOn(a)
    PROVE  paid[a] + limbo[a] <= credited[a]
BY AgreeFacts

(* A step that changes neither the books of a nor what is in hand of it.   *)
LEMMA AgreeSame ==
    ASSUME NEW a \in Addr, AgreesOn(a),
           /\ balance'[a] = balance[a] /\ credited'[a] = credited[a]
           /\ paid'[a] = paid[a] /\ limbo'[a] = limbo[a],
           a \in flags' <=> a \in flags,
           ToBook(a)' <=> ToBook(a), ToFlag(a)' <=> ToFlag(a),
           ToBook(a) => cache'[a] = cache[a]
    PROVE  AgreesOn(a)'
<1>1. Unbooked(a)' = Unbooked(a)
  BY DEF Unbooked
<1> QED
  BY <1>1 DEF AgreesOn

(* A step from and to a point where a run has no result of a in hand.      *)
LEMMA AgreeBetween ==
    ASSUME NEW a \in Addr, AgreesOn(a), UNCHANGED outside,
           ~ToBook(a), ~ToFlag(a), ~ToBook(a)', ~ToFlag(a)'
    PROVE  AgreesOn(a)'
<1>1. UNCHANGED <<balance, credited, paid, limbo, flags>>
  BY DEF outside, redis, wallet
<1> QED
  BY <1>1, AgreeSame

LEMMA AgreeWorld ==
    ASSUME SafeInv, SafeInv', NEW a \in Addr, AgreesOn(a), World, ~ClearReconcileFlag(a)
    PROVE  AgreesOn(a)'
<1>1. UNCHANGED locals /\ cache' = cache
  BY DEF World, Credit, WalletResolves, Reconcile, ClearReconcileFlag, GrantBypass,
         SetTxnHalt, UnsetTxnHalt, locals, plan
<1>2. (ToBook(a)' <=> ToBook(a)) /\ (ToFlag(a)' <=> ToFlag(a))
  BY <1>1, LocalsSame
<1>3. /\ balance'[a] >= 0 /\ balance'[a] \in Int /\ limbo'[a] \in Int /\ limbo'[a] >= 0
      /\ Unbooked(a)' = paid'[a] - (credited'[a] - balance'[a])
      /\ credited'[a] \in Int /\ paid'[a] \in Int
  BY DEF SafeInv, NoOverdraft, ShapeInv, TypeOK, Unbooked
<1>4. /\ balance \in [Addr -> Int] /\ credited \in [Addr -> 0..MaxCredit]
      /\ limbo \in [Addr -> Nat] /\ paid \in [Addr -> Nat]
  BY DEF SafeInv, ShapeInv, TypeOK
<1>5. ASSUME NEW b \in Addr, Credit(b) PROVE AgreesOn(a)'
  <2>1. PICK c \in Credits : /\ credited' = [credited EXCEPT ![b] = @ + c]
                             /\ balance' = [balance EXCEPT ![b] = @ + c]
    BY <1>5 DEF Credit
  <2>2. c \in Nat /\ flags' = flags /\ paid' = paid /\ limbo' = limbo
    BY <1>5, ConstantsAssumption DEF Credit, redis, wallet
  <2>3. /\ balance'[a] = IF a = b THEN balance[a] + c ELSE balance[a]
        /\ credited'[a] = IF a = b THEN credited[a] + c ELSE credited[a]
    BY <1>4, <2>1
  <2>4. balance'[a] >= balance[a] /\ Unbooked(a)' = Unbooked(a)
    BY <1>3, <2>2, <2>3, AgreeFacts
  <2> QED
    BY <1>1, <1>2, <1>3, <2>2, <2>4, AgreeFacts DEF AgreesOn
<1>6. ASSUME NEW b \in Addr, WalletResolves(b) PROVE AgreesOn(a)'
  <2>1. /\ limbo[b] > 0 /\ limbo' = [limbo EXCEPT ![b] = 0]
        /\ \/ paid' = [paid EXCEPT ![b] = @ + limbo[b]]
           \/ paid' = paid
        /\ UNCHANGED <<balance, credited, flags>>
    BY <1>6 DEF WalletResolves, redis
  <2>2. /\ limbo'[b] = 0 /\ (paid'[b] = paid[b] + limbo[b] \/ paid'[b] = paid[b])
        /\ a /= b => limbo'[a] = limbo[a] /\ paid'[a] = paid[a]
    BY <1>4, <2>1
  <2>3. CASE a = b
    <3>1. ~ToBook(a) /\ (a \in flags \/ ToFlag(a))
      BY <2>1, <2>3, AgreeFacts
    <3>2. Unbooked(a)' >= 0 /\ Unbooked(a)' + limbo'[a] <= balance'[a]
      BY <1>3, <2>1, <2>2, <2>3, <3>1, AgreeFacts
    <3> QED
      BY <1>2, <2>1, <3>1, <3>2 DEF AgreesOn
  <2>4. CASE a /= b
    BY <1>1, <1>2, <2>1, <2>2, <2>4, AgreeSame
  <2> QED
    BY <2>3, <2>4
<1>7. ASSUME NEW b \in Addr, Reconcile(b) PROVE AgreesOn(a)'
  <2>1. /\ b \in flags /\ limbo[b] = 0 /\ flags' = flags \ {b}
        /\ balance' = [balance EXCEPT ![b] = @ - Unbooked(b)]
        /\ credited' = credited /\ paid' = paid /\ limbo' = limbo
        /\ 0 <= Unbooked(b) /\ Unbooked(b) <= balance[b]
    BY <1>7 DEF Reconcile, wallet
  <2>2. /\ balance'[b] = balance[b] - Unbooked(b)
        /\ a /= b => balance'[a] = balance[a]
    BY <1>4, <2>1
  <2>3. CASE a = b
    <3>1. ~ToBook(a)
      BY <2>1, <2>3, AgreeFacts
    <3>2. Unbooked(a)' = 0 /\ limbo'[a] = 0
      BY <1>3, <2>1, <2>2, <2>3, AgreeFacts
    <3> QED
      BY <1>2, <1>3, <3>1, <3>2 DEF AgreesOn
  <2>4. CASE a /= b
    BY <1>1, <1>2, <2>1, <2>2, <2>4, AgreeSame
  <2> QED
    BY <2>3, <2>4
<1>8. ASSUME NEW b \in Addr, ClearReconcileFlag(b) PROVE AgreesOn(a)'
  <2>1. /\ a /= b /\ flags' = flags \ {b}
        /\ UNCHANGED <<balance, credited, paid, limbo>>
    BY <1>8 DEF ClearReconcileFlag, wallet
  <2> QED
    BY <1>1, <1>2, <2>1, AgreeSame
<1>9. ASSUME NEW b \in Addr, GrantBypass(b) PROVE AgreesOn(a)'
  BY <1>1, <1>2, <1>9, AgreeSame DEF GrantBypass, wallet
<1>10. ASSUME SetTxnHalt \/ UnsetTxnHalt PROVE AgreesOn(a)'
  BY <1>1, <1>2, <1>10, AgreeSame DEF SetTxnHalt, UnsetTxnHalt, wallet
<1> QED
  BY <1>5, <1>6, <1>7, <1>8, <1>9, <1>10 DEF World

(* An answer makes one result to be booked of each payment accepted, if it *)
(* matches; if it does not, those outside the group have no part in it.    *)
LEMMA AgreeAnswered ==
    ASSUME SafeInv, NEW a \in Addr, AgreesOn(a), NEW accepted, SendAnswered(accepted),
           Correlated' \/ a \notin Recipients(g)
    PROVE  AgreesOn(a)'
<1>1. /\ pc = "send" /\ pc' = "apply" /\ i' = 1
      /\ accepted \subseteq Recipients(g)
      /\ UNCHANGED <<balance, credited, limbo, flags, groups, g, cache>>
  BY DEF SendAnswered, redis, plan
<1>2. g \in DOMAIN groups /\ TypeOK
  BY <1>1 DEF SafeInv, ShapeInv, IndicesFit
<1>3. /\ Payments' = Payments /\ Len(Payments) \in Nat /\ DOMAIN Payments = 1..Len(Payments)
  BY <1>1, <1>2, PaymentFacts DEF Payments
<1>4. Unbooked(a)' = paid'[a] - (credited[a] - balance[a])
  BY <1>1 DEF Unbooked
<1>5. CASE a \in accepted
  <2>1. Correlated' /\ reply' = Answer(accepted, Len(Payments))
    <3>1. Correlated'
      BY <1>1, <1>5
    <3>2. ASSUME NEW n \in 0..Len(Payments) - 1, reply' = Answer(accepted, n) PROVE FALSE
      BY <1>3, <3>1, <3>2 DEF Correlated, Answer
    <3> QED
      BY <3>1, <3>2 DEF SendAnswered
  <2>2. ToBook(a)'
    <3>1. PICK j \in DOMAIN Payments : Recipient(g, j) = a
      BY <1>1, <1>5 DEF Recipients, Payments
    <3>2. reply'[j] = (Payments[j].address \in accepted)
      BY <1>3, <2>1, <3>1 DEF Answer
    <3>3. reply'[j] /\ j \in DOMAIN Payments' /\ Recipient(g, j)' = a
      BY <1>1, <1>3, <1>5, <3>1, <3>2 DEF Recipient, Payments
    <3>4. j > 1 \/ (j = 1 /\ pc' = "apply")
      BY <1>1, <1>3, <3>1
    <3> QED
      BY <1>1, <2>1, <3>3, <3>4 DEF ToBook
  <2>3. Charge(a) <= WalletFunds
    <3>1. CanFund(a) /\ Charge(a) \in Nat
      BY <1>5, AnsweredFacts
    <3>2. paid[a] \in Nat /\ limbo[a] \in Nat /\ WalletFunds \in Nat
      BY <1>2, ConstantsAssumption DEF TypeOK
    <3> QED
      BY <3>1, <3>2 DEF CanFund
  <2>4. /\ ~ToBook(a) /\ ~ToFlag(a) /\ Unsent(a) /\ paid'[a] = paid[a] + cache[a]
    BY <1>5, <2>3, AnsweredFacts
  <2>5. Unbooked(a) = 0 /\ limbo[a] = 0
    BY <2>4, AgreeFacts
  <2>6. Unbooked(a)' = cache[a]
    BY <1>4, <2>4, <2>5, AgreeFacts
  <2> QED
    BY <1>1, <2>2, <2>5, <2>6 DEF AgreesOn
<1>6. CASE a \notin accepted
  <2>1. ~ToBook(a) /\ ~ToFlag(a) /\ ~ToBook(a)' /\ ~ToFlag(a)' /\ paid'[a] = paid[a]
    BY <1>6, AnsweredFacts
  <2> QED
    BY <1>1, <2>1, AgreeSame
<1> QED
  BY <1>5, <1>6

LEMMA AgreeAmbiguous ==
    ASSUME SafeInv, NEW a \in Addr, AgreesOn(a), SendAmbiguous
    PROVE  AgreesOn(a)'
<1>1. /\ pc = "send" /\ pc' = "flag" /\ i' = 1
      /\ limbo' = [b \in Addr |-> IF b \in Recipients(g) /\ CanFund(b)
                                  THEN limbo[b] + Charge(b) ELSE limbo[b]]
      /\ UNCHANGED <<balance, credited, paid, flags, groups, g, cache>>
  BY DEF SendAmbiguous, redis, plan
<1>2. /\ g \in DOMAIN groups /\ TypeOK /\ GroupsFit
  BY <1>1 DEF SafeInv, ShapeInv, IndicesFit
<1>3. DOMAIN Payments = 1..Len(Payments)
  BY <1>2, PaymentFacts DEF Payments
<1>4. ~ToBook(a) /\ ~ToFlag(a) /\ ~ToBook(a)'
  BY <1>1 DEF ToBook, ToFlag
<1>5. Unbooked(a)' = Unbooked(a)
  BY <1>1 DEF Unbooked
<1>6. CASE a \in Recipients(g)
  <2>1. Unsent(a)
    BY <1>1, <1>2, <1>6 DEF Unsent
  <2>2. Unbooked(a) = 0 /\ limbo[a] = 0 /\ a \notin flags /\ cache[a] <= balance[a]
    BY <1>4, <2>1, AgreeFacts
  <2>3. ToFlag(a)'
    BY <1>1, <1>3, <1>6 DEF ToFlag, Recipients, Recipient, Payments
  <2>4. CanFund(a) => Charge(a) = cache[a]
    <3>1. /\ Charge(a) \in Nat
          /\ Charge(a) <= WalletFunds => Charge(a) = cache[a]
      BY <1>2, <1>6, ChargeFacts
    <3>2. paid[a] \in Nat /\ limbo[a] \in Nat /\ WalletFunds \in Nat
      BY <1>2, ConstantsAssumption DEF TypeOK
    <3> QED
      BY <3>1, <3>2 DEF CanFund
  <2>5. limbo'[a] = 0 \/ limbo'[a] = cache[a]
    BY <1>1, <2>2, <2>4, AgreeFacts
  <2>6. Unbooked(a)' >= 0 /\ Unbooked(a)' + limbo'[a] <= balance'[a]
    BY <1>1, <1>5, <2>2, <2>5, AgreeFacts
  <2> QED
    BY <1>4, <2>3, <2>6 DEF AgreesOn
<1>7. CASE a \notin Recipients(g)
  <2>1. ~ToFlag(a)'
    BY <1>1, <1>7 DEF ToFlag, Recipients, Recipient, Payments
  <2>2. limbo'[a] = limbo[a]
    BY <1>1, <1>7
  <2> QED
    BY <1>1, <1>4, <2>1, <2>2, AgreeSame
<1> QED
  BY <1>6, <1>7

(* A SET that fails strikes the recipient it is for: any other is flagged, *)
(* or has yet to be.                                                       *)
LEMMA AgreeFlag ==
    ASSUME SafeInv, NEW a \in Addr, AgreesOn(a), FlagRecipient,
           a = Payments[i].address => a \in flags'
    PROVE  AgreesOn(a)'
<1>1. pc = "flag" /\ ShapeInv
  BY DEF SafeInv, FlagRecipient
<1>2. /\ Payments[i].address = Recipient(g, i) /\ i \in DOMAIN Payments /\ i \in Nat
  BY <1>1, InHand
<1>3. a = Recipient(g, i) => ToFlag(a)
  BY <1>1, <1>2 DEF ToFlag
<1>4. /\ ~ToBook(a) /\ ~ToBook(a)'
      /\ UNCHANGED <<balance, credited, paid, limbo>>
      /\ flags' = flags \cup {Recipient(g, i)} \/ flags' = flags
      /\ ToFlag(a) => ToFlag(a)' \/ a = Recipient(g, i)
      /\ ToFlag(a)' => ToFlag(a)
  BY FlagFacts
<1>5. (a \in flags \/ ToFlag(a))' <=> (a \in flags \/ ToFlag(a))
  BY <1>2, <1>3, <1>4
<1>6. Unbooked(a)' = Unbooked(a)
  BY <1>4 DEF Unbooked
<1> QED
  BY <1>4, <1>5, <1>6 DEF AgreesOn

(* A result that changes no balance: the wallet's refusal, the end of a    *)
(* booked payout, and a payout of another that is lost.                    *)
LEMMA AgreeResult ==
    ASSUME SafeInv, NEW a \in Addr, AgreesOn(a),
           RecordFailure \/ ClearBypass \/ (LosePayout /\ a /= Payments[i].address)
    PROVE  AgreesOn(a)'
<1>1. /\ pc \in {"apply", "unbypass"} /\ cache' = cache
      /\ UNCHANGED <<balance, credited, paid, limbo, flags>>
      /\ \/ NextResult
         \/ pc = "apply" /\ pc' = "unbypass" /\ UNCHANGED <<plan, g, i, reply>>
  BY DEF RecordFailure, ClearBypass, LosePayout, outside, redis, wallet, NextResult, NextGroup, plan
<1>2. ShapeInv /\ Correlated
  BY <1>1 DEF SafeInv, ShapeInv, IndicesFit, RecordFailure, LosePayout, ClearBypass
<1>3. ToBook(a) <=> Later(a)
  <2>1. Payments[i].address = Recipient(g, i)
    BY <1>1, <1>2, InHand
  <2>2. ~(pc = "apply" /\ reply[i] /\ Recipient(g, i) = a)
    BY <2>1 DEF RecordFailure, ClearBypass, LosePayout
  <2> QED
    BY <1>1, <1>2, <2>2, BookingIs
<1>4. ToBook(a)' <=> Later(a)
  <2>1. CASE NextResult
    BY <1>1, <1>2, <2>1, NextResultLess
  <2>2. CASE pc' = "unbypass" /\ UNCHANGED <<plan, g, i, reply>>
    BY <1>2, <2>2 DEF ToBook, Later, Correlated, Payments, Recipient, plan
  <2> QED
    BY <1>1, <2>1, <2>2
<1>5. ~ToFlag(a) /\ ~ToFlag(a)'
  <2>1. CASE NextResult
    BY <1>1, <1>2, <2>1, NextResultLess DEF ToFlag
  <2>2. CASE pc' = "unbypass"
    BY <1>1, <2>2 DEF ToFlag
  <2> QED
    BY <1>1, <2>1, <2>2
<1> QED
  BY <1>1, <1>3, <1>4, <1>5, AgreeSame

LEMMA AgreeCommit ==
    ASSUME SafeInv, NEW a \in Addr, AgreesOn(a), CommitPayout
    PROVE  AgreesOn(a)'
<1>1. /\ UNCHANGED <<credited, paid, limbo, flags, cache>>
      /\ ~ToFlag(a) /\ ~ToFlag(a)'
  BY CommitFacts
<1>2. CASE a = Recipient(g, i)
  <2>1. ToBook(a) /\ ~ToBook(a)' /\ balance'[a] = balance[a] - cache[a]
    BY <1>2, CommitFacts
  <2>2. a \notin flags /\ Unbooked(a) = cache[a] /\ limbo[a] = 0
    BY <2>1, AgreeFacts
  <2>3. Unbooked(a)' = paid[a] - (credited[a] - balance'[a])
    BY <1>1 DEF Unbooked
  <2>4. Unbooked(a)' = 0
    BY <2>1, <2>2, <2>3, AgreeFacts
  <2> QED
    BY <1>1, <2>1, <2>2, <2>4 DEF AgreesOn
<1>3. CASE a /= Recipient(g, i)
  <2>1. (ToBook(a)' <=> ToBook(a)) /\ balance'[a] = balance[a]
    BY <1>3, CommitFacts
  <2> QED
    BY <1>1, <2>1, AgreeSame
<1> QED
  BY <1>2, <1>3

(* Whatever a step does, it takes no address's agreement away but that of  *)
(* those it strikes.                                                       *)
LEMMA AgreeStep ==
    ASSUME SafeInv, SafeInv', [Next]_vars, NEW a \in Addr, AgreesOn(a), ~Struck(a)
    PROVE  AgreesOn(a)'
<1>1. CASE World
  BY <1>1, AgreeWorld DEF Struck
<1>2. CASE performPayouts
  BY <1>2, AgreeBetween DEF performPayouts, ToBook, ToFlag
<1>3. CASE \/ CollectPayments \/ CreateNewBatch \/ HaltedBetweenGroups \/ StartGroup
           \/ SendRefused \/ UpdateBatchAmounts
  <2>1. /\ UNCHANGED outside /\ pc \in {"collect", "batch", "group", "send", "finish"}
        /\ pc' \in {"idle", "batch", "group", "send", "finish"}
    BY <1>3 DEF CollectPayments, CreateNewBatch, HaltedBetweenGroups, StartGroup, SendRefused,
                UpdateBatchAmounts, EndRun, GroupFailed, NextGroup
  <2> QED
    BY <2>1, AgreeBetween DEF ToBook, ToFlag
<1>4. ASSUME NEW accepted \in SUBSET Addr, SendAnswered(accepted) PROVE AgreesOn(a)'
  <2>1. pc = "send" /\ pc' = "apply"
    BY <1>4 DEF SendAnswered
  <2> QED
    BY <1>4, <2>1, AgreeAnswered DEF Struck
<1>5. CASE SendAmbiguous
  BY <1>5, AgreeAmbiguous
<1>6. CASE FlagRecipient
  BY <1>6, AgreeFlag DEF Struck
<1>7. CASE RejectReply
  <2>1. /\ pc = "apply" /\ ~Correlated /\ UNCHANGED outside /\ pc' \in {"group", "finish"}
    BY <1>7 DEF RejectReply, GroupFailed, NextGroup
  <2> QED
    BY <2>1, AgreeBetween DEF ToBook, ToFlag
<1>8. CASE RecordFailure \/ ClearBypass \/ LosePayout
  BY <1>8, AgreeResult DEF Struck
<1>9. CASE CommitPayout
  BY <1>9, AgreeCommit
<1>10. CASE Crash
  <2>1. UNCHANGED outside /\ ~ToBook(a)' /\ ~ToFlag(a)'
    BY <1>10, EndRunNone DEF Crash
  <2> QED
    BY <1>10, <2>1, AgreeBetween DEF Struck
<1>11. CASE UNCHANGED vars
  <2>1. /\ UNCHANGED locals /\ UNCHANGED <<balance, credited, paid, limbo, flags, cache>>
    BY <1>11 DEF vars, locals, plan, tally
  <2> QED
    BY <2>1, LocalsSame, AgreeSame
<1> QED
  BY <1>1, <1>2, <1>3, <1>4, <1>5, <1>6, <1>7, <1>8, <1>9, <1>10, <1>11 DEF Next, Run

(* A fault costs the addresses it strikes and nobody else: crashes, lost   *)
(* debits, failed SETs, replies of the wrong length and hasty operators,   *)
(* in any number and order, leave the wallet and the row of every other    *)
(* address in agreement.                                                   *)
THEOREM FaultsAreContained ==
    ASSUME FlagsAreRead
    PROVE  Spec => DamageContained
<1>1. SafeInv /\ SafeInv' /\ [Next]_vars
        => [\A a \in Addr : AgreesOn(a) /\ ~Struck(a) => AgreesOn(a)']_vars
  BY AgreeStep
<1>2. Spec => []SafeInv
  BY Safe
<1> QED
  BY <1>1, <1>2, PTL DEF Spec, DamageContained
-----------------------------------------------------------------------------
LEMMA HonestFacts ==
    ASSUME HonestInv, NEW a \in Addr
    PROVE  SafeInv /\ AgreesOn(a)
BY DEF HonestInv, Agreement

LEMMA HonestInit == Init => HonestInv
<1> SUFFICES ASSUME Init PROVE HonestInv
  OBVIOUS
<1>1. \A a \in Addr : /\ ~ToBook(a) /\ ~ToFlag(a) /\ a \notin flags /\ limbo[a] = 0
                      /\ paid[a] = 0 /\ credited[a] = 0 /\ balance[a] = 0
  <2>1. pc = "idle" /\ flags = {} /\ \A a \in Addr : /\ limbo[a] = 0 /\ paid[a] = 0
                                                   /\ credited[a] = 0 /\ balance[a] = 0
    BY DEF Init
  <2>2. \A a \in Addr : ~ToBook(a) /\ ~ToFlag(a)
    BY <2>1 DEF ToBook, ToFlag
  <2> QED
    BY <2>1, <2>2
<1>2. \A a \in Addr : Unbooked(a) = 0
  <2>1. \A a \in Addr : paid[a] = 0 /\ credited[a] = 0 /\ balance[a] = 0
    BY <1>1
  <2>2. 0 - (0 - 0) = 0
    OBVIOUS
  <2> QED
    BY <2>1, <2>2 DEF Unbooked
<1>3. Agreement
  BY <1>1, <1>2 DEF Agreement, AgreesOn
<1> QED
  BY <1>3, SafeInit DEF HonestInv, Init

(* When nothing can fail, every reply matches, and no step strikes anybody. *)
LEMMA RepliesMatch ==
    ASSUME Faults = {}, HonestInv, [Next]_vars
    PROVE  pc' = "apply" => Correlated'
<1>1. ASSUME NEW accepted \in SUBSET Addr, SendAnswered(accepted) PROVE Correlated'
  <2>1. /\ pc = "send" /\ reply' = Answer(accepted, Len(Payments)) /\ UNCHANGED <<groups, g>>
    BY <1>1 DEF SendAnswered, plan
  <2>2. g \in DOMAIN groups /\ TypeOK
    BY <2>1 DEF HonestInv, SafeInv, ShapeInv, IndicesFit
  <2>3. Payments' = Payments /\ Len(Payments) \in Nat
    BY <2>1, <2>2, PaymentFacts DEF Payments
  <2> QED
    BY <2>1, <2>3 DEF Correlated, Answer
<1>2. CASE World \/ UNCHANGED vars
  <2>1. UNCHANGED locals
    BY <1>2 DEF World, Credit, WalletResolves, Reconcile, ClearReconcileFlag, GrantBypass,
           SetTxnHalt, UnsetTxnHalt, vars, locals, plan, tally
  <2> QED
    BY <2>1 DEF HonestInv, locals, plan, Correlated, Payments
<1>3. CASE RecordFailure \/ ClearBypass
  <2>1. NextResult /\ Correlated
    BY <1>3 DEF RecordFailure, ClearBypass, HonestInv, SafeInv, ShapeInv, IndicesFit
  <2> QED
    BY <2>1 DEF NextResult, NextGroup, plan, Correlated, Payments
<1>4. CASE performPayouts \/ \E accepted \in SUBSET Addr : SendAnswered(accepted)
  BY <1>1, <1>4 DEF performPayouts
<1>5. CASE \/ CollectPayments \/ CreateNewBatch \/ HaltedBetweenGroups \/ StartGroup
           \/ SendRefused \/ SendAmbiguous \/ FlagRecipient \/ RejectReply
           \/ CommitPayout \/ UpdateBatchAmounts
  BY <1>5 DEF CollectPayments, CreateNewBatch, HaltedBetweenGroups, StartGroup, SendRefused,
     SendAmbiguous, FlagRecipient, RejectReply, CommitPayout, UpdateBatchAmounts,
     EndRun, GroupFailed, NextGroup
<1>6. CASE LosePayout \/ Crash
  BY <1>6 DEF LosePayout, Crash
<1> QED
  BY <1>2, <1>3, <1>4, <1>5, <1>6 DEF Next, Run

LEMMA NeverStruck ==
    ASSUME Faults = {}, HonestInv, [Next]_vars, NEW a \in Addr
    PROVE  ~Struck(a)
<1>1. ~Crash /\ ~LosePayout /\ ~ClearReconcileFlag(a)
  BY DEF Crash, LosePayout, ClearReconcileFlag
<1>2. FlagRecipient => Payments[i].address \in flags'
  BY DEF FlagRecipient, reconcilePendingKey
<1> QED
  BY <1>1, <1>2, RepliesMatch DEF Struck

LEMMA HonestStep ==
    ASSUME Faults = {}, HonestInv, [Next]_vars
    PROVE  HonestInv'
<1>1. SafeInv'
  BY SafeStep DEF HonestInv, FlagsAreRead
<1>2. ASSUME NEW a \in Addr PROVE AgreesOn(a)'
  BY <1>1, AgreeStep, HonestFacts, NeverStruck
<1>3. pc' = "apply" => Correlated'
  BY RepliesMatch
<1> QED
  BY <1>1, <1>2, <1>3 DEF HonestInv, Agreement

(* With no fault the books and the wallet agree, except for results still  *)
(* to be booked and for what a reconcile flag protects.                    *)
THEOREM Honest ==
    ASSUME Faults = {}
    PROVE  Spec => []HonestInv
<1>1. Init => HonestInv
  BY HonestInit
<1>2. HonestInv /\ [Next]_vars => HonestInv'
  BY HonestStep
<1> QED
  BY <1>1, <1>2, PTL DEF Spec

(* Nobody is sent more than was credited to him, over any number of runs,  *)
(* ambiguous answers, late broadcasts and repairs.                         *)
THEOREM NobodyIsPaidTwice ==
    ASSUME Faults = {}
    PROVE  Spec => []NoDoublePay
<1>1. HonestInv => NoDoublePay
  <2> SUFFICES ASSUME HonestInv, NEW a \in Addr PROVE paid[a] + limbo[a] <= credited[a]
    BY DEF NoDoublePay
  <2> QED
    BY NotOverpaid, HonestFacts
<1> QED
  BY <1>1, Honest, PTL
-----------------------------------------------------------------------------
(* Without faults a run implements PayoutBooks.  Most of its steps are      *)
(* stutters of the books: HonestInv, in the state before and in the state  *)
(* after, fixes what the books owe an address.                             *)

(* What HonestInv leaves open of the flagging loop: an address it has yet  *)
(* to reach has no flag.  Otherwise an operator could end a hold that the  *)
(* loop is about to begin again.                                           *)
FlagOnce == \A a \in Addr : ToFlag(a) => a \notin flags

LEMMA FlagOnceStep ==
    ASSUME Faults = {}, HonestInv, FlagOnce, [Next]_vars
    PROVE  FlagOnce'
<1>1. SafeInv
  BY DEF HonestInv
<1> SUFFICES ASSUME NEW a \in Addr, ToFlag(a)' PROVE a \notin flags'
  BY DEF FlagOnce
<1>2. pc' = "flag"
  BY DEF ToFlag
<1>3. CASE World \/ UNCHANGED vars
  <2>1. UNCHANGED locals /\ flags' \subseteq flags
    BY <1>3 DEF World, Credit, WalletResolves, Reconcile, ClearReconcileFlag, GrantBypass,
           SetTxnHalt, UnsetTxnHalt, vars, locals, redis, plan, tally
  <2> QED
    BY <2>1, LocalsSame DEF FlagOnce
<1>4. CASE SendAmbiguous
  <2>1. /\ pc = "send" /\ UNCHANGED <<flags, groups, g, cache>>
        /\ g \in DOMAIN groups
    BY <1>1, <1>4 DEF SendAmbiguous, redis, plan, SafeInv, ShapeInv, IndicesFit
  <2>2. Unsent(a)
    BY <2>1 DEF ToFlag, Unsent, Recipients, Recipient, Payments
  <2> QED
    BY <2>1, <2>2, AgreeFacts, HonestFacts
<1>5. CASE FlagRecipient
  <2>1. /\ flags' = flags \cup {Recipient(g, i)}
        /\ ToFlag(a)
    BY <1>1, <1>5, FlagFacts
  <2>2. /\ UNCHANGED <<groups, g>> /\ i' = i + 1
        /\ g \in DOMAIN groups /\ GroupsFit /\ i \in DOMAIN Payments /\ i \in Nat
    BY <1>1, <1>2, <1>5, InHand DEF FlagRecipient, GroupFailed, NextGroup, SafeInv, ShapeInv,
       plan, IndicesFit
  <2>3. PICK j \in DOMAIN Payments : j >= i + 1 /\ Recipient(g, j) = a
    BY <2>2 DEF ToFlag, Payments, Recipient
  <2>4. a /= Recipient(g, i)
    BY <2>2, <2>3 DEF GroupsFit, Payments
  <2> QED
    BY <2>1, <2>4 DEF FlagOnce
<1>6. CASE performPayouts \/ Crash \/ (Run /\ ~SendAmbiguous /\ ~FlagRecipient)
  BY <1>2, <1>6 DEF performPayouts, Crash, EndRun, Run, CollectPayments, CreateNewBatch,
     HaltedBetweenGroups, StartGroup, SendAnswered, SendRefused, RejectReply, RecordFailure,
     CommitPayout, LosePayout, ClearBypass, UpdateBatchAmounts, GroupFailed, NextGroup, NextResult
<1> QED
  BY <1>3, <1>4, <1>5, <1>6 DEF Next

(* The books in the terms of PayoutRun, before a step and after it.        *)
DueRight ==
    \A a \in Addr :
        /\ Due[a] \in Int /\ Due[a] >= 0
        /\ a \notin Held => Due[a] = credited[a] - paid[a] /\ limbo[a] = 0
        /\ a \in Held => Due[a] = balance[a] /\ limbo[a] <= Due[a] /\ ~ToBook(a)

LEMMA DueFacts == HonestInv => DueRight
<1> SUFFICES ASSUME HonestInv, NEW a \in Addr
             PROVE  /\ Due[a] \in Int /\ Due[a] >= 0
                    /\ a \notin Held => Due[a] = credited[a] - paid[a] /\ limbo[a] = 0
                    /\ a \in Held => Due[a] = balance[a] /\ limbo[a] <= Due[a] /\ ~ToBook(a)
  BY DEF DueRight
<1>1. Due[a] = balance[a] - (IF ToBook(a) THEN cache[a] ELSE 0)
  BY DEF Due
<1>2. a \in Held <=> a \in flags \/ ToFlag(a)
  BY DEF Held
<1>3. ToBook(a) => ~ToFlag(a)
  BY DEF ToBook, ToFlag
<1> QED
  BY <1>1, <1>2, <1>3, AgreeFacts, HonestFacts

LEMMA DueFactsNext == HonestInv' => DueRight'
BY DueFacts, PTL

(* A step with these effects does not show in the books.                   *)
LEMMA Stutter ==
    ASSUME HonestInv, HonestInv', UNCHANGED <<credited, paid, limbo>>, Held' = Held,
           \A a \in Held : balance'[a] = balance[a]
    PROVE  UNCHANGED Books!vars
<1>1. ASSUME NEW a \in Addr PROVE Due'[a] = Due[a]
  BY DueFacts, DueFactsNext DEF DueRight
<1>2. Due' = Due
  BY <1>1 DEF Due
<1> QED
  BY <1>2 DEF Books!vars
-----------------------------------------------------------------------------
(* The steps of everybody but the run.                                     *)
LEMMA WorldKeepsBooks ==
    ASSUME Faults = {}, HonestInv, HonestInv', FlagOnce, World
    PROVE  [Books!Next]_Books!vars
<1>1. UNCHANGED locals
  BY DEF World, Credit, WalletResolves, Reconcile, ClearReconcileFlag, GrantBypass,
         SetTxnHalt, UnsetTxnHalt
<1>2. \A a \in Addr : (ToBook(a)' <=> ToBook(a)) /\ (ToFlag(a)' <=> ToFlag(a))
  BY <1>1, LocalsSame
<1>3. flags' = flags => Held' = Held
  BY <1>2 DEF Held
<1>4. /\ credited \in [Addr -> Nat] /\ credited' \in [Addr -> Nat]
      /\ paid \in [Addr -> Nat] /\ limbo \in [Addr -> Nat] /\ balance \in [Addr -> Int]
  BY ConstantsAssumption DEF HonestInv, SafeInv, ShapeInv, TypeOK
<1>5. DueRight /\ DueRight' /\ Due \in [Addr -> Int] /\ Due' \in [Addr -> Int]
  BY DueFacts, DueFactsNext DEF DueRight, Due
<1>6. ASSUME NEW a \in Addr, Credit(a) PROVE Books!Credit(a)
  <2>1. PICK c \in Nat : /\ credited' = [credited EXCEPT ![a] = @ + c]
                         /\ balance' = [balance EXCEPT ![a] = @ + c]
    BY <1>6, ConstantsAssumption DEF Credit
  <2>2. UNCHANGED <<paid, limbo, flags>> /\ Held' = Held
    BY <1>3, <1>6 DEF Credit, redis, wallet
  <2>3. ASSUME NEW b \in Addr
        PROVE  /\ credited'[b] = IF b = a THEN credited[b] + c ELSE credited[b]
               /\ Due'[b] = IF b = a THEN Due[b] + c ELSE Due[b]
    <3>1. /\ credited'[b] = IF b = a THEN credited[b] + c ELSE credited[b]
          /\ balance'[b] = IF b = a THEN balance[b] + c ELSE balance[b]
      BY <1>4, <2>1
    <3>2. paid'[b] = paid[b] /\ (b \in Held' <=> b \in Held)
      BY <2>2
    <3> QED
      BY <1>4, <1>5, <3>1, <3>2 DEF DueRight
  <2> QED
    BY <1>4, <1>5, <2>2, <2>3 DEF Books!Credit, Books!OnlyFor
<1>7. ASSUME NEW a \in Addr, WalletResolves(a) PROVE Books!Resolve(a)
  <2>1. /\ limbo[a] > 0 /\ limbo' = [limbo EXCEPT ![a] = 0]
        /\ \/ paid' = [paid EXCEPT ![a] = @ + limbo[a]]
           \/ paid' = paid
        /\ UNCHANGED <<balance, credited, flags>> /\ Held' = Held
    BY <1>3, <1>7 DEF WalletResolves, redis
  <2>2. a \in Held
    BY <1>5, <2>1 DEF DueRight
  <2>3. Due' = Due
    BY <1>1, <1>2, <2>1 DEF Due, locals, plan
  <2> QED
    BY <2>1, <2>2, <2>3 DEF Books!Resolve
<1>8. ASSUME NEW a \in Addr, Reconcile(a) PROVE Books!Settle(a)
  <2>1. /\ a \in flags /\ limbo[a] = 0 /\ flags' = flags \ {a}
        /\ balance' = [balance EXCEPT ![a] = @ - Unbooked(a)]
        /\ UNCHANGED <<credited, paid, limbo>>
    BY <1>8 DEF Reconcile, wallet
  <2>2. a \in Held /\ Held' = Held \ {a}
    BY <1>2, <2>1 DEF Held, FlagOnce
  <2>3. ASSUME NEW b \in Addr
        PROVE  Due'[b] = IF b = a THEN credited[a] - paid[a] ELSE Due[b]
    <3>1. b /= a => balance'[b] = balance[b]
      BY <1>4, <2>1
    <3>2. b = a => Due'[b] = credited[a] - paid[a]
      BY <1>5, <2>1, <2>2 DEF DueRight
    <3>3. b /= a => (b \in Held' <=> b \in Held)
      BY <2>2
    <3> QED
      BY <1>5, <2>1, <3>1, <3>2, <3>3 DEF DueRight
  <2>4. Due' = [Due EXCEPT ![a] = credited[a] - paid[a]]
    BY <1>5, <2>3
  <2> QED
    BY <2>1, <2>2, <2>4 DEF Books!Settle
<1>9. CASE \E a \in Addr : ClearReconcileFlag(a)
  BY <1>9 DEF ClearReconcileFlag
<1>10. CASE (\E a \in Addr : GrantBypass(a)) \/ SetTxnHalt \/ UnsetTxnHalt
  <2>1. UNCHANGED <<balance, credited, paid, limbo, flags>>
    BY <1>10 DEF GrantBypass, SetTxnHalt, UnsetTxnHalt, wallet
  <2> QED
    BY <1>3, <2>1, Stutter
<1> QED
  BY <1>6, <1>7, <1>8, <1>9, <1>10 DEF World, Books!Next

(* The wallet's answer to a group is the payment.                          *)
LEMMA AnswerPays ==
    ASSUME Faults = {}, HonestInv, HonestInv', NEW accepted \in SUBSET Addr,
           SendAnswered(accepted)
    PROVE  Books!Pay(accepted)
<1>1. /\ SafeInv /\ UNCHANGED <<balance, credited, limbo, flags>>
      /\ paid \in [Addr -> Nat] /\ paid' \in [Addr -> Nat] /\ WalletFunds \in Nat
      /\ limbo \in [Addr -> Nat]
  BY ConstantsAssumption DEF HonestInv, SafeInv, ShapeInv, TypeOK, SendAnswered, redis
<1>2. Held' = Held
  BY <1>1, AnsweredFacts DEF Held
<1>3. DueRight /\ DueRight' /\ Due \in [Addr -> Int] /\ Due' \in [Addr -> Int]
  BY DueFacts, DueFactsNext DEF DueRight, Due
<1>4. ASSUME NEW a \in Addr
      PROVE  /\ a \in accepted => a \notin Held /\ paid[a] <= paid'[a]
                                  /\ paid'[a] <= paid[a] + Due[a]
             /\ a \notin accepted => paid'[a] = paid[a]
             /\ Due'[a] = Due[a] - (paid'[a] - paid[a])
  <2>1. CASE a \in accepted
    <3>1. /\ ~ToBook(a) /\ ~ToFlag(a) /\ Unsent(a) /\ CanFund(a) /\ Charge(a) \in Nat
          /\ paid'[a] = paid[a] + Charge(a)
          /\ Charge(a) <= WalletFunds => Charge(a) = cache[a]
      BY <1>1, <2>1, AnsweredFacts
    <3>2. a \notin Held
      BY <3>1, AgreeFacts, HonestFacts DEF Held
    <3>3. Due'[a] = credited'[a] - paid'[a] /\ Due[a] = credited[a] - paid[a]
      BY <1>2, <1>3, <3>2 DEF DueRight
    <3>4. Due'[a] >= 0 /\ credited'[a] = credited[a]
      BY <1>1, <1>3 DEF DueRight
    <3>5. credited[a] \in Int
      BY AgreeFacts, HonestFacts
    <3> QED
      BY <1>1, <2>1, <3>1, <3>2, <3>3, <3>4, <3>5
  <2>2. CASE a \notin accepted
    <3>1. paid'[a] = paid[a]
      BY <1>1, <2>2, AnsweredFacts
    <3>2. Due'[a] = Due[a]
      BY <1>1, <1>2, <1>3, <3>1 DEF DueRight
    <3> QED
      BY <1>1, <1>3, <2>2, <3>1, <3>2
  <2> QED
    BY <2>1, <2>2
<1>5. Due' = [a \in Addr |-> Due[a] - (paid'[a] - paid[a])]
  BY <1>3, <1>4
<1> QED
  BY <1>1, <1>2, <1>4, <1>5 DEF Books!Pay, Books!OnlyFor

(* A send without an answer puts the whole group on hold at once, although *)
(* its flags are set one by one.                                           *)
LEMMA CutOffHolds ==
    ASSUME HonestInv, HonestInv', SendAmbiguous
    PROVE  Recipients(g) \in SUBSET Addr /\ Books!LoseTouch(Recipients(g))
<1>1. /\ pc = "send" /\ pc' = "flag" /\ i' = 1
      /\ limbo' = [a \in Addr |-> IF a \in Recipients(g) /\ CanFund(a)
                                  THEN limbo[a] + Charge(a) ELSE limbo[a]]
      /\ UNCHANGED <<balance, credited, paid, flags, groups, g, cache>>
  BY DEF SendAmbiguous, redis, plan
<1>2. /\ g \in DOMAIN groups /\ TypeOK
      /\ limbo \in [Addr -> Nat] /\ limbo' \in [Addr -> Nat]
  BY <1>1 DEF HonestInv, SafeInv, ShapeInv, IndicesFit, TypeOK
<1>3. DOMAIN Payments = 1..Len(Payments) /\ Recipients(g) \subseteq Addr
  BY <1>2, PaymentFacts DEF Payments, Recipients
<1>4. ASSUME NEW a \in Addr
      PROVE  /\ ~ToBook(a) /\ ~ToBook(a)' /\ ~ToFlag(a)
             /\ ToFlag(a)' <=> a \in Recipients(g)
             /\ a \in Recipients(g) => a \notin flags
  <2>1. ~ToBook(a) /\ ~ToBook(a)' /\ ~ToFlag(a)
    BY <1>1 DEF ToBook, ToFlag
  <2>2. ToFlag(a)' <=> a \in Recipients(g)
    BY <1>1, <1>3 DEF ToFlag, Recipients, Recipient, Payments
  <2>3. a \in Recipients(g) => Unsent(a)
    BY <1>1, <1>2 DEF Unsent
  <2> QED
    BY <2>1, <2>2, <2>3, AgreeFacts, HonestFacts
<1>5. Held' = Held \cup Recipients(g) /\ Recipients(g) \cap Held = {}
  BY <1>1, <1>3, <1>4 DEF Held
<1>6. Due' = Due
  BY <1>1, <1>4 DEF Due
<1>7. \A a \in Recipients(g) : limbo'[a] <= Due[a]
  BY <1>3, <1>5, <1>6, DueFactsNext DEF DueRight
<1>8. \A a \in Addr \ Recipients(g) : limbo'[a] = limbo[a]
  BY <1>1
<1> QED
  BY <1>1, <1>2, <1>3, <1>5, <1>6, <1>7, <1>8 DEF Books!LoseTouch, Books!OnlyFor

(* Every other step of a run is a stutter: booking only catches up with    *)
(* what has been paid, flagging with what has been put on hold.            *)
LEMMA RunStutters ==
    ASSUME Faults = {}, HonestInv, HonestInv',
           performPayouts \/ Crash \/ (Run /\ ~SendAmbiguous
                                           /\ ~ \E accepted \in SUBSET Addr : SendAnswered(accepted))
    PROVE  UNCHANGED Books!vars
<1>1. SafeInv
  BY DEF HonestInv
<1>2. CASE FlagRecipient
  <2>1. /\ UNCHANGED <<balance, credited, paid, limbo>> /\ pc = "flag"
        /\ flags' = flags \cup {Recipient(g, i)}
    BY <1>2 DEF FlagRecipient, Recipient, Payments, reconcilePendingKey, wallet
  <2>2. ToFlag(Recipient(g, i))
    <3>1. i \in DOMAIN Payments /\ i \in Nat
      BY <1>1, <2>1, InHand DEF SafeInv
    <3> QED
      BY <2>1, <3>1 DEF ToFlag
  <2>3. ASSUME NEW a \in Addr
        PROVE  (a \in flags \/ ToFlag(a))' <=> (a \in flags \/ ToFlag(a))
    BY <1>1, <1>2, <2>1, <2>2, FlagFacts
  <2>4. Held' = Held
    BY <2>3 DEF Held
  <2> QED
    BY <2>1, <2>4, Stutter
<1>3. CASE CommitPayout
  <2>1. ASSUME NEW a \in Addr
        PROVE  /\ UNCHANGED <<credited, paid, limbo, flags>>
               /\ ~ToFlag(a) /\ ~ToFlag(a)'
               /\ a = Recipient(g, i) => ToBook(a)
               /\ a /= Recipient(g, i) => balance'[a] = balance[a]
    BY <1>1, <1>3, CommitFacts
  <2>2. UNCHANGED <<credited, paid, limbo, flags>>
    BY <1>3 DEF CommitPayout, redis, wallet
  <2>3. Held' = Held
    BY <2>1, <2>2 DEF Held
  <2>4. \A a \in Held : balance'[a] = balance[a]
    BY <2>1, DueFacts DEF DueRight, Held
  <2> QED
    BY <2>2, <2>3, <2>4, Stutter
<1>4. CASE \/ performPayouts \/ CollectPayments \/ CreateNewBatch \/ HaltedBetweenGroups
           \/ StartGroup \/ SendRefused \/ RecordFailure \/ ClearBypass \/ UpdateBatchAmounts
  <2>1. UNCHANGED <<balance, credited, paid, limbo, flags>> /\ pc /= "flag" /\ pc' /= "flag"
    BY <1>4 DEF performPayouts, CollectPayments, CreateNewBatch, HaltedBetweenGroups, StartGroup,
       SendRefused, RecordFailure, ClearBypass, UpdateBatchAmounts, EndRun, GroupFailed, NextGroup,
       NextResult, outside, redis, wallet
  <2>2. Held' = Held
    BY <2>1 DEF Held, ToFlag
  <2> QED
    BY <2>1, <2>2, Stutter
<1>5. CASE Crash \/ LosePayout \/ RejectReply
  BY <1>5 DEF Crash, LosePayout, RejectReply, HonestInv
<1> QED
  BY <1>2, <1>3, <1>4, <1>5 DEF Run
-----------------------------------------------------------------------------
LEMMA BooksBegin == Init => Books!Init /\ FlagOnce
<1> SUFFICES ASSUME Init PROVE Books!Init /\ FlagOnce
  OBVIOUS
<1>1. \A a \in Addr : ~ToBook(a) /\ ~ToFlag(a)
  BY DEF Init, ToBook, ToFlag
<1>2. Held = {} /\ FlagOnce
  BY <1>1 DEF Init, Held, FlagOnce
<1>3. Due = [a \in Addr |-> 0]
  BY <1>1 DEF Init, Due
<1> QED
  BY <1>2, <1>3 DEF Init, Books!Init

LEMMA BooksNext ==
    ASSUME Faults = {}, HonestInv, HonestInv', FlagOnce, [Next]_vars
    PROVE  [Books!Next]_Books!vars
<1>1. CASE World
  BY <1>1, WorldKeepsBooks
<1>2. CASE \E accepted \in SUBSET Addr : SendAnswered(accepted)
  BY <1>2, AnswerPays DEF Books!Next
<1>3. CASE SendAmbiguous
  BY <1>3, CutOffHolds DEF Books!Next
<1>4. CASE UNCHANGED vars
  <2>1. UNCHANGED locals /\ UNCHANGED <<balance, credited, paid, limbo, flags, cache>>
    BY <1>4 DEF vars, locals, plan, tally
  <2>2. Held' = Held
    BY <2>1, LocalsSame DEF Held
  <2> QED
    BY <2>1, <2>2, Stutter
<1> QED
  BY <1>1, <1>2, <1>3, <1>4, RunStutters DEF Next

(* When nothing fails, what the daemon does to the owner of an address, in *)
(* any number of runs and with everybody else in between, is what the      *)
(* promise allows.                                                         *)
THEOREM KeepsTheBooks ==
    ASSUME Faults = {}
    PROVE  Spec => BooksKept
<1>1. Init => Books!Init /\ FlagOnce
  BY BooksBegin
<1>2. HonestInv /\ FlagOnce /\ [Next]_vars => FlagOnce'
  BY FlagOnceStep
<1>3. HonestInv /\ HonestInv' /\ FlagOnce /\ [Next]_vars => [Books!Next]_Books!vars
  BY BooksNext
<1>4. Spec => []HonestInv
  BY Honest
<1> QED
  BY <1>1, <1>2, <1>3, <1>4, PTL DEF Spec, BooksKept, Books!Spec
=============================================================================
