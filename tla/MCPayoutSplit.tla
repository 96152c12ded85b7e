--------------------------- MODULE MCPayoutSplit ---------------------------
(***************************************************************************)
(* Checks splitPayments on every list of up to MaxPayments payments, every *)
(* batch size the -batch-size flag may give it up to MaxBatch (0 included) *)
(* and amounts on both sides of every threshold.  Init picks the call, the *)
(* only step makes it.  (That its groups are a GoodSplit, as PayoutRun     *)
(* assumes, TLC checks there: SplitAssumption; PayoutSplitProofs proves it *)
(* of any list.)                                                           *)
(***************************************************************************)
EXTENDS PayoutSplit

CONSTANTS Address,      \* the addresses of the list, in order of the list
          Malformed,    \* an address the parser rejects
          MaxAmount, MaxPayments, MaxBatch

(* A row of `balances` is one address's.                                   *)
ASSUME ListAssumption ==
    /\ {MaxAmount, MaxPayments, MaxBatch} \subseteq Nat
    /\ \A i \in 1..MaxPayments : Address[i] /= Malformed
    /\ \A i, j \in 1..MaxPayments : Address[i] = Address[j] => i = j

VARIABLES payments, txnsPerBatch,
          returned      \* <<>> before the call, then the one result
vars == <<payments, txnsPerBatch, returned>>

MCAddress == <<"w1", "w2", "w3", "w4">>
MCWellFormed == {"w1", "w2", "w3", "w4"}

(* A row of `balances` whose address is malformed may stand anywhere in    *)
(* the list; bad is its place, 0 when there is none.                       *)
Lists == UNION {{[i \in 1..n |-> [address |-> IF i = bad THEN Malformed ELSE Address[i],
                                  amount  |-> amounts[i]]] :
                   amounts \in [1..n -> 0..MaxAmount], bad \in {0, 2}} :
                n \in 0..MaxPayments}

Init == /\ payments \in Lists
        /\ txnsPerBatch \in 0..MaxBatch
        /\ returned = <<>>

Call == /\ returned = <<>>
        /\ returned' = <<splitPayments(payments, txnsPerBatch)>>
        /\ UNCHANGED <<payments, txnsPerBatch>>

Spec == Init /\ [][Call]_vars
-----------------------------------------------------------------------------
(* The payments of the groups, as <<group, place in it>>, in the order in  *)
(* which they are sent.                                                    *)
Done == returned /= <<>>
result == returned[1]
groups == result.groups
Slots == UNION {{k} \X DOMAIN groups[k].payments : k \in DOMAIN groups}
Sent(s) == groups[s[1]].payments[s[2]]
Earlier(s, t) == s[1] < t[1] \/ (s[1] = t[1] /\ s[2] < t[2])
Amount(ps) == FoldLeft(LAMBDA sum, p : sum + p.amount, 0, ps)
InputIndex(p) == CHOOSE i \in DOMAIN payments : payments[i] = p

(* Every payment of the list is in exactly one group, once, or reported as *)
(* invalid, once; no group is empty.  ("Excluded entries, for reporting -- *)
(* never silently dropped"; a payment in two groups would be paid twice.)  *)
NothingLost == Done =>
    /\ {Sent(s) : s \in Slots} \cup ToSet(result.invalidAddresses) = ToSet(payments)
    /\ \A s, t \in Slots : Sent(s) = Sent(t) => s = t
    /\ \A i, j \in DOMAIN result.invalidAddresses :
          result.invalidAddresses[i] = result.invalidAddresses[j] => i = j
    /\ \A s \in Slots : Sent(s).address \in WellFormed
    /\ \A p \in ToSet(result.invalidAddresses) : p.address \notin WellFormed
    /\ \A k \in DOMAIN groups : groups[k].payments /= <<>>

(* Over all groups, one after the other, payments go out in the order of   *)
(* the policy: by tier, then by amount in the tier's direction, then in    *)
(* the order of the list (the sort is stable).                             *)
SentInPolicyOrder == Done =>
    \A s, t \in Slots : Earlier(s, t) =>
        LET p == Sent(s)  q == Sent(t)  tier == TierOf(p.amount)
        IN  \/ tier < TierOf(q.amount)
            \/ /\ tier = TierOf(q.amount)
               /\ \/ IF tier = 2 THEN p.amount < q.amount ELSE p.amount > q.amount
                  \/ p.amount = q.amount /\ InputIndex(p) < InputIndex(q)

(* No transaction carries more than the amount cap or the batch size, one  *)
(* recipient alone goes into an individual transaction, and tiers are      *)
(* never mixed in one.                                                     *)
WithinLimits == Done =>
    \A k \in DOMAIN groups :
        LET group == groups[k]
        IN  /\ group.isIndividual <=> group.tier = 1
            /\ group.isIndividual => Len(group.payments) = 1
            /\ ~group.isIndividual =>
                  /\ Amount(group.payments) <= batchAmountCap
                  /\ Len(group.payments) <= IF txnsPerBatch = 0 THEN 1 ELSE txnsPerBatch
            /\ \A i \in DOMAIN group.payments : TierOf(group.payments[i].amount) = group.tier

(* A batch is closed only because the next payment did not fit: no more    *)
(* transactions (and fees) than the greedy rule asks for.  Batches of a    *)
(* tier are numbered from 0 without gaps.                                  *)
ClosedOnlyWhenFull == Done =>
    \A k \in DOMAIN groups :
        LET group == groups[k]
            First == k = 1 \/ groups[k-1].tier /= group.tier
            before == groups[k-1]
        IN  IF group.isIndividual \/ First
            THEN group.batchIndex = 0
            ELSE /\ group.batchIndex = before.batchIndex + 1
                 /\ \/ Amount(before.payments) + group.payments[1].amount > batchAmountCap
                    \/ Len(before.payments) >= txnsPerBatch
=============================================================================
