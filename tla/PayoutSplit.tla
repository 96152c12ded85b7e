---------------------------- MODULE PayoutSplit ----------------------------
(***************************************************************************)
(* The routing policy of cmd/payoutDaemon/split.go: which payments are     *)
(* sent to the wallet, in which order and in which groups.  Everything     *)
(* here is a pure operator, as it is in the code ("no wallet/SQL/redis     *)
(* side effects").                                                         *)
(*                                                                         *)
(* A payment is [address, amount]; the fee rate, the payment type and the  *)
(* message a recipient also carries are the same for all of them.          *)
(* A group (PayoutGroup) is [tier, isIndividual, payments, batchIndex].    *)
(*                                                                         *)
(* A definition introduced as a "slip" is a wrong variant of the one that  *)
(* follows it, of the kind a change to the code might bring; no other      *)
(* definition uses it.  A property is worth having only if it fails when   *)
(* such a slip takes the place of the real definition.                     *)
(***************************************************************************)
EXTENDS Integers, FiniteSets, Sequences, SequencesExt

CONSTANTS
    WellFormed,                 \* addresses address.Parse accepts (go-tari-lib)
    tier1IndividualThreshold,   \* amounts above it are sent one at a time
    tier2SmallThreshold,        \* amounts up to it go into tier 2
    tier3MediumThreshold,       \* amounts above tier 2 and up to it: tier 3
    batchAmountCap              \* cumulative cap of one batch

ASSUME ThresholdAssumption ==
    /\ {tier1IndividualThreshold, tier2SmallThreshold,
        tier3MediumThreshold, batchAmountCap} \subseteq Nat
    /\ tier2SmallThreshold < tier3MediumThreshold
    /\ tier3MediumThreshold < tier1IndividualThreshold
    /\ tier1IndividualThreshold <= batchAmountCap

(* The format check of an address.  address.Parse is a library's; only its *)
(* verdict matters, and WellFormed holds the addresses it accepts.         *)
validatePaymentAddress(a) == a \in WellFormed

(* sort.SliceStable of the elements of s at the indices in I: reordered so  *)
(* that no element stands behind one it is Less than; elements neither of  *)
(* which is Less keep their order.                                         *)
SliceStable(s, I, Less(_, _)) ==
    LET Before(i, j) == Less(s[i], s[j]) \/ (~Less(s[j], s[i]) /\ i < j)
        Rank(i) == 1 + Cardinality({j \in I : Before(j, i)})
    IN  [k \in 1..Cardinality(I) |-> s[CHOOSE i \in I : Rank(i) = k]]

AsListed(p, q) == FALSE

(* The loop that appends each payment to one of two lists.                 *)
filterValidAddresses(payments) ==
    LET valid == {i \in DOMAIN payments : validatePaymentAddress(payments[i].address)}
    IN  [valid   |-> SliceStable(payments, valid, AsListed),
         invalid |-> SliceStable(payments, DOMAIN payments \ valid, AsListed)]

(* The orders the tiers are sorted by, and a slip: the tiers that are sent *)
(* highest first sorted the other way round.                               *)
HighestLast(p, q) == p.amount < q.amount
HighestFirst(p, q) == p.amount > q.amount
LowestFirst(p, q) == p.amount < q.amount

Batch(tier, payments, index) ==
    [tier |-> tier, isIndividual |-> FALSE, payments |-> payments, batchIndex |-> index]

(* Slip: the batch is flushed only once it is over the payment count.      *)
FullOffByOne(acc, p, txnsPerBatch) ==
    /\ acc.current /= <<>>
    /\ acc.sum + p.amount > batchAmountCap \/ Len(acc.current) > txnsPerBatch

(* Slip: a batch that would fill the cap exactly is closed before it does. *)
FullBelowCap(acc, p, txnsPerBatch) ==
    /\ acc.current /= <<>>
    /\ acc.sum + p.amount >= batchAmountCap \/ Len(acc.current) >= txnsPerBatch

(* When the batch being filled cannot take payment p as well.              *)
Full(acc, p, txnsPerBatch) ==
    /\ acc.current /= <<>>
    /\ acc.sum + p.amount > batchAmountCap \/ Len(acc.current) >= txnsPerBatch

(* The greedy loop.  Its variables are the groups flushed so far and the   *)
(* batch being filled, with its running sum.  A batch is flushed before a  *)
(* payment that would push it over the amount cap or over the payment      *)
(* count, never when it is empty: a txnsPerBatch of 0 still makes batches  *)
(* of one.                                                                 *)
NoBatch == [groups |-> <<>>, current |-> <<>>, sum |-> 0]
Flush(tier, acc) ==
    [groups  |-> Append(acc.groups, Batch(tier, acc.current, Len(acc.groups))),
     current |-> <<>>, sum |-> 0]
AddPayment(acc, p) ==
    [groups |-> acc.groups, current |-> Append(acc.current, p), sum |-> acc.sum + p.amount]
NextPayment(tier, txnsPerBatch, acc, p) ==
    AddPayment(IF Full(acc, p, txnsPerBatch) THEN Flush(tier, acc) ELSE acc, p)

buildTierBatches(tier, payments, txnsPerBatch) ==
    LET loop == FoldLeft(LAMBDA acc, p : NextPayment(tier, txnsPerBatch, acc, p), NoBatch, payments)
    IN  IF loop.current = <<>> THEN loop.groups ELSE Flush(tier, loop).groups

(* Slip: the lower edge of tier 3 tried with the wrong comparison, so that *)
(* a payment of exactly tier2SmallThreshold belongs to no tier.            *)
TierOfGap(amount) ==
    CASE amount > tier1IndividualThreshold -> 1
      [] amount < tier2SmallThreshold      -> 2
      [] amount > tier2SmallThreshold /\ amount <= tier3MediumThreshold -> 3
      [] amount > tier3MediumThreshold     -> 4
      [] OTHER -> 0

(* The switch on payment.Amount, cases tried from the top.                 *)
TierOf(amount) ==
    CASE amount > tier1IndividualThreshold -> 1
      [] amount <= tier2SmallThreshold     -> 2
      [] amount > tier2SmallThreshold /\ amount <= tier3MediumThreshold -> 3
      [] OTHER -> 4

Individual(p) ==
    [tier |-> 1, isIndividual |-> TRUE, payments |-> <<p>>, batchIndex |-> 0]

splitPayments(payments, txnsPerBatch) ==
    LET filtered == filterValidAddresses(payments)
        Tier(t)  == {i \in DOMAIN filtered.valid : TierOf(filtered.valid[i].amount) = t}
        tier1 == SliceStable(filtered.valid, Tier(1), HighestFirst)
        tier2 == SliceStable(filtered.valid, Tier(2), LowestFirst)
        tier3 == SliceStable(filtered.valid, Tier(3), HighestFirst)
        tier4 == SliceStable(filtered.valid, Tier(4), HighestFirst)
    IN  [groups |-> [k \in DOMAIN tier1 |-> Individual(tier1[k])]
                        \o buildTierBatches(2, tier2, txnsPerBatch)
                        \o buildTierBatches(3, tier3, txnsPerBatch)
                        \o buildTierBatches(4, tier4, txnsPerBatch),
         invalidAddresses |-> filtered.invalid]
=============================================================================
