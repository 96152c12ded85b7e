---------------------------- MODULE PayoutGroups ----------------------------
(***************************************************************************)
(* What the two halves of cmd/payoutDaemon have in common: the payments    *)
(* that performPayouts hands to splitPayments, the groups it gets back,    *)
(* and what it relies on them for.                                         *)
(***************************************************************************)
EXTENDS Integers, Sequences

CONSTANTS
    Addr,   \* the addresses of the rows of `balances`
    Fee,    \* the 5000 taken off a balance before it is sent
    Word    \* number of values of a uint64 (2^64 in the code)

Payment == [address : Addr, amount : 0..(Word - 1)]
Group == [tier : 1..4, isIndividual : BOOLEAN, payments : Seq(Payment), batchIndex : Nat]

(* What a run relies on splitPayments for: every payment of a group is one *)
(* of those handed over, to an address the parser accepts; none is there   *)
(* twice; and an amount that has wrapped around at 0 is in a group of its  *)
(* own.                                                                    *)
GoodSplit(gs, ps, accepted) ==
    /\ gs \in Seq(Group)
    /\ \A k \in DOMAIN gs :
          /\ gs[k].payments /= <<>>
          /\ \A j \in DOMAIN gs[k].payments :
                /\ \E n \in DOMAIN ps : gs[k].payments[j] = ps[n]
                /\ gs[k].payments[j].address \in accepted
                /\ gs[k].payments[j].amount >= Word - Fee => Len(gs[k].payments) = 1
    /\ \A k, l \in DOMAIN gs : \A j \in DOMAIN gs[k].payments, m \in DOMAIN gs[l].payments :
          gs[k].payments[j].address = gs[l].payments[m].address => k = l /\ j = m
=============================================================================
