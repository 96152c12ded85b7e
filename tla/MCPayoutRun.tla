---------------------------- MODULE MCPayoutRun ----------------------------
(***************************************************************************)
(* Small instances of PayoutRun, with the splitPayments of PayoutSplit.    *)
(***************************************************************************)
EXTENDS PayoutRefines, TLC

CONSTANTS txnsPerBatch, MinimumAmount

Split == INSTANCE PayoutSplit WITH
    WellFormed <- WellFormed,
    tier2SmallThreshold <- 1,
    tier3MediumThreshold <- 2,
    tier1IndividualThreshold <- 3,
    batchAmountCap <- 6

MCSplitPayments(payments) == Split!splitPayments(payments, txnsPerBatch).groups
MCMinimum == [a \in Addr |-> MinimumAmount]
Symmetry == Permutations(Addr)
=============================================================================
