----------------------------- MODULE PayoutRun -----------------------------
(***************************************************************************)
(* cmd/payoutDaemon: the runs of performPayouts, one after the other, with *)
(* everything they share with the rest of the pool: the `balances` table   *)
(* (Postgres), the reconcile, bypass and halt keys (Redis), the Tari       *)
(* wallet that really moves the money, and the operator.                   *)
(*                                                                         *)
(* A run is one thread of control; its program counter is pc and its local *)
(* variables are cache (balanceCache), groups, g and i (the group and the  *)
(* result it is at), reply (what the wallet answered for group g) and      *)
(* tally.  Between two of its steps anything else may happen.              *)
(*                                                                         *)
(* As in PayoutSplit, a "slip" is a wrong variant of the definition after  *)
(* it, there to show that a property notices it; nothing uses it.          *)
(***************************************************************************)
EXTENDS PayoutGroups, FiniteSets, Functions

CONSTANTS
    Valid,            \* those whose row has valid = true
    WellFormed,       \* those splitPayments finds well-formed
    Minimum,          \* payout_minimum of each row
    WalletFunds,      \* the most the wallet can have paid one address
    MaxCredit,        \* bound: the most the pool credits one address
    Credits,          \* the sizes of a credit
    Faults,           \* which of FaultKinds may happen
    SplitPayments(_)  \* splitPayments(_, txnsPerBatch).groups of PayoutSplit

(* crash      the process dies between two steps, and is started again     *)
(* db         a statement, a transaction or a commit fails                 *)
(* redisRead  an EXISTS fails; go-redis then reports 0, as for "no key"    *)
(* redisWrite a SET or DEL fails                                           *)
(* reply      the wallet's response has not one result per payment         *)
(* hasty      the operator clears a flag without looking at the wallet     *)
(* midRead    the operator settles a flag between a run's SELECT of the    *)
(*            balances and its EXISTS of the flag                          *)
FaultKinds == {"crash", "db", "redisRead", "redisWrite", "reply", "hasty", "midRead"}

(* Slip: an amount that would wrap is sent as 0.                           *)
Sub64Clamped(x, y) == IF x >= y THEN x - y ELSE 0

(* uint64 subtraction of two numbers below Word.                           *)
Sub64(x, y) == IF x >= y THEN x - y ELSE x - y + Word

(* The payments of a list of rows: amount is Balance - 5000, unsigned.     *)
PaymentsFor(order, bal) ==
    [k \in DOMAIN order |-> [address |-> order[k], amount |-> Sub64(bal[order[k]], Fee)]]

(* The orders in which a query may return the rows of S (sort order 0 asks *)
(* for none, 1 and 2 leave ties open).                                     *)
RowOrders(S) ==
    {order \in [1..Cardinality(S) -> S] : \A a \in S : \E k \in DOMAIN order : order[k] = a}

ASSUME ConstantsAssumption ==
    /\ Valid \subseteq Addr
    /\ Minimum \in [Addr -> Nat]
    /\ {Fee, Word, WalletFunds, MaxCredit} \subseteq Nat
    /\ Credits \subseteq Nat
    /\ Faults \subseteq FaultKinds
    /\ Fee < Word /\ MaxCredit < Word /\ WalletFunds < Word

ASSUME SplitAssumption ==
    \A S \in SUBSET Addr : \A order \in RowOrders(S), bal \in [Addr -> 0..MaxCredit] :
        GoodSplit(SplitPayments(PaymentsFor(order, bal)), PaymentsFor(order, bal), WellFormed)
-----------------------------------------------------------------------------
VARIABLES
    balance,    \* balances.balance, per address
    flags,      \* addresses with a payout_reconcile_pending_ key
    bypass,     \* addresses with a bal_bypass_ key
    halt,       \* whether the payout-daemon-halt-batching key exists
    credited,   \* what the pool has credited to each address
    paid,       \* what the wallet has really broadcast for it, fee included
    limbo,      \* what it may still broadcast for a call that was cut off
    pc,         \* the step the run takes next; "idle" between runs
    rows,       \* the addresses of the rows GetAllBalances returned
    cache,      \* their balances, as read then (balanceCache)
    groups, g,  \* splitResult.Groups and the index of the group in hand
    reply, i,   \* IsSuccess of each result for group g, and the result in hand
    successAmount, failedAmount,
    unsettled   \* the groups no result was counted for: the daemon only logs
                \* them ("Processed group WITH ERROR"), a property needs them

redis == <<flags, bypass, halt>>
wallet == <<paid, limbo>>
outside == <<balance, redis, credited, wallet>>
plan == <<rows, cache, groups>>
tally == <<successAmount, failedAmount, unsettled>>
locals == <<pc, plan, g, i, reply, tally>>
vars == <<balance, flags, bypass, halt, credited, paid, limbo,
          pc, rows, cache, groups, g, i, reply, successAmount, failedAmount, unsettled>>

Steps == {"idle", "collect", "batch", "group", "send", "apply", "unbypass", "flag", "finish"}

TypeOK ==
    /\ balance \in [Addr -> Int]
    /\ flags \subseteq Addr
    /\ bypass \subseteq Addr
    /\ halt \in BOOLEAN
    /\ credited \in [Addr -> 0..MaxCredit]
    /\ paid \in [Addr -> Nat]
    /\ limbo \in [Addr -> Nat]
    /\ pc \in Steps
    /\ rows \subseteq Addr
    /\ cache \in [Addr -> 0..MaxCredit]
    /\ groups \in Seq(Group)
    /\ g \in Nat /\ i \in Nat
    /\ reply \in Seq(BOOLEAN)
    /\ successAmount \in Nat /\ failedAmount \in Nat
    /\ unsettled \subseteq Nat

NoCache == [a \in Addr |-> 0]

Init ==
    /\ balance = [a \in Addr |-> 0] /\ credited = [a \in Addr |-> 0]
    /\ paid = [a \in Addr |-> 0] /\ limbo = [a \in Addr |-> 0]
    /\ flags = {} /\ bypass = {} /\ halt = FALSE
    /\ pc = "idle" /\ rows = {} /\ cache = NoCache /\ groups = <<>> /\ g = 1 /\ i = 1
    /\ reply = <<>> /\ successAmount = 0 /\ failedAmount = 0 /\ unsettled = {}
-----------------------------------------------------------------------------
(* The world around the daemon.                                            *)

(* The pool credits a row; nothing in cmd/payoutDaemon does.               *)
Credit(a) ==
    /\ \E c \in Credits :
          /\ credited[a] + c <= MaxCredit
          /\ credited' = [credited EXCEPT ![a] = @ + c]
          /\ balance' = [balance EXCEPT ![a] = @ + c]
    /\ UNCHANGED <<redis, wallet, locals>>

(* The wallet makes up its mind about a send whose answer was lost: the    *)
(* payment was broadcast after all, or never will be.                      *)
WalletResolves(a) ==
    /\ limbo[a] > 0
    /\ \/ paid' = [paid EXCEPT ![a] = @ + limbo[a]]
       \/ paid' = paid
    /\ limbo' = [limbo EXCEPT ![a] = 0]
    /\ UNCHANGED <<balance, credited, redis, locals>>

(* The operator settles a flag as the comments ask: once the wallet's      *)
(* history is conclusive, the payments that were broadcast and not booked  *)
(* are taken off the row, and the flag is cleared (-clear-reconcile-flag). *)
(* Nothing in the code keeps him from it while a run is reading its rows.  *)
Unbooked(a) == paid[a] - (credited[a] - balance[a])
Reconcile(a) ==
    /\ a \in flags /\ limbo[a] = 0
    /\ pc = "collect" => "midRead" \in Faults
    /\ 0 <= Unbooked(a) /\ Unbooked(a) <= balance[a]
    /\ balance' = [balance EXCEPT ![a] = @ - Unbooked(a)]
    /\ flags' = flags \ {a}
    /\ UNCHANGED <<bypass, halt, credited, wallet, locals>>

(* The operator's other switches: -clear-reconcile-flag with no look at    *)
(* the wallet, bal_bypass_, -set-txn-halt and -unset-txn-halt.             *)
ClearReconcileFlag(a) ==
    /\ "hasty" \in Faults
    /\ flags' = flags \ {a}
    /\ UNCHANGED <<balance, bypass, halt, credited, wallet, locals>>

GrantBypass(a) ==
    /\ bypass' = bypass \cup {a}
    /\ UNCHANGED <<balance, flags, halt, credited, wallet, locals>>

SetTxnHalt ==
    /\ halt' = TRUE
    /\ UNCHANGED <<balance, flags, bypass, credited, wallet, locals>>

UnsetTxnHalt ==
    /\ halt' = FALSE
    /\ UNCHANGED <<balance, flags, bypass, credited, wallet, locals>>
-----------------------------------------------------------------------------
(* The start of performPayouts.  A run that ends before it has done        *)
(* anything changes no state, so it is no step: halted, no row, nothing    *)
(* eligible, a failed SELECT.                                              *)

EndRun ==
    /\ pc' = "idle" /\ rows' = {} /\ cache' = NoCache /\ groups' = <<>>
    /\ g' = 1 /\ i' = 1 /\ reply' = <<>>
    /\ successAmount' = 0 /\ failedAmount' = 0 /\ unsettled' = {}

(* Slip: the halt key is not looked at.                                    *)
HaltIgnored == TRUE

(* go-redis reports 0 for an EXISTS that failed, so a key may be missed.   *)
MayMiss(keys) == IF "redisRead" \in Faults THEN SUBSET keys ELSE {{}}
HaltUnseen == ~halt \/ "redisRead" \in Faults

(* The rows sql.GetAllBalances may return: it leaves out negative balances *)
(* and skips a row it fails to scan.                                       *)
GetAllBalances ==
    {{a \in Addr : balance[a] >= 0} \ unread :
        unread \in IF "db" \in Faults THEN SUBSET Addr ELSE {{}}}

performPayouts ==
    /\ pc = "idle" /\ HaltUnseen
    /\ rows' \in GetAllBalances
    /\ rows' /= {}
    /\ cache' = [a \in Addr |-> IF a \in rows' THEN balance[a] ELSE 0]
    /\ pc' = "collect"
    /\ UNCHANGED <<outside, groups, g, i, reply, tally>>

(* Slips: the reconcile flag is not looked at; a balance has to exceed its *)
(* minimum; the column valid is not looked at.                             *)
EligibleFlagged(flagged, bypassed) ==
    {a \in rows : a \in Valid /\ (cache[a] < Minimum[a] => a \in bypassed)}

EligibleAbove(flagged, bypassed) ==
    {a \in rows : /\ a \in Valid
                  /\ a \notin flagged
                  /\ cache[a] <= Minimum[a] => a \in bypassed}

EligibleInvalid(flagged, bypassed) ==
    {a \in rows : a \notin flagged /\ (cache[a] < Minimum[a] => a \in bypassed)}

(* The rows that are paid: valid, with no reconcile flag, and at their     *)
(* minimum or with a bypass.                                               *)
Eligible(flagged, bypassed) ==
    {a \in rows : /\ a \in Valid
                  /\ a \notin flagged
                  /\ cache[a] < Minimum[a] => a \in bypassed}

(* The loop over the rows, with its EXISTS calls, then splitPayments.      *)
CollectPayments ==
    /\ pc = "collect"
    /\ \E missedFlags \in MayMiss(flags), missedBypass \in MayMiss(bypass) :
       LET chosen == Eligible(flags \ missedFlags, bypass \ missedBypass)
       IN  \E order \in RowOrders(chosen) :
           LET split == SplitPayments(PaymentsFor(order, cache))
           IN  IF split = <<>>
               THEN EndRun
               ELSE /\ groups' = split
                    /\ pc' = "batch"
                    /\ UNCHANGED <<rows, cache, g, i, reply, tally>>
    /\ UNCHANGED outside

(* sql.CreateNewBatch; without a batch row the run ends.                   *)
CreateNewBatch ==
    /\ pc = "batch"
    /\ \/ pc' = "group" /\ UNCHANGED <<plan, g, i, reply, tally>>
       \/ "db" \in Faults /\ EndRun
    /\ UNCHANGED outside
-----------------------------------------------------------------------------
(* The loop over the groups.  The payments of group k, their recipients,   *)
(* and what a payment costs its recipient's balance: the amount sent and   *)
(* the fee that was taken off it before.                                   *)
PaymentsOf(k) == {groups[k].payments[j] : j \in DOMAIN groups[k].payments}
Recipient(k, j) == groups[k].payments[j].address
Recipients(k) == {Recipient(k, j) : j \in DOMAIN groups[k].payments}
Charge(a) == (CHOOSE p \in PaymentsOf(g) : p.address = a).amount + Fee
CanFund(a) == paid[a] + limbo[a] + Charge(a) <= WalletFunds

Payments == groups[g].payments
NextGroup ==
    /\ IF g < Len(groups) THEN pc' = "group"  /\ g' = g + 1
                          ELSE pc' = "finish" /\ g' = g
    /\ i' = 1 /\ reply' = <<>>
    /\ UNCHANGED plan

(* Slip: a group that failed is tried again.                               *)
GroupRetried ==
    /\ pc' = "group" /\ i' = 1 /\ reply' = <<>>
    /\ UNCHANGED <<plan, g, tally>>

(* An error on a group: it is logged, and the run goes on with the next.   *)
GroupFailed ==
    /\ NextGroup
    /\ unsettled' = unsettled \cup {g}
    /\ UNCHANGED <<successAmount, failedAmount>>

(* The halt key is looked at before every group.                           *)
HaltedBetweenGroups ==
    /\ pc = "group" /\ halt
    /\ pc' = "finish"
    /\ unsettled' = unsettled \cup g..Len(groups)
    /\ UNCHANGED <<outside, plan, g, i, reply, successAmount, failedAmount>>

StartGroup ==
    /\ pc = "group" /\ HaltUnseen
    /\ pc' = "send"
    /\ UNCHANGED <<outside, plan, g, i, reply, tally>>

(* sendGroupPayments, the wallet answering: it broadcasts the payments to  *)
(* accepted and refuses the others, and says so in one result per payment, *)
(* in their order, or in fewer.  (A single transaction is all or nothing;  *)
(* the code does not count on that, so neither does the model.)            *)
Answer(accepted, n) == [j \in 1..n |-> Payments[j].address \in accepted]

SendAnswered(accepted) ==
    /\ pc = "send"
    /\ accepted \subseteq Recipients(g)
    /\ \A a \in accepted : CanFund(a)
    /\ paid' = [a \in Addr |-> IF a \in accepted THEN paid[a] + Charge(a) ELSE paid[a]]
    /\ \/ reply' = Answer(accepted, Len(Payments))
       \/ /\ "reply" \in Faults
          /\ \E n \in 0..Len(Payments) - 1 : reply' = Answer(accepted, n)
    /\ pc' = "apply" /\ i' = 1
    /\ UNCHANGED <<balance, redis, credited, limbo, plan, g, tally>>

(* An error that says nothing was broadcast.                               *)
SendRefused ==
    /\ pc = "send"
    /\ GroupFailed
    /\ UNCHANGED outside

(* ErrAmbiguousBroadcast: cut off with no signal; whatever the wallet can  *)
(* fund it may have broadcast, or may yet.                                 *)
SendAmbiguous ==
    /\ pc = "send"
    /\ limbo' = [a \in Addr |-> IF a \in Recipients(g) /\ CanFund(a)
                                THEN limbo[a] + Charge(a) ELSE limbo[a]]
    /\ pc' = "flag" /\ i' = 1
    /\ UNCHANGED <<balance, redis, credited, paid, plan, g, reply, tally>>

(* The key a recipient is flagged under (the prefix is left out), and a    *)
(* slip: the recipient itself printed into the key, not its address.       *)
ReconcileKeyOfPayment(p) == p
reconcilePendingKey(p) == p.address

(* Slip: only the first recipient of the group is flagged.                 *)
FlagFirstRecipient ==
    /\ pc = "flag"
    /\ flags' = flags \cup {reconcilePendingKey(Payments[i])}
    /\ GroupFailed
    /\ UNCHANGED <<balance, bypass, halt, credited, wallet>>

(* One turn of the loop of flagForReconciliation, which goes on after a    *)
(* SET that failed; then the group has failed.                             *)
FlagRecipient ==
    /\ pc = "flag"
    /\ \/ flags' = flags \cup {reconcilePendingKey(Payments[i])}
       \/ "redisWrite" \in Faults /\ flags' = flags
    /\ IF i < Len(Payments)
       THEN i' = i + 1 /\ UNCHANGED <<pc, plan, g, reply, tally>>
       ELSE GroupFailed
    /\ UNCHANGED <<balance, bypass, halt, credited, wallet>>
-----------------------------------------------------------------------------
(* atomicBalanceUpdates: one turn per result, in order.                    *)

(* correlateTransferResults: results and payments must be as many.         *)
Correlated == Len(reply) = Len(Payments)

RejectReply ==
    /\ pc = "apply" /\ ~Correlated
    /\ GroupFailed
    /\ UNCHANGED outside

(* Slip: the last result of a batch is left out.                           *)
NextResultShort ==
    IF i + 1 < Len(reply)
    THEN pc' = "apply" /\ i' = i + 1 /\ UNCHANGED <<plan, g, reply>>
    ELSE NextGroup

NextResult ==
    IF i < Len(reply)
    THEN pc' = "apply" /\ i' = i + 1 /\ UNCHANGED <<plan, g, reply>>
    ELSE NextGroup

(* Slips: a refused payment is debited as well; it is counted without the  *)
(* fee.                                                                    *)
DebitFailure ==
    /\ pc = "apply" /\ Correlated /\ ~reply[i]
    /\ LET a == Payments[i].address
       IN  /\ failedAmount' = failedAmount + cache[a]
           /\ balance' = [balance EXCEPT ![a] = @ - cache[a]]
    /\ NextResult
    /\ UNCHANGED <<redis, credited, wallet, successAmount, unsettled>>

RecordFailureNet ==
    /\ pc = "apply" /\ Correlated /\ ~reply[i]
    /\ failedAmount' = failedAmount + Payments[i].amount
    /\ NextResult
    /\ UNCHANGED <<outside, successAmount, unsettled>>

(* The wallet refused the payment: counted, and a row in `transactions`    *)
(* that is inserted or not; the balance stays.                             *)
RecordFailure ==
    /\ pc = "apply" /\ Correlated /\ ~reply[i]
    /\ failedAmount' = failedAmount + cache[Payments[i].address]
    /\ NextResult
    /\ UNCHANGED <<outside, successAmount, unsettled>>

(* Slip: the fee is taken off the balance once more.                       *)
CommitWithFee ==
    /\ pc = "apply" /\ Correlated /\ reply[i]
    /\ LET a == Payments[i].address
       IN  /\ successAmount' = successAmount + cache[a]
           /\ balance' = [balance EXCEPT ![a] = @ - cache[a] - Fee]
    /\ pc' = "unbypass"
    /\ UNCHANGED <<redis, credited, wallet, plan, g, i, reply, failedAmount, unsettled>>

(* It paid: the row in `transactions` and DecreaseBalance are committed    *)
(* together.                                                               *)
CommitPayout ==
    /\ pc = "apply" /\ Correlated /\ reply[i]
    /\ LET a == Payments[i].address
       IN  /\ successAmount' = successAmount + cache[a]
           /\ balance' = [balance EXCEPT ![a] = @ - cache[a]]
    /\ pc' = "unbypass"
    /\ UNCHANGED <<redis, credited, wallet, plan, g, i, reply, failedAmount, unsettled>>

(* It paid, but the transaction failed and was rolled back.  The amount    *)
(* has been counted by then.  An error of Commit itself is ignored: the    *)
(* code goes on to the bypass key as if the payout had been booked.        *)
LosePayout ==
    /\ "db" \in Faults
    /\ pc = "apply" /\ Correlated /\ reply[i]
    /\ successAmount' = successAmount + cache[Payments[i].address]
    /\ \/ NextResult
       \/ pc' = "unbypass" /\ UNCHANGED <<plan, g, i, reply>>
    /\ UNCHANGED <<outside, failedAmount, unsettled>>

(* DEL of the bypass key, its error ignored.                               *)
ClearBypass ==
    /\ pc = "unbypass"
    /\ \/ bypass' = bypass \ {Payments[i].address}
       \/ "redisWrite" \in Faults /\ bypass' = bypass
    /\ NextResult
    /\ UNCHANGED <<balance, flags, halt, credited, wallet, tally>>

(* sql.UpdateBatchAmounts, and the scan for transaction details, neither   *)
(* of which touches the state kept here: the run is over.                  *)
UpdateBatchAmounts ==
    /\ pc = "finish"
    /\ EndRun
    /\ UNCHANGED outside

(* The process dies, and its supervisor starts it again.                   *)
Crash ==
    /\ "crash" \in Faults
    /\ pc /= "idle"
    /\ EndRun
    /\ UNCHANGED outside
-----------------------------------------------------------------------------
World ==
    \/ \E a \in Addr : \/ Credit(a) \/ WalletResolves(a)
                       \/ Reconcile(a) \/ ClearReconcileFlag(a) \/ GrantBypass(a)
    \/ SetTxnHalt \/ UnsetTxnHalt

(* The steps of a run that has started.                                    *)
Run ==
    \/ CollectPayments \/ CreateNewBatch
    \/ HaltedBetweenGroups \/ StartGroup
    \/ \E accepted \in SUBSET Addr : SendAnswered(accepted)
    \/ SendRefused \/ SendAmbiguous \/ FlagRecipient
    \/ RejectReply \/ RecordFailure \/ CommitPayout \/ LosePayout \/ ClearBypass
    \/ UpdateBatchAmounts

Next == World \/ performPayouts \/ Run \/ Crash

Spec == Init /\ [][Next]_vars

(* The scheduler runs a run that has started, cron starts one again and    *)
(* again, and a wallet that keeps being asked to pay an address does not   *)
(* refuse it for ever; the first two are the code's, the third is what a   *)
(* payout depends on.                                                      *)
WalletPays(a) == \E accepted \in SUBSET Addr : a \in accepted /\ SendAnswered(accepted)
Fairness ==
    /\ WF_vars(Run)
    /\ WF_vars(performPayouts)
    /\ \A a \in Addr : SF_vars(WalletPays(a))
FairSpec == Spec /\ Fairness
-----------------------------------------------------------------------------
(* No amount is taken off a balance that the wallet has not broadcast: the *)
(* index correlation of results to payments, the cached amounts and every  *)
(* early exit of atomicBalanceUpdates have to agree for it.                *)
NoUnpaidDebit == \A a \in Addr : credited[a] - balance[a] <= paid[a]

(* A balance never goes below zero: the amount a run debits was read long  *)
(* before, and credits, crashes, lost debits and earlier runs come between.*)
NoOverdraft == \A a \in Addr : balance[a] >= 0

(* With no fault, neither an ambiguous answer nor its late resolution nor  *)
(* the operator's repair lets an address be sent more than it was          *)
(* credited, not even if all that is still open is broadcast.              *)
NoDoublePay == \A a \in Addr : paid[a] + limbo[a] <= credited[a]

(* "Not eligible for payout again until a human clears the flag": no group *)
(* with a flagged recipient is ever about to be sent, whatever happened    *)
(* between the row's check and this moment.                                *)
FlaggedNeverSent == pc = "send" => Recipients(g) \cap flags = {}

(* A bypassed balance below the fee makes Balance - 5000 wrap around.  The *)
(* payment the wallet can only refuse is then alone in its group, and      *)
(* takes no other payment of a single transaction down with it.            *)
UnderflowIsAlone ==
    \A k \in DOMAIN groups : \A a \in Recipients(k) :
        cache[a] < Fee => Recipients(k) = {a}

(* A row that is not valid, or whose address the parser rejects, is left   *)
(* alone: neither sent, nor debited, nor flagged along with the others.    *)
ExcludedUntouched ==
    \A a \in Addr \ (Valid \cap WellFormed) :
        paid[a] = 0 /\ limbo[a] = 0 /\ balance[a] = credited[a] /\ a \notin flags

(* The totals written to `payment_batch` account for every payment of the  *)
(* run: each is a success, a failure, or in a group that went unanswered.  *)
(* Amounts are those of the balances, before the fee is taken off.         *)
GroupAmount == [k \in DOMAIN groups |-> SumFunctionOnSet(cache, Recipients(k))]
TallyComplete ==
    pc = "finish" =>
        SumFunctionOnSet(GroupAmount, DOMAIN groups)
            = successAmount + failedAmount + SumFunctionOnSet(GroupAmount, unsettled)

(* A run that has started comes to its end.                                *)
RunTerminates == pc /= "idle" ~> pc = "idle"

(* A halt key that stays stops the payouts for good.                       *)
HaltQuiesces == <>[]halt => <>[](pc = "idle")

(* What the wallet has broadcast is booked, or is in a human's hands.      *)
PaidIsBooked == \A a \in Addr : Unbooked(a) > 0 ~> (Unbooked(a) = 0 \/ a \in flags)

(* A balance that reaches its minimum is paid, or waits for a human who    *)
(* holds its flag or the halt key: no address is passed over for ever.     *)
EventuallySettled ==
    \A a \in Valid : []<>(balance[a] < Minimum[a] \/ a \in flags \/ halt)
-----------------------------------------------------------------------------
(* What makes the safety properties inductive.  First the shape of a run:  *)
(* the groups are what splitPayments may return for the cached balances,   *)
(* and the two indices point into them.                                    *)
GroupsFit ==
    /\ \A k \in DOMAIN groups :
          /\ groups[k].payments /= <<>>
          /\ \A j \in DOMAIN groups[k].payments :
                /\ Recipient(k, j) \in Valid \cap WellFormed
                /\ groups[k].payments[j].amount = Sub64(cache[Recipient(k, j)], Fee)
                /\ groups[k].payments[j].amount >= Word - Fee => Len(groups[k].payments) = 1
    /\ \A k, l \in DOMAIN groups :
          \A j \in DOMAIN groups[k].payments, m \in DOMAIN groups[l].payments :
             Recipient(k, j) = Recipient(l, m) => k = l /\ j = m

IndicesFit ==
    /\ pc \in {"idle", "collect"} => groups = <<>>
    /\ pc \in {"idle", "collect", "batch", "group", "send"} => i = 1
    /\ pc \in {"idle", "collect", "batch"} => g = 1
    /\ pc = "batch" => groups /= <<>>
    /\ pc \in {"group", "send", "apply", "unbypass", "flag"} => g \in DOMAIN groups
    /\ pc = "flag" => i \in DOMAIN groups[g].payments
    /\ pc = "unbypass" => Correlated
    /\ pc \in {"apply", "unbypass"} /\ Correlated => i \in DOMAIN groups[g].payments

ShapeInv ==
    /\ TypeOK
    /\ GroupsFit
    /\ IndicesFit
    /\ \A a \in Addr : balance[a] <= credited[a]

(* An address whose payment the run has still to hand to the wallet; one   *)
(* the wallet has paid and whose result is still to be booked; one that is *)
(* still to be flagged.                                                    *)
Unsent(a) ==
    \E k \in DOMAIN groups :
        /\ a \in Recipients(k)
        /\ k > g \/ (k = g /\ pc \in {"batch", "group", "send"})
ToBook(a) ==
    /\ pc \in {"apply", "unbypass"} /\ Correlated
    /\ \E j \in DOMAIN Payments :
          /\ j > i \/ (j = i /\ pc = "apply")
          /\ reply[j] /\ Recipient(g, j) = a
ToFlag(a) ==
    /\ pc = "flag"
    /\ \E j \in DOMAIN Payments : j >= i /\ Recipient(g, j) = a

(* As long as a run still has to act on its cached balance of an address,  *)
(* that balance is there and the address carries no flag, so that nobody   *)
(* else touches it; and whatever is off a balance, or about to be, has     *)
(* been broadcast.                                                         *)
CacheCovered ==
    /\ pc = "collect" => \A a \in rows : cache[a] <= balance[a]
    /\ \A a \in Addr : Unsent(a) \/ ToBook(a) => a \notin flags /\ cache[a] <= balance[a]
PaidCovered ==
    \A a \in Addr :
        credited[a] - balance[a] + (IF ToBook(a) THEN cache[a] ELSE 0) <= paid[a]

SafeInv == ShapeInv /\ NoOverdraft /\ CacheCovered /\ PaidCovered

(* Of an address nothing went wrong with, the two sides agree exactly,     *)
(* except for what is about to be booked and for what a flag, or a flag    *)
(* about to be set, protects.                                              *)
AgreesOn(a) ==
    IF ToBook(a) THEN Unbooked(a) = cache[a] /\ limbo[a] = 0
    ELSE IF a \in flags \/ ToFlag(a)
         THEN Unbooked(a) >= 0 /\ Unbooked(a) + limbo[a] <= balance[a]
         ELSE Unbooked(a) = 0 /\ limbo[a] = 0

(* With no fault that is so of every address.                              *)
Agreement == \A a \in Addr : AgreesOn(a)

HonestInv ==
    /\ SafeInv
    /\ pc = "apply" => Correlated
    /\ Agreement
-----------------------------------------------------------------------------
(* Whom a fault strikes: a crash those about to be booked or flagged; a    *)
(* transaction or a Commit that fails the one it is for; an answer of the  *)
(* wrong length its group; a SET that fails the recipient it is for; a     *)
(* hasty operator the address whose flag he clears.                        *)
Struck(a) ==
    \/ Crash /\ (ToBook(a) \/ ToFlag(a))
    \/ LosePayout /\ a = Payments[i].address
    \/ pc = "send" /\ pc' = "apply" /\ ~Correlated' /\ a \in Recipients(g)
    \/ FlagRecipient /\ a = Payments[i].address /\ a \notin flags'
    \/ ClearReconcileFlag(a)

(* A fault costs the addresses it strikes and nobody else, neither the     *)
(* rest of a group nor the groups and runs after it: as long as the wallet *)
(* and the row of an address agree, so that it cannot be sent more than it *)
(* was credited, only a step that strikes it itself takes that away.       *)
DamageContained ==
    [][\A a \in Addr : AgreesOn(a) /\ ~Struck(a) => AgreesOn(a)']_vars
=============================================================================
