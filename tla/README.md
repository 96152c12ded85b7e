# go-tari-tools in TLA+

A model of go-tari-tools, the programs a Tari mining pool runs beside its node
and its wallet. The programs are small and share no code to speak of. One of
them moves money: `cmd/payoutDaemon`. It is the centre of this project.

Contents: 1 inventory, 2 modules and code, 3 runs, 4 fairness, 5 abstractions,
6 findings, 7 proofs, 8 what is not modelled, 9 plan.

## 1. Inventory

| part | state it keeps | operations | what is hard | what makes it right |
|---|---|---|---|---|
| payoutDaemon: routing (`split.go`) | none, pure | `splitPayments` and its helpers | boundaries of three thresholds and two batch limits | each payment in one group, in the order of the policy, within the limits |
| payoutDaemon: run (`main.go`, `correlate.go`, `reconcile.go`, `sql/`) | Postgres `balances`, `transactions`, `payment_batch`, `transaction_details`; Redis keys `payout_reconcile_pending_*`, `bal_bypass_*`, `payout-daemon-halt-batching`; locals of a run | cron's hourly run; the operator's flags `-set-txn-halt`, `-unset-txn-halt`, `-clear-reconcile-flag` | four stores (database, Redis, wallet, memory) with no transaction across them; a send whose outcome is unknown; crashes and failures between the steps | nobody is paid twice, nothing is debited that was not paid, a flagged address waits for a human |
| payoutDaemon: key passes (`reconcile.go`) | the reconcile keys | `-list-reconcile-pending`, `-clear-all-reconcile-pending` | SCAN while keys come and go, failures in the middle | no flag passed over; no false all clear |
| payment records (`sql/transactions.go`, `sql/transaction_details.go`) | the three other tables | upsert, insert, update | one transaction id for all recipients of a batch; results without an id | a row under a wallet's id is of a payment in that transaction, and of no other |
| walletTxRejectedReset | `balances`, `transactions`; reads the wallet's SQLite file | credit rejected payments back | read-then-update outside a transaction, reruns, failures in the middle | nothing is credited twice; a pass that ends has credited what is on its list, failures excepted |
| walletTxDataBackfill, walletTxDataBlockBackfill | `transaction_details` | fill in details and heights | what the wallet said is old when it is written; three writers | what is stored stays; a pass that ends has filled in what is on its list, failures excepted |
| statsExporter | four caches, two `running` variables | two cron jobs a second, `/v1/networkStats` | jobs that overrun, nil caches, partial failures | answers only get newer, and catch up |
| nodeAutoRebooter, walletAutoRebooter | none | poll heights, compare, restart a unit | uint64 subtraction; nodes that do not answer; heights that grow meanwhile | restart what is behind, and nothing else |
| blockWinners | none | page through blocks | answers cut anywhere, classification | each winner named, none counted again but at the start of a request |
| smartUTXOGenerator | none (the wallet's) | split coins hourly | half-failed splits | |
| seven one-shot tools | none | a call and a line of output | | |

How they interact: the pool (not in this repository) credits `balances`; a
payout run reads them, sends groups of payments to the wallet over gRPC, and
debits what the wallet says it sent. A call with an unknown outcome leaves a
reconcile key for each recipient; a human looks at the wallet, corrects the
balance and clears the key. The other programs meet the daemon only in the
database and the wallet. `PROJECT.json` lists every component with its sources,
and every hazard at its line.

## 2. Modules and code

| module | what it is |
|---|---|
| `PayoutGroups` | what routing and run have in common: payments, groups, and what a run relies on the groups for (`GoodSplit`) |
| `PayoutSplit` | `split.go` as operators of the same names |
| `MCPayoutSplit` | one call of `splitPayments` on every small list; the properties of the policy |
| `PayoutRun` | `performPayouts` and everything around it |
| `MCPayoutRun` | instances of `PayoutRun` with the `splitPayments` of `PayoutSplit` |
| `PayoutBooks` | what a payout run promises, per address: credited, paid, in doubt, due, on hold |
| `PayoutRefines` | how the state of `PayoutRun` stands for `PayoutBooks` |
| `PayoutJobs` | `MCPayoutRun` with cron firing while a run is under way: two goroutines and `running` |
| `TxLedger`, `MCTxLedger` | the rows of `transactions` and `transaction_details` and the four programs that write them |
| `ReconcileKeys` | the two SCAN passes, checked as it is |
| `StatsExporter` | `cmd/statsExporter`, checked as it is |
| `Rebooters` | `cmd/nodeAutoRebooter` and `cmd/walletAutoRebooter` |
| `BlockWinners` | `cmd/blockWinners` |
| `MCNodeTools` | instances of the last two; they share nothing and run one or the other |
| `SumTheorems` | lemmas on finite sets and on sums over them, with the inductions they need |
| `PayoutSplitProofs` | the policy's properties, for lists of any length |
| `PayoutRunProofs` | the proofs about `PayoutRun`, up to the refinement of `PayoutBooks` |
| `PayoutBooksProofs` | what the books promise by themselves |
| `TxLedgerProofs`, `ReconcileKeysProofs`, `StatsExporterProofs`, `NodeToolsProofs` | the proofs about those modules |

**PayoutRun.** `balance`, `flags`, `bypass`, `halt` are the stores that outlive
a run. `paid` and `limbo` are the wallet: what it has broadcast for an address
(with the fee), and what it may still broadcast for a call that was cut off.
`credited` is the pool's side. The rest are the locals of one run, and `pc`
names the step that comes next:

    idle -> collect -> batch -> group -> send -> apply -> unbypass -> ... -> finish -> idle
                                  ^        \-> flag (ambiguous)               |
                                  \-------------- next group -----------------/

| action | code |
|---|---|
| `performPayouts` | halt check and `GetAllBalances` (main.go:106-134) |
| `CollectPayments` | the loop over the rows with its EXISTS calls, and `splitPayments` (136-238) |
| `CreateNewBatch` | 242-247 |
| `HaltedBetweenGroups`, `StartGroup` | the halt check before each group (256-263) |
| `SendAnswered`, `SendRefused`, `SendAmbiguous` | `sendGroupPayments` (reconcile.go:78-112) with the three kinds of answer |
| `FlagRecipient` | one turn of `flagForReconciliation` (reconcile.go:48-60) |
| `RejectReply` | `correlateTransferResults` finding a wrong length |
| `RecordFailure`, `CommitPayout`, `LosePayout` | one turn of `atomicBalanceUpdates` (main.go:56-99): refused, booked, lost to a database error |
| `ClearBypass` | the DEL after the commit (100-101) |
| `UpdateBatchAmounts` | the end of the run |
| `Crash` | the process dies between any two steps and is started again |
| `Credit`, `WalletResolves`, `Reconcile`, `GrantBypass`, `SetTxnHalt`, `UnsetTxnHalt`, `ClearReconcileFlag` | everybody else, at any moment |

`Faults` says which faults an instance admits; `FaultKinds` explains each. A
module's "slips" are wrong variants of a definition, of the kind a change to the
code could bring; nothing uses them, and each property of a run is violated when
one takes the place of the real definition (`mutants` in `PROJECT.json`).

**PayoutBooks.** The abstract specification has five actions: an address is
credited; addresses are paid at most what they are owed; touch is lost with a
send, which puts its addresses on hold; what was in doubt is resolved; the books
are settled and the hold ends. An address on hold is neither paid nor put in
doubt. The refinement mapping (`PayoutRefines`): `doubt` is `limbo`; `due` is the
balance less what the wallet has sent and the run is about to book (a run sends
first and debits later, the books know only one step); `held` is a flag, or one
that `flagForReconciliation` has yet to set.

| step of `PayoutRun` | step of `PayoutBooks` |
|---|---|
| `Credit` | `Credit` |
| `SendAnswered` | `Pay` of those accepted |
| `SendAmbiguous` | `LoseTouch` with the group |
| `WalletResolves` | `Resolve` |
| `Reconcile` | `Settle` |
| every other, the debit included | none |

**PayoutJobs.** The locals of `PayoutRun` are the goroutine that is scheduled;
`other` parks those of a second one, and `Switch` swaps the two. `Fire` is a
firing that passes the check of `running` (main.go:107-110), `Work` a step of the
run, whose deferred reset comes wherever it ends.

**TxLedger.** `wallet` says what has become of an id, `sent` what was paid under
it. The daemon is reduced to what it books: `Send` makes a list of results, `Book`
is one turn of `atomicBalanceUpdates` with its upsert, `Ask`, `Skip` and `Store`
one turn of the scan for details. What happens before and when a booking fails is
in `PayoutRun`.

| action | code |
|---|---|
| `StartReset` | `walletTxRejectedReset`: the list of status 7, all of it or what came before an error of the query (main.go:35-48) |
| `Look`, `LookFails` | the SELECT of one row, or its failure (48-74) |
| `CreditBack`, `CreditFails`, `CreditLost` | the transaction, a failure of it that is logged, and a failure of its Commit, which is not (75-99) |
| `EndReset`, `ResetDies` | the end, the process dying |
| `Fetch`, `List`, `Put`, `PutFails`, `EndFill`, `FillDies` | a backfill: the wallet's list, the ids to be done (cut short by an error or not), one row, its failure, the end, a fatal error or the process dying |
| `Credit`, `Outcome` | the pool; a transaction is mined or rejected |

`due` and `dropped` are history. `due` is what a pass is there for, as far as its list
goes; it shrinks when a failure is logged, or when the daemon writes the row again.
`dropped` are the rows a reset pass took for credited although their Commit had failed.

**Rebooters.** `Begin`, `Poll`/`NoAnswer` of each node, `Compare` with the local
height, `Connectivity` (the wallet's only), `Verdict`. Heights grow at any moment.
**BlockWinners.** `GetTip` fixes the range, each `Page` is one turn of the loop with
an answer cut off anywhere, and what its blocks append to the results.

**ReconcileKeys.** A pass is off, calling SCAN, working through the keys of a
page, at its summary, or aborted. `steady` is what SCAN's guarantee is about:
flags that have been up since the pass began.

**StatsExporter.** `made` are the caches whose struct exists, `held` the
responses in them (as the height they were given at), `tasks` the goroutines
alive, `request` the route's handler between two getters.

## 3. Runs

| run | bounds | shows |
|---|---|---|
| `payout_split` | lists of 0-4 payments, amounts 0-7 around thresholds 2, 3, 5 and cap 5, batch size 0-3, no malformed address or one in second place | `NothingLost`, `SentInPolicyOrder`, `WithinLimits`, `ClosedOnlyWhenFull` |
| `payout_honest` | 3 addresses, 2 credits of 2 each, minimum 3, fee 1, batch size 2, no fault | `TypeOK`, `HonestInv`, `NoDoublePay`, `UnderflowIsAlone`; that the run implements `PayoutBooks` (`BooksKept`) |
| `payout_faults` | 2 addresses, faults crash, db, redisWrite, reply, hasty together | `SafeInv`, `NoUnpaidDebit`, `NoOverdraft`, `FlaggedNeverSent`, `TallyComplete`; `DamageContained`: only a step that strikes an address itself takes away that its row and the wallet agree |
| `payout_liveness` | 2 addresses, minimum 2, no fault, fair | `RunTerminates`, `HaltQuiesces`, `PaidIsBooked`, `EventuallySettled` |
| `payout_jobs` | 4 addresses, one malformed, one invalid; 2 goroutines | `NoDoublePay` although runs overlap; `ExcludedUntouched` |
| `reconcile_keys` | 3 addresses | `NoneSkipped`, `PassEnds` |
| `stats_exporter` | heights 1-2, 2 goroutines | `AnswerHasReward`, `ReadyForGood`, `NeverOlder`, `StatsCatchUp` |
| `tx_ledger` | 2 addresses, each credited 1 in all, 2 transaction ids, one reset pass and one backfill of each kind at a time | `NoWindfall`, `RowsOfPayments`, `PassCredits`, `FillComplete`, `HeightsStay` |
| `node_tools` | 2 public nodes, heights 0, 1, 6, 7, 11, 12 (on both sides of each margin); chains of 1-4 blocks of 5 kinds, depth 0-5, answers cut 3 times | `RestartJustified`, `LeftAloneWhenClose`, `EveryWinnerNamed`, `AgainOnlyAtStart` |
| `payout_blind_redis`, `reconcile_new_flag` | 2 addresses | findings of section 6 |
| `node_reboot_doc` | 2 public nodes, heights 100 and 106 | a finding of section 6 |

Why the bounds are enough. Two addresses make a group of two, hence every
position of a partial answer, a partly flagged group and a lost debit in the
middle; three make two groups, hence a run that goes on after a failed group and
a halt between groups. A credit of 2 against a minimum of 3 gives balances below
and above the minimum, so that a bypass matters; the fee of 1 against a balance
of 0 gives the wrap-around of `Balance - 5000`. Credits go on during runs, so a
cached balance does get stale. The word has 16 values and the wallet can fund 8:
a wrapped amount is beyond the wallet, as 2^64 - 5000 is.

In `tx_ledger` a balance can be paid, rejected, credited back and paid again with a
credit of 1; two ids are enough for a payment that is rejected, credited back
and made again (two passes of the reset), for two payments in transactions of
their own or in a single one, and for a refusal beside a payment. With 3 ids and
without the backfills the first four properties hold as well. With two passes of
the reset at once (`Passes = {1, 2}`) a balance is credited twice for one
rejection: nothing in the program or the database prevents it, so it is on the
operator to start it once. In `node_tools` a depth beyond the height of the tip
wraps, as does a best height below the margin; the word has 32 and 64 values.

In `payout_jobs`, with `running` ignored (which is what two processes do),
`NoDoublePay`, `NoOverdraft`, `NoUnpaidDebit` and `FlaggedNeverSent` all fail.

The names of the bounds: `MaxCredit` and `Credits` (what the pool credits an
address in all, and in one step), `WalletFunds`, `Word`, `MaxAmount`,
`MaxPayments`, `MaxBatch`, `MaxHeight`, `MaxTasks`, `LastId`, `Heights`,
`TopHeight`, `Depths`, `Modulus` and `Width` (for 2^64), `MaxPages` (an answer after
that many is complete).

What each fault alone takes away (2 addresses; x: violated):

| | crash | db | redisRead | redisWrite | reply | hasty | midRead |
|---|---|---|---|---|---|---|---|
| `NoDoublePay` | x | x | x | x | x | x | x |
| `NoOverdraft` | | | x | | | | x |
| `NoUnpaidDebit` | | | x | | | | |
| `FlaggedNeverSent` | | | x | | | | |

So paying twice is avoided only as long as nothing else goes wrong between the
wallet's broadcast and the booking: no single fault of those kinds is covered.
That is what the code can offer without an entry written before the send, and no
document promises more. But a payment is repeated only to the addresses a fault
strikes (`DamageContained`): a lost transaction the one it is for and not the
rest of its group, a failed SET not the other recipients, a crash nobody who has been
booked or flagged by then or is outside the group, a reply of the wrong length its
group, a flag cleared blindly its address. Any other address agrees with the wallet
(`AgreesOn`), so that it cannot be sent more than it was credited.

What survives every fault, except failing reads of Redis and a flag settled in the middle of a read, is that the daemon's own
bookkeeping stays sound: nothing is debited that was not broadcast, no balance
goes below zero, and no flagged address is sent to.

## 4. Fairness

`PayoutRun`: weak fairness of the steps of a run (the goroutine is scheduled; a
call to the wallet ends by its timeout, a call to a store by its own), weak
fairness of starting a run (cron), and for each address strong fairness of the
wallet accepting a payment to it, when asked again and again. The last one is an
assumption about the wallet; only `EventuallySettled` depends on it. Nothing is
assumed of the operator or the pool: a flag may stay for ever, and the property
says so. `SendRefused` is not fair, nor are ambiguous answers.

`ReconcileKeys`: the loop runs, and Redis brings an iteration to cursor 0 when
asked often enough. `StatsExporter`: cron fires, goroutines run, the client asks
again, and the node does not fail the same call for ever. The other modules state
safety only: when the operator runs a tool again is nobody's promise, and a node
that returns one block per request keeps `blockWinners` going for ever.

## 5. Abstractions

- In `PayoutRun` runs come one after the other; `PayoutJobs` has them overlap, up
  to what `running` allows. Reading `running` and setting it is one step there: the
  statements are adjacent, and cron fires an hour apart. Two processes are kept
  apart by nothing, and are not claimed to be.
- `CollectPayments` makes all EXISTS calls of the loop in one step. What others do
  to one row's keys commutes with the reads of another row, so each result of the
  loop is one of a single moment, except for a flag set and cleared around it;
  that exception is `midRead` and is named in `FaultKinds`. The bypass and halt
  keys matter at their own reads only.
- The order of the rows is any (sort order 0 asks for none; 1 and 2 are among
  them). Early returns that change nothing, a dry run included, are no steps.
- The wallet accepts or refuses each payment of a call separately, although a
  single transaction is all or nothing: more behaviours than there are. After an
  ambiguous call any recipient the wallet can fund may have been paid.
- `WalletFunds` is per address. It only says that a wrapped amount is beyond what
  the wallet has.
- The fee the wallet charges is what the daemon took off, so that `paid` compares
  with `credited`.
- In `PayoutRun` the rows of `transactions` and the detail scan are left out (a
  failure of writing a row is the fault `db`); they are in `TxLedger`, where in
  turn a run has one list of results and every booking succeeds, so that `NoWindfall`
  is about bookings that do. (One that fails after the wallet has paid leaves the
  balance as it was, and the next run pays it again: `NoDoublePay` and `db` in the
  table of section 3.)
- In `TxLedger` ids are handed out lowest first, and the random id of a refusal is
  one nobody has used. A transaction is mined or rejected once and for all. Of a
  detail only the height is kept, as 0 or not. Each backfill and the reset run once
  at a time, but any number of times. None of them asks `rows.Err`: their lists are
  any part of what the query would have returned, and what `PassCredits` and
  `FillComplete` say is about the list. `walletTxDataBackfill` makes its list of
  ids and their SELECTs in one step.
- In `Rebooters` the nodes are asked in any order. A restart changes no height.
- In `BlockWinners` the chain has no reorganisation; the node answers with any
  first part of the blocks that were asked for. The four branches on the algorithm
  differ in a prefix only, and what is cut out of an extra is a pool's name, or a
  panic (a "WUF" extra shorter than 12 bytes), which loses the report.
- `Reconcile` is the operator doing what the comments ask: look at the wallet
  once it is conclusive, take off the row what was broadcast and not booked,
  clear the flag. `hasty` clears without looking.
- An address is trimmed for the check and sent untrimmed; addresses here have no
  blanks around them.
- In `StatsExporter`, reading and setting `running` is one step (the code assumes
  it: the two statements are adjacent and cron fires a second apart), and each
  getter is one step under the cache's mutex. One client asks.

## 6. Findings

Three places where a comment says something else than the code does; each is a
run that TLC ends with a counterexample, quoted in `PROJECT.json`.

1. `payout_blind_redis`: a failing EXISTS reads as "no flag" (main.go:149), and a
   flagged address is paid.
2. `node_reboot_doc`: when no public node answers, `bestHeight-5` wraps around and
   a healthy node is restarted (nodeAutoRebooter/main.go:37; the same with 10 in
   walletAutoRebooter).
3. `reconcile_new_flag`: `-clear-all-reconcile-pending` also deletes flags raised
   after it began (reconcile.go:203), which nobody can have verified.

Noted while modelling, without a run of their own: tiers go by the amount after
the fee, the comments of split.go by the balance (split.go:160); main.go's header
unsets the bypass key before the commit, the code after it (98-101); of the
recipients of a single transaction only the last keeps a row, so that the reset
credits a rejection to him alone (transactions.go:9); a block at which a request
of `blockWinners` begins counts once more (main.go:66); `rows.Err` is asked by neither the reset nor the
backfills, so that a list cut short by an error looks like a short list.

`walletTxRejectedReset` ignores the error of Commit (main.go:97) and then logs
"processed txn ID %d and incremented balance" (98), when neither happened. This is the
action `CreditLost`; `PassCredits` has to except the payments it happens to
(`dropped`), and without that TLC ends `tx_ledger` with a pass that has come to its end,
logged no failure, and left a rejected payment a success. Only another pass credits it.

## 7. Proofs

Every theorem holds for any values of its module's constants: any addresses,
amounts, minimums, thresholds, heights, word size, number of goroutines or passes.
The assumptions on them are named and evaluated by TLC in every run:
`ConstantsAssumption` and `SplitAssumption` (`PayoutRun`), `ThresholdAssumption`
(`PayoutSplit`; 5e7 < 1e8 < 1e9 <= 1e9 in the code, and a cap below the threshold
of tier 1 would let a lone payment of tier 4 exceed it), `ListAssumption`
(`MCPayoutSplit`: an address has one row), `LedgerAssumption` (`TxLedger`: the
addresses are finite in number, which a sum over them needs), `StatsAssumption`,
`RebooterAssumption`, `WinnersAssumption` (heights and depths are far below 2^64).

**Induction.** Nothing is proved by an induction scheme: the library's take an
operator as a parameter, which the provers cannot instantiate. `SumTheorems`
has the well-foundedness facts as plain lemmas instead (`MinimalSubset`: a family of
subsets of a finite set has a minimal member; `LeastNumber`), and every induction
here is by a smallest counterexample. Folds of the community modules are recursive
functions picked by CHOOSE; that the picked function solves its recursion is
itself shown that way (`SumTerminates`, `LoopTerminates`, `AmountEquation`), and
from it that a sum does not depend on the order in which it is taken (`SumRemove`).

**The policy** (`PayoutSplitProofs`), for lists of any length:

- `EveryPaymentOnce`, `PolicyOrder`, `LimitsKept`, `NoneClosedEarly`: what
  `payout_split` checks on short lists. The tiers partition the valid payments
  (`Routes`); sorting is a permutation, since the rank of an index is one-to-one
  (`Arranged`); the greedy loop keeps `LoopInv`: the batches flushed and the one being
  filled cut up the payments so far without gaps (`Cut`), and each flushed batch had
  no room for the payment after it.
- `SplitIsGood`: the groups are what a run relies on them for (`GoodSplit`: only
  valid payments of the input, none twice, none empty, a wrapped amount alone),
  if an amount that wraps around is above the threshold of tier 1 (1e9 against
  2^64 - 5000). So `SplitAssumption`, which the theorems about the run assume of any
  `SplitPayments`, is true of the real one, whatever the balances are.

**The run** (`PayoutRunProofs`):

- `Shape`, `TypeCorrect`, whatever faults happen: types; the groups are a split of the
  cached balances; the indices of the loops point into them (`GroupsFit`). Needed by
  everything else, since a step reads `groups[g].payments[i]`.
- `UnderflowsAreAlone`, `ExcludedLeftAlone`, whatever faults happen: from `Shape`.
- `TallyIsComplete`, whatever faults happen: the sums `successAmount` and
  `failedAmount` are what the groups up to the one in hand amount to, less those that
  went unanswered, plus the results counted so far (`TallyInv`).
- `Safe`, assuming `FlagsAreRead`: no failing reads of Redis and no flag settled
  between the SELECT and the EXISTS. Other faults may happen. `NoOverdraft` is not
  inductive: the debit is of an amount read long before. What keeps it is
  `CacheCovered`: as long as a run still has to act on a cached balance, the row has
  at least that much and the address carries no flag, so that no operator repairs
  the row meanwhile. `PaidCovered` adds that what is about to be booked has been
  broadcast. From `Safe` follow `UnpaidIsNeverDebited`, `BalancesStayPositive` and
  `FlagKeepsOut`. The table in section 3 shows that the assumption is needed.
- `FaultsAreContained`, assuming `FlagsAreRead`: `DamageContained`, that a step takes
  `AgreesOn(a)` away only if it strikes `a`. One lemma per action, about one address,
  under `SafeInv`; nothing is assumed of the other addresses. Who agrees cannot be sent
  more than he was credited (`NotOverpaid`).
- `Honest`, assuming `Faults = {}`: then no step strikes anybody (`NeverStruck`), hence
  `Agreement`, that wallet and row agree exactly, except for what is about to be booked and for what a flag, or a flag about to be
  set, protects. From it follows `NobodyIsPaidTwice`.
- `KeepsTheBooks`, assuming `Faults = {}`: the run implements `PayoutBooks`. Each step
  under `HonestInv` is a step of the books or leaves them alone; the two facts that
  take work are what the books owe before and after a step (`DueRight`: the debit of a
  booked payment does not change what is due), and that an address the flagging loop
  has yet to reach has no flag (`FlagOnce`: a group whose send is cut off was not on
  hold, and the operator cannot end a hold that is about to begin again).
- `BooksStayRight` (`PayoutBooksProofs`), of the books alone: paid and in doubt
  together never exceed what was credited, whoever is not on hold has books that are
  right.

**The ledger** (`TxLedgerProofs`):

- `RowsStayPayments`, `PassesComplete`, `FillsComplete`, `HeightsKept`, for any number of
  reset passes: from `LedgerInv`. Its parts are what each actor may rely on while the
  others move: the wallet (`WalletInv`), the results in hand, each of a payment the
  wallet took on (`ResultsInv`), the rows (`RowsInv`), what a reset pass still owes of
  what it is there for, or has dropped with a Commit that failed (`ResetInv`), and what a backfill still owes (`FillInv`).
- `NeverAWindfall`, `LedgerTypes`, assuming `OnePass`: reset passes do not overlap. (Two
  that do can credit one rejection twice, section 3. Bookings of the daemon succeed in
  `TxLedger`, section 5.) `NoWindfall` is about payments
  the wallet has not rejected, and rejecting one would change the sum at once. The
  invariant `OnceOnly` sums over the payments still open instead: not rejected, or yet
  to be booked, or a success in a row, or in a reset pass's hand. A payment is in
  at most one of the last three places (`Covered`), so that crediting it back closes it.

**The others:**

- `PassTypes`, `NoFalseAllClear` (`ReconcileKeysProofs`): what SCAN returned is on the
  page or in the report, and the cursor is 0 only when every steady flag was
  returned (`Covered`); a steady flag in a clearing pass's report is one whose DEL
  failed.
- `StatsTypes`, `AnswersHaveReward`, `NeverPanicsAgain`, `AnswersNeverOlder`
  (`StatsExporterProofs`), from `StatsInv`: `running` is a lock (`TaskInv`); what a job
  carries is at least as new as what it will overwrite (`Forward`), which is where the
  lock is needed; templates are made in order (`Filled`); the client has nothing newer
  than what the request has read, and that is no newer than the cache (`ReadInv`).
- `ToolTypes`, `RestartsAreJustified`, `NoLaggardLeftAlone` (`NodeToolsProofs`), of the
  rebooters: bestHeight is 0 or a height some node has by now, it covers what
  the nodes that answered had at the beginning, and what was decided is what the
  comparison said.
- `WinnersAreNamed`, `CountedOnceButAtStart` (`NodeToolsProofs`), of `blockWinners`:
  start moves through the range, or is above every block when it has wrapped
  around (`Paging`); blocks up to start are counted, those above it are not, and
  start itself is the only one an answer may count again (`Tallied`).

Every invariant a run checks is thus a theorem, except where `PayoutJobs` is
concerned. Only model-checked: liveness and `PassEnds` (the prover handles neither
fairness nor ENABLED), and `NoDoublePay` and `ExcludedUntouched` when runs overlap
(`payout_jobs`): they are proved of one run at a time.

## 8. Not modelled, and why

The one-shot tools are a call and a line of output. `smartUTXOGenerator` sends the
wallet split requests by what it counts in the wallet's file; what they do, and
when the file shows it, is not in this repository, so that a model would be of the
wallet. Logging, Sentry, command-line parsing, dry-run output, the root reward
that statsExporter fetches for each request, and how `blockWinners` names a pool
are left out.

## 9. Plan

Done: `PayoutSplit`; `PayoutRun` with its safety, faults and liveness; `ReconcileKeys`;
`StatsExporter`; `PayoutBooks` and the refinement; `PayoutJobs`; `TxLedger`;
`Rebooters`; `BlockWinners`; and the proofs of every one of them but `PayoutJobs`.

Left: `NoDoublePay` and `ExcludedUntouched` of `PayoutJobs`, by mapping the two
goroutines onto the one run of `PayoutRun`: while one of them is in a run, the other
is idle, so that its state is that of the one run and every step of it a step of
`PayoutRun`. The mapping is of the kind `PayoutRefines` is, and its proof belongs
into `PayoutRunProofs`' neighbourhood, where `HonestInv` is.
