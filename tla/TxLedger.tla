------------------------------ MODULE TxLedger ------------------------------
(***************************************************************************)
(* The rows of `transactions` and `transaction_details`, and the four      *)
(* programs that meet in them: payoutDaemon, which writes a row for each   *)
(* result of the wallet (upserted on the wallet's transaction id) and then *)
(* asks for the details; walletTxRejectedReset, which credits back what    *)
(* the wallet's own database calls rejected; walletTxDataBackfill and      *)
(* walletTxDataBlockBackfill, which fill in missing details and heights.   *)
(*                                                                         *)
(* A run of the daemon is reduced to what it books: the results of its     *)
(* groups, one list.  What comes before that is in PayoutRun.  As there, a *)
(* "slip" is a wrong variant of the definition after it.                   *)
(***************************************************************************)
EXTENDS Integers, Sequences, FiniteSets, Functions, FiniteSetsExt

CONSTANTS
    Addr,       \* the addresses, each with its row of `balances`
    LastId,     \* bound: transaction ids are 1..LastId
    MaxCredit,  \* bound: what the pool credits an address in all
    Passes      \* walletTxRejectedReset processes that may run at once

ASSUME LedgerAssumption ==
    LastId \in Nat \ {0} /\ MaxCredit \in Nat /\ IsFiniteSet(Addr)

Fillers == {"details", "heights"}   \* walletTxDataBackfill, ...BlockBackfill

Ids == 1..LastId
Unset == 0      \* the id of a result for which the wallet made no transaction

VARIABLES
    credited,      \* what the pool has credited to each address
    balance,       \* balances.balance
    wallet,        \* what has become of each id in the wallet
    sent,          \* the payments the wallet took on
    results, k,    \* the results the daemon has in hand, and the one it is at
    phase,         \* what it does with them: idle, book or scan
    asked,         \* in the scan: {h}, the height the wallet has just told
    transactions,  \* id -> row, for the ids that have one
    details,       \* id -> mined_at_height (0, or 1 for any height)
    reset,         \* the locals of each reset pass
    fill           \* the locals of the two backfills

daemon == <<results, k, phase, asked>>
money == <<credited, balance, wallet, sent>>
vars == <<money, daemon, transactions, details, reset, fill>>

Amounts == 1..MaxCredit
Row == [owner : Addr, amount : Amounts, success : BOOLEAN]
Result == [id : Ids \cup {Unset}, owner : Addr, amount : Amounts, success : BOOLEAN]
NoPass == [pc |-> "off", todo |-> {}, id |-> Unset, seen |-> {}, due |-> {},
           dropped |-> {}]
NoFill == [pc |-> "off", known |-> <<>>, todo |-> {}, due |-> {}]

TypeOK ==
    /\ credited \in [Addr -> 0..MaxCredit] /\ balance \in [Addr -> 0..MaxCredit]
    /\ wallet \in [Ids -> {"unused", "pending", "mined", "rejected"}]
    /\ sent \subseteq [id : Ids, owner : Addr, amount : Amounts]
    /\ results \in Seq(Result) /\ k \in 1..Len(results) + 1
    /\ phase \in {"idle", "book", "scan"} /\ asked \subseteq {0, 1}
    /\ DOMAIN transactions \subseteq Ids /\ \A n \in DOMAIN transactions : transactions[n] \in Row
    /\ DOMAIN details \subseteq Ids /\ \A n \in DOMAIN details : details[n] \in {0, 1}
    /\ \A p \in Passes :
          /\ reset[p].pc \in {"off", "next", "found"}
          /\ reset[p].todo \subseteq Ids /\ reset[p].due \subseteq Ids
          /\ reset[p].seen \subseteq Row /\ reset[p].id \in Ids \cup {Unset}
          /\ reset[p].dropped \subseteq Ids
    /\ \A t \in Fillers : /\ fill[t].pc \in {"off", "fetched", "listed"}
                          /\ fill[t].todo \subseteq Ids /\ fill[t].due \subseteq Ids

Init ==
    /\ credited = [a \in Addr |-> 0] /\ balance = [a \in Addr |-> 0]
    /\ wallet = [n \in Ids |-> "unused"] /\ sent = {}
    /\ results = <<>> /\ k = 1 /\ phase = "idle" /\ asked = {}
    /\ transactions = <<>> /\ details = <<>>
    /\ reset = [p \in Passes |-> NoPass] /\ fill = [t \in Fillers |-> NoFill]
-----------------------------------------------------------------------------
(* The pool, and the wallet after it has answered.                         *)

Credit(a) ==
    /\ credited[a] < MaxCredit
    /\ credited' = [credited EXCEPT ![a] = @ + 1]
    /\ balance' = [balance EXCEPT ![a] = @ + 1]
    /\ UNCHANGED <<wallet, sent, daemon, transactions, details, reset, fill>>

(* A transaction is mined, or rejected (status 7), and stays so.           *)
Outcome(n) ==
    /\ wallet[n] = "pending"
    /\ \E o \in {"mined", "rejected"} : wallet' = [wallet EXCEPT ![n] = o]
    /\ UNCHANGED <<credited, balance, sent, daemon, transactions, details, reset, fill>>
-----------------------------------------------------------------------------
(* payoutDaemon.                                                           *)

(* Ids nothing has been called by yet: the wallet's own, and the random    *)
(* ones the daemon makes up, never meet.                                   *)
Fresh == {n \in Ids : wallet[n] = "unused" /\ n \notin DOMAIN transactions}

(* The wallet answers for the addresses of order, in that order: those of  *)
(* accepted are in transactions of their own, or all in a single one       *)
(* (single_tx), and the others get no id.  The amount is the balance.      *)
Answered(order, accepted, id) ==
    [j \in DOMAIN order |->
        [id |-> IF order[j] \in accepted THEN id[order[j]] ELSE Unset,
         owner |-> order[j], amount |-> balance[order[j]], success |-> order[j] \in accepted]]

Send ==
    /\ phase = "idle"
    /\ \E S \in (SUBSET {a \in Addr : balance[a] > 0}) \ {{}} : \E accepted \in SUBSET S :
       \E order \in Bijection(1..Cardinality(S), S), id \in [accepted -> Fresh] :
          /\ IsInjective(id) \/ Cardinality(Range(id)) = 1
          /\ \A n \in Range(id), m \in Fresh \ Range(id) : n < m
          /\ Cardinality(S \ accepted) <= Cardinality(Fresh \ Range(id))
          /\ results' = Answered(order, accepted, id)
          /\ sent' = sent \cup {[id |-> id[a], owner |-> a, amount |-> balance[a]] : a \in accepted}
          /\ wallet' = [n \in Ids |-> IF n \in Range(id) THEN "pending" ELSE wallet[n]]
    /\ k' = 1 /\ phase' = "book"
    /\ UNCHANGED <<credited, balance, asked, transactions, details, reset, fill>>

NextResult(then) ==
    IF k < Len(results) THEN k' = k + 1 /\ UNCHANGED <<results, phase>>
    ELSE IF then = "idle" THEN k' = 1 /\ results' = <<>> /\ phase' = "idle"
    ELSE k' = 1 /\ phase' = then /\ UNCHANGED results

(* Slip: the results without an id are all stored under one.               *)
RowIdAsIs(n) == IF n = Unset THEN Min(Ids) ELSE n

(* The id a result is stored under: 0 is replaced by a random one.         *)
RowId(n) == IF n = Unset THEN Min(Fresh) ELSE n

(* CreateNewTransaction: insert, or on a conflict of ids overwrite.        *)
Upsert(n, row) ==
    transactions' = [m \in DOMAIN transactions \cup {n} |->
                        IF m = n THEN row ELSE transactions[m]]

(* One turn of atomicBalanceUpdates: the row, and for a success the debit, *)
(* in one transaction.  (due is what a reset pass promised of a row; the   *)
(* promise does not extend to a row written since.)                        *)
Book ==
    /\ phase = "book"
    /\ LET r == results[k]
           n == RowId(r.id)
       IN  /\ Upsert(n, [owner |-> r.owner, amount |-> r.amount, success |-> r.success])
           /\ balance' = IF r.success THEN [balance EXCEPT ![r.owner] = @ - r.amount] ELSE balance
           /\ reset' = [p \in Passes |-> [reset[p] EXCEPT !.due = @ \ {n}]]
    /\ NextResult("scan")
    /\ UNCHANGED <<credited, wallet, sent, asked, details, fill>>

Height(n) == IF wallet[n] = "mined" THEN 1 ELSE 0

(* Slip: an id that is there is overwritten.                               *)
InsertOver(n, h) ==
    details' = [m \in DOMAIN details \cup {n} |-> IF m = n THEN h ELSE details[m]]

(* CreateTransactionDetail: an insert, which fails if the id is there.     *)
Insert(n, h) ==
    details' = [m \in DOMAIN details \cup {n} |-> IF m \in DOMAIN details THEN details[m] ELSE h]

(* One turn of the detail scan: for a success the wallet is asked, and     *)
(* unless that fails or it reports status 11, the detail is inserted.      *)
Ask ==
    /\ phase = "scan" /\ asked = {} /\ results[k].success
    /\ asked' = {Height(results[k].id)}
    /\ UNCHANGED <<money, results, k, phase, transactions, details, reset, fill>>

Skip ==
    /\ phase = "scan" /\ asked = {}
    /\ NextResult("idle")
    /\ UNCHANGED <<money, asked, transactions, details, reset, fill>>

Store ==
    /\ phase = "scan"
    /\ \E h \in asked : Insert(results[k].id, h) \/ UNCHANGED details
    /\ asked' = {} /\ NextResult("idle")
    /\ UNCHANGED <<money, transactions, reset, fill>>
-----------------------------------------------------------------------------
(* walletTxRejectedReset.  (Of a pass, due and dropped are history: the    *)
(* successes on its list, failures it logged excepted, and the ids that it *)
(* took for credited when Commit had failed.)                              *)

Successful == {n \in DOMAIN transactions : transactions[n].success}
Rejected == {n \in Ids : wallet[n] = "rejected"}

(* The list of status 7.  It lacks those in cut after an error, which      *)
(* rows.Next takes for the end of the list (nobody asks rows.Err).         *)
StartReset(p) ==
    /\ reset[p].pc = "off"
    /\ \E cut \in SUBSET Rejected :
          reset' = [reset EXCEPT ![p] =
                       [NoPass EXCEPT !.pc = "next", !.todo = Rejected \ cut,
                                      !.due = (Rejected \ cut) \cap Successful]]
    /\ UNCHANGED <<money, daemon, transactions, details, fill>>

(* Slips: success is not looked at; the loop ends at a row that was        *)
(* processed before.                                                       *)
LookUnchecked(p, n) ==
    /\ reset[p].pc = "next" /\ n \in reset[p].todo /\ n \in DOMAIN transactions
    /\ reset' = [reset EXCEPT ![p].todo = @ \ {n}, ![p].pc = "found", ![p].id = n,
                              ![p].seen = {transactions[n]}]
    /\ UNCHANGED <<money, daemon, transactions, details, fill>>

LookToFirst(p, n) ==
    /\ reset[p].pc = "next" /\ n \in reset[p].todo
    /\ reset' = IF n \in Successful
                THEN [reset EXCEPT ![p].todo = @ \ {n}, ![p].pc = "found", ![p].id = n,
                                   ![p].seen = {transactions[n]}]
                ELSE [reset EXCEPT ![p].todo = {}]
    /\ UNCHANGED <<money, daemon, transactions, details, fill>>

(* The SELECT of the next id's row, outside any transaction: without a     *)
(* row, or with one that is no success, the loop continues.                *)
Look(p, n) ==
    /\ reset[p].pc = "next" /\ n \in reset[p].todo
    /\ reset' = IF n \in Successful
                THEN [reset EXCEPT ![p].todo = @ \ {n}, ![p].pc = "found", ![p].id = n,
                                   ![p].seen = {transactions[n]}]
                ELSE [reset EXCEPT ![p].todo = @ \ {n}]
    /\ UNCHANGED <<money, daemon, transactions, details, fill>>

(* The transaction: IncreaseBalance with what was seen, and success off.   *)
CreditBack(p) ==
    /\ reset[p].pc = "found"
    /\ \E row \in reset[p].seen : balance' = [balance EXCEPT ![row.owner] = @ + row.amount]
    /\ transactions' = [transactions EXCEPT ![reset[p].id].success = FALSE]
    /\ reset' = [reset EXCEPT ![p].pc = "next", ![p].seen = {}, ![p].id = Unset]
    /\ UNCHANGED <<credited, wallet, sent, daemon, details, fill>>

(* The id, or the SELECT of its row, does not scan: logged, and skipped.   *)
LookFails(p, n) ==
    /\ reset[p].pc = "next" /\ n \in reset[p].todo
    /\ reset' = [reset EXCEPT ![p].todo = @ \ {n}, ![p].due = @ \ {n}]
    /\ UNCHANGED <<money, daemon, transactions, details, fill>>

(* A statement of the transaction fails: logged, and the loop goes on.     *)
CreditFails(p) ==
    /\ reset[p].pc = "found"
    /\ reset' = [reset EXCEPT ![p].pc = "next", ![p].seen = {}, ![p].id = Unset,
                              ![p].due = @ \ {reset[p].id}]
    /\ UNCHANGED <<money, daemon, transactions, details, fill>>

(* Commit fails.  Its error is ignored: nothing is written, but the log    *)
(* says that the payment was processed and the balance incremented.        *)
CreditLost(p) ==
    /\ reset[p].pc = "found"
    /\ reset' = [reset EXCEPT ![p].pc = "next", ![p].seen = {}, ![p].id = Unset,
                              ![p].dropped = @ \cup {reset[p].id}]
    /\ UNCHANGED <<money, daemon, transactions, details, fill>>

EndReset(p) ==
    /\ reset[p].pc = "next" /\ reset[p].todo = {}
    /\ reset' = [reset EXCEPT ![p] = NoPass]
    /\ UNCHANGED <<money, daemon, transactions, details, fill>>

ResetDies(p) ==
    /\ reset[p].pc \in {"next", "found"}
    /\ reset' = [reset EXCEPT ![p] = NoPass]
    /\ UNCHANGED <<money, daemon, transactions, details, fill>>
-----------------------------------------------------------------------------
(* The two backfills: first the wallet's transactions, then the ids to be  *)
(* done, then these one by one, with what the wallet said at the start.    *)

Fetch(t) ==
    /\ fill[t].pc = "off"
    /\ fill' = [fill EXCEPT ![t] =
           [NoFill EXCEPT !.pc = "fetched",
                          !.known = [n \in {m \in Ids : wallet[m] /= "unused"} |-> Height(n)]]]
    /\ UNCHANGED <<money, daemon, transactions, details, reset>>

(* Slip: the pass for heights takes the rows that have one.                *)
WorkForMined(t) ==
    IF t = "details" THEN Successful \ DOMAIN details
                     ELSE {n \in DOMAIN details : details[n] /= 0}

(* walletTxDataBackfill: successes without a detail.  BlockBackfill: the   *)
(* details whose mined_at_height is 0.                                     *)
WorkFor(t) ==
    IF t = "details" THEN Successful \ DOMAIN details
                     ELSE {n \in DOMAIN details : details[n] = 0}

(* (due is what the pass is there for: all successes have a detail, all    *)
(* details a height, as far as the wallet's list goes, and the rows: cut   *)
(* are those after an error, which rows.Next takes for the end.)           *)
List(t) ==
    /\ fill[t].pc = "fetched"
    /\ LET rows == IF t = "details" THEN Successful ELSE DOMAIN details
       IN  \E cut \in SUBSET WorkFor(t) :
              fill' = [fill EXCEPT ![t].pc = "listed", ![t].todo = WorkFor(t) \ cut,
                                   ![t].due = (rows \cap DOMAIN fill[t].known) \ cut]
    /\ UNCHANGED <<money, daemon, transactions, details, reset>>

(* CreateTransactionDetail or UpdateMinedAtHeight for one id, if the       *)
(* wallet's list has it; a failure is logged.                              *)
Put(t, n) ==
    /\ fill[t].pc = "listed" /\ n \in fill[t].todo
    /\ fill' = [fill EXCEPT ![t].todo = @ \ {n}]
    /\ IF n \notin DOMAIN fill[t].known THEN UNCHANGED details
       ELSE IF t = "details" THEN Insert(n, fill[t].known[n])
       ELSE details' = [details EXCEPT ![n] = fill[t].known[n]]
    /\ UNCHANGED <<money, daemon, transactions, reset>>

PutFails(t, n) ==
    /\ fill[t].pc = "listed" /\ n \in fill[t].todo \cap DOMAIN fill[t].known
    /\ fill' = [fill EXCEPT ![t].todo = @ \ {n}, ![t].due = @ \ {n}]
    /\ UNCHANGED <<money, daemon, transactions, details, reset>>

EndFill(t) ==
    /\ fill[t].pc = "listed" /\ fill[t].todo = {}
    /\ fill' = [fill EXCEPT ![t] = NoFill]
    /\ UNCHANGED <<money, daemon, transactions, details, reset>>

(* The process dies, or a SELECT fails, which is fatal to it.              *)
FillDies(t) ==
    /\ fill[t].pc \in {"fetched", "listed"}
    /\ fill' = [fill EXCEPT ![t] = NoFill]
    /\ UNCHANGED <<money, daemon, transactions, details, reset>>
-----------------------------------------------------------------------------
Reset(p) ==
    \/ StartReset(p) \/ \E n \in Ids : Look(p, n) \/ LookFails(p, n)
    \/ CreditBack(p) \/ CreditFails(p) \/ CreditLost(p)
    \/ EndReset(p) \/ ResetDies(p)
Fill(t) ==
    \/ Fetch(t) \/ List(t) \/ EndFill(t) \/ FillDies(t)
    \/ \E n \in Ids : Put(t, n) \/ PutFails(t, n)

Next ==
    \/ \E a \in Addr : Credit(a)
    \/ \E n \in Ids : Outcome(n)
    \/ Send \/ Book \/ Ask \/ Skip \/ Store
    \/ \E p \in Passes : Reset(p)
    \/ \E t \in Fillers : Fill(t)

Spec == Init /\ [][Next]_vars
-----------------------------------------------------------------------------
AmountOf(rows) == MapThenSumSet(LAMBDA r : r.amount, rows)

(* What the wallet has sent an address or may still send it, and what the  *)
(* books owe it, are together never more than it was credited, but for     *)
(* results that are still to be booked: no rerun of the reset, no row      *)
(* written over another, no rejection before or after the booking pays or  *)
(* credits anything twice.                                                 *)
ToBook(a) ==
    AmountOf({results[j] : j \in {m \in k..Len(results) : /\ phase = "book" /\ results[m].success
                                                          /\ results[m].owner = a}})
Live(a) == AmountOf({s \in sent : s.owner = a /\ wallet[s.id] /= "rejected"})
NoWindfall == \A a \in Addr : Live(a) + balance[a] - ToBook(a) <= credited[a]

(* A row under an id of the wallet's is of a payment made in that          *)
(* transaction, whatever was stored since under whatever id; no other row  *)
(* is a success.  (What the reset credits, and whom, it reads there.)      *)
RowsOfPayments ==
    \A n \in DOMAIN transactions :
        LET row == transactions[n]
        IN  IF wallet[n] = "unused" THEN ~row.success
            ELSE [id |-> n, owner |-> row.owner, amount |-> row.amount] \in sent

AtEnd(pass, looping) == pass.pc = looping /\ pass.todo = {}

(* A reset pass that comes to the end of its list has credited back every  *)
(* payment on it that stood as a success when it began, but for those it   *)
(* logged a failure of, and those whose Commit failed without a word.      *)
PassCredits ==
    \A p \in Passes : AtEnd(reset[p], "next") =>
        reset[p].due \cap Successful \subseteq reset[p].dropped

(* A backfill that comes to its end has done what it is for, whatever was  *)
(* stored meanwhile and however old its list of the wallet's is, unless it *)
(* logged a failure or its list of rows was cut short: each success it     *)
(* found has its detail, each detail it found is at least as high as the   *)
(* wallet had it.                                                          *)
FillComplete ==
    \A t \in Fillers : AtEnd(fill[t], "listed") =>
        \A n \in fill[t].due :
            n \in DOMAIN details /\ (t = "heights" => details[n] >= fill[t].known[n])

(* The daemon and the backfills store what the wallet said a while ago, but *)
(* none of them takes a height away that another has stored.               *)
HeightsStay ==
    [][\A n \in DOMAIN details : n \in DOMAIN details' /\ details'[n] >= details[n]]_vars
=============================================================================
