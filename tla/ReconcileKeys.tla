--------------------------- MODULE ReconcileKeys ---------------------------
(***************************************************************************)
(* The operator's passes over the reconcile keys in Redis, of              *)
(* cmd/payoutDaemon/reconcile.go: -list-reconcile-pending, which reads     *)
(* every key, and -clear-all-reconcile-pending, which deletes every key.   *)
(* Both walk the keyspace with SCAN, in a process of their own, while the  *)
(* daemon may be raising flags and another operator may be clearing them.  *)
(* (To PayoutRun a pass of -clear-all is a ClearReconcileFlag per key.)    *)
(*                                                                         *)
(* What SCAN promises is Redis's: an element that is there from the first  *)
(* call to the last is returned, by one call or by several; one that comes *)
(* or goes meanwhile may be.                                               *)
(*                                                                         *)
(* A "slip" is a wrong variant of the definition after it, as in           *)
(* PayoutSplit.                                                            *)
(***************************************************************************)
CONSTANT Addr       \* the addresses that may be flagged

VARIABLES
    flags,      \* addresses with a payout_reconcile_pending_ key
    pc,         \* the pass: "off", "scan", "keys", "summary" or "aborted"
    mode,       \* "clear" or "list"
    steady,     \* the flags that were there when the pass began, and since
    returned,   \* what SCAN has returned so far
    page,       \* the keys of the last call that are still to be dealt with
    last,       \* whether that call's nextCursor was 0
    logged,     \* the addresses of the pass's report
    failed      \* those of them whose Del failed

pass == <<pc, mode, returned, page, last, logged, failed>>
vars == <<flags, steady, pass>>

TypeOK ==
    /\ flags \subseteq Addr
    /\ pc \in {"off", "scan", "keys", "summary", "aborted"}
    /\ mode \in {"clear", "list"}
    /\ steady \subseteq flags
    /\ returned \subseteq Addr
    /\ page \subseteq returned
    /\ last \in BOOLEAN
    /\ logged \subseteq returned
    /\ failed \subseteq logged

Init ==
    /\ flags = {} /\ steady = {}
    /\ pc = "off" /\ mode = "list"
    /\ returned = {} /\ page = {} /\ last = FALSE /\ logged = {} /\ failed = {}
-----------------------------------------------------------------------------
(* The daemon flags a recipient (Set), and a slip: the key is made of the  *)
(* whole group.                                                            *)
FlagGroup(a) ==
    /\ flags' = flags \cup {{a}}
    /\ UNCHANGED <<steady, pass>>

Flag(a) ==
    /\ flags' = flags \cup {a}
    /\ UNCHANGED <<steady, pass>>

(* -clear-reconcile-flag, by an operator who has looked at the wallet.     *)
ClearOne(a) ==
    /\ flags' = flags \ {a}
    /\ steady' = steady \ {a}
    /\ UNCHANGED pass
-----------------------------------------------------------------------------
(* main picks one of the two passes and returns after it.                  *)
Start(m) ==
    /\ pc \in {"off", "summary", "aborted"}
    /\ pc' = "scan" /\ mode' = m
    /\ steady' = flags
    /\ returned' = {} /\ page' = {} /\ last' = FALSE /\ logged' = {} /\ failed' = {}
    /\ UNCHANGED flags

(* Slip: the pass stops at the first page without a key, not at cursor 0.  *)
ScanToEmptyPage(keys) ==
    /\ pc = "scan"
    /\ keys \subseteq flags
    /\ returned' = returned \cup keys
    /\ page' = keys
    /\ \/ last' = (keys = {})
       \/ last' = TRUE /\ steady \subseteq returned'
    /\ pc' = "keys"
    /\ UNCHANGED <<flags, steady, mode, logged, failed>>

(* One SCAN with the pattern of the keys: any number of them, also none;   *)
(* the cursor is 0 again at the earliest when all that is steady has been  *)
(* returned.                                                               *)
Scan(keys) ==
    /\ pc = "scan"
    /\ keys \subseteq flags
    /\ returned' = returned \cup keys
    /\ page' = keys
    /\ \/ last' = FALSE
       \/ last' = TRUE /\ steady \subseteq returned'
    /\ pc' = "keys"
    /\ UNCHANGED <<flags, steady, mode, logged, failed>>

(* A SCAN that fails ends the pass without a summary.                      *)
ScanFails ==
    /\ pc = "scan"
    /\ pc' = "aborted"
    /\ UNCHANGED <<flags, steady, mode, returned, page, last, logged, failed>>

(* clearAllReconcilePendingWithClient: Del on a key of the page.  By now   *)
(* the key may be gone, or be a new flag.                                  *)
DelKey(a) ==
    /\ pc = "keys" /\ mode = "clear" /\ a \in page
    /\ flags' = flags \ {a}
    /\ steady' = steady \ {a}
    /\ page' = page \ {a}
    /\ logged' = logged \cup {a}
    /\ UNCHANGED <<pc, mode, returned, last, failed>>

(* Slip: a failed Del ends the loop over the page.                         *)
DelFailsBreak(a) ==
    /\ pc = "keys" /\ mode = "clear" /\ a \in page
    /\ page' = {}
    /\ logged' = logged \cup {a}
    /\ failed' = failed \cup {a}
    /\ UNCHANGED <<flags, steady, pc, mode, returned, last>>

(* A Del that fails is logged, and the loop goes on.                       *)
DelFails(a) ==
    /\ pc = "keys" /\ mode = "clear" /\ a \in page
    /\ page' = page \ {a}
    /\ logged' = logged \cup {a}
    /\ failed' = failed \cup {a}
    /\ UNCHANGED <<flags, steady, pc, mode, returned, last>>

(* listReconcilePending: Get on a key of the page; the address is listed   *)
(* whether its value could be read or not.                                 *)
GetKey(a) ==
    /\ pc = "keys" /\ mode = "list" /\ a \in page
    /\ page' = page \ {a}
    /\ logged' = logged \cup {a}
    /\ UNCHANGED <<flags, steady, pc, mode, returned, last, failed>>

(* Slip: the cursor is not looked at after a page.                         *)
NextPageForEver ==
    /\ pc = "keys" /\ page = {}
    /\ pc' = "scan"
    /\ UNCHANGED <<flags, steady, mode, returned, page, last, logged, failed>>

(* The page is done: on to the next, or to the summary.                    *)
NextPage ==
    /\ pc = "keys" /\ page = {}
    /\ pc' = IF last THEN "summary" ELSE "scan"
    /\ UNCHANGED <<flags, steady, mode, returned, page, last, logged, failed>>
-----------------------------------------------------------------------------
Keys == \E a \in Addr : DelKey(a) \/ DelFails(a) \/ GetKey(a)

Next ==
    \/ \E a \in Addr : Flag(a) \/ ClearOne(a)
    \/ \E m \in {"clear", "list"} : Start(m)
    \/ \E keys \in SUBSET flags : Scan(keys)
    \/ ScanFails
    \/ Keys
    \/ NextPage

Spec == Init /\ [][Next]_vars

(* The loop runs, and Redis brings every full iteration to an end: it      *)
(* cannot answer a cursor other than 0 for ever.                           *)
LastScan == \E keys \in SUBSET flags : Scan(keys) /\ last'
FairSpec ==
    /\ Spec
    /\ WF_vars(\E keys \in SUBSET flags : Scan(keys))
    /\ WF_vars(Keys)
    /\ WF_vars(NextPage)
    /\ SF_vars(LastScan)
-----------------------------------------------------------------------------
(* A pass that comes to its summary has passed over no flag: each one that *)
(* was up all the while is in the report, and after -clear-all those that  *)
(* are still up are the ones it could not delete ("rather than reporting a *)
(* false all clear").                                                      *)
NoneSkipped ==
    pc = "summary" => steady \subseteq IF mode = "clear" THEN failed ELSE logged

(* A pass comes to an end, whatever flags come and go meanwhile.           *)
PassEnds == pc = "scan" ~> pc \in {"summary", "aborted"}

(* -clear-all is for an operator who "has independently verified [...]     *)
(* that none of the outstanding flags represent real double-pay risk": so  *)
(* it should leave a flag alone that was raised after it began.            *)
NewFlagsStay ==
    [][page' /= page => \A a \in flags \ steady : a \in flags']_vars
=============================================================================
