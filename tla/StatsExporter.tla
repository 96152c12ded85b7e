--------------------------- MODULE StatsExporter ---------------------------
(***************************************************************************)
(* cmd/statsExporter: cron starts a goroutine of UpdateTipData and one of  *)
(* UpdateBlockTemplateCache every second, and gin answers /v1/networkStats *)
(* from what they left in the caches.  A job that overruns its second      *)
(* meets its successor, which `running` turns away; the writer of a cache  *)
(* and its reader meet at a mutex, but the struct that holds the mutex is  *)
(* made between the node's answer and the write, outside every lock.       *)
(*                                                                         *)
(* Enter reads and sets `running` in one step.  The code does it in two    *)
(* adjacent statements without synchronisation: the model assumes that no  *)
(* goroutine rests a whole second between them.                            *)
(*                                                                         *)
(* What the node says is reduced to the height it says it at, 0 for no     *)
(* answer.  One client asks, one request after the other.  A "slip" is a   *)
(* wrong variant of the definition after it, as in PayoutSplit.            *)
(***************************************************************************)
EXTENDS Naturals, Sequences, FiniteSets

CONSTANTS
    MaxTasks,   \* bound: goroutines that cron has alive at a time
    MaxHeight   \* bound: the node's height stops there

ASSUME StatsAssumption == MaxHeight \in Nat \ {0} /\ MaxTasks \in Nat \ {0}

Cache  == {"tip", "sha3x", "rxt", "rxm"}
Height == 0..MaxHeight

(* What a job fetches, in the order it does, and the order of the reads.   *)
Job        == {"tipData", "blockTemplates"}
Fetches(j) == IF j = "tipData" THEN <<"tip">> ELSE <<"sha3x", "rxt", "rxm">>
Reads      == <<"tip", "rxm", "rxt", "sha3x">>

VARIABLES
    height,     \* the node's tip
    made,       \* caches whose struct exists (the pointer is not nil)
    held,       \* the height of the response in the struct, 0 for nil
    running,    \* the jobs whose `running` is set
    tasks,      \* the goroutines alive, as [job, pc, at, got]
    request,    \* [at, seen]: the request's next read, and what it has read
    served      \* the last answer it got with status 200: cache -> height

vars == <<height, made, held, running, tasks, request, served>>

Nothing == [c \in Cache |-> 0]
NoRequest == [at |-> 1, seen |-> Nothing]

TypeOK ==
    /\ height \in Height
    /\ made \subseteq Cache
    /\ held \in [Cache -> Height]
    /\ \A c \in Cache \ made : held[c] = 0
    /\ tasks \subseteq [job : Job, pc : {"ask", "got", "write"}, at : 1..3, got : Height]
    /\ running = {t.job : t \in tasks}
    /\ request \in [at : 1..4, seen : [Cache -> Height]]
    /\ served \in [Cache -> Height]

Init ==
    /\ height = 1
    /\ made = {} /\ held = Nothing
    /\ running = {}
    /\ tasks = {}
    /\ request = NoRequest
    /\ served = Nothing

web   == <<request, served>>
cache == <<made, held>>
-----------------------------------------------------------------------------
(* The node finds a block.                                                 *)
NewBlock ==
    /\ height < MaxHeight
    /\ height' = height + 1
    /\ UNCHANGED <<cache, running, tasks, web>>

(* Slip: a job does not look at `running`.                                 *)
EnterUnchecked(j) ==
    /\ Cardinality(tasks) < MaxTasks
    /\ running' = running \cup {j}
    /\ tasks' = tasks \cup {[job |-> j, pc |-> "ask", at |-> 1, got |-> 0]}
    /\ UNCHANGED <<height, cache, web>>

(* Cron's second: a firing that finds `running` set has no effect.         *)
Enter(j) ==
    /\ Cardinality(tasks) < MaxTasks
    /\ j \notin running
    /\ running' = running \cup {j}
    /\ tasks' = tasks \cup {[job |-> j, pc |-> "ask", at |-> 1, got |-> 0]}
    /\ UNCHANGED <<height, cache, web>>

Becomes(t, u) == tasks' = (tasks \ {t}) \cup {u}

Fetching(t) == Fetches(t.job)[t.at]

(* The node's response is for the tip it has when it answers.              *)
Answer(t) ==
    /\ t.pc = "ask"
    /\ Becomes(t, [t EXCEPT !.pc = "got", !.got = height])
    /\ UNCHANGED <<height, cache, running, web>>

(* Slip: `running` stays set, as it would without the defer.               *)
FailsRunning(t) ==
    /\ t.pc = "ask"
    /\ tasks' = tasks \ {t}
    /\ UNCHANGED <<height, cache, running, web>>

(* The call errs: the job returns, and what it fetched before stays.       *)
Fails(t) ==
    /\ t.pc = "ask"
    /\ tasks' = tasks \ {t}
    /\ running' = running \ {t.job}
    /\ UNCHANGED <<height, cache, web>>

(* Slip: each response gets a struct of its own.                           *)
MakeAfresh(t) ==
    /\ t.pc = "got"
    /\ made' = made \cup {Fetching(t)}
    /\ held' = [held EXCEPT ![Fetching(t)] = 0]
    /\ Becomes(t, [t EXCEPT !.pc = "write"])
    /\ UNCHANGED <<height, running, web>>

(* The pointer is set before the response is in the struct.                *)
Make(t) ==
    /\ t.pc = "got"
    /\ made' = made \cup {Fetching(t)}
    /\ Becomes(t, [t EXCEPT !.pc = "write"])
    /\ UNCHANGED <<height, held, running, web>>

(* Under the mutex; the job goes on to its next fetch, or is done.         *)
Write(t) ==
    /\ t.pc = "write"
    /\ held' = [held EXCEPT ![Fetching(t)] = t.got]
    /\ IF t.at < Len(Fetches(t.job))
       THEN /\ Becomes(t, [t EXCEPT !.pc = "ask", !.at = @ + 1, !.got = 0])
            /\ UNCHANGED running
       ELSE /\ tasks' = tasks \ {t}
            /\ running' = running \ {t.job}
    /\ UNCHANGED <<height, made, web>>
-----------------------------------------------------------------------------
Reading == Reads[request.at]

(* Slip: a cache without its struct is taken for one without a response.   *)
UnreadableTip == Reading = "tip" /\ held["tip"] = 0

(* GetTipData returns nil before the first response, and the handler reads *)
(* through it; GetBlockTemplateCache reads through a nil pointer itself.   *)
Unreadable == \/ Reading = "tip" /\ held["tip"] = 0
              \/ Reading \notin made

(* One getter, under the mutex; a template that is nil is left out.        *)
Read ==
    /\ ~Unreadable
    /\ LET seen == [request.seen EXCEPT ![Reading] = held[Reading]]
       IN  IF request.at < Len(Reads)
           THEN request' = [at |-> request.at + 1, seen |-> seen] /\ UNCHANGED served
           ELSE request' = NoRequest /\ served' = seen
    /\ UNCHANGED <<height, cache, running, tasks>>

(* The handler panics, and gin's recovery makes it a status 500.           *)
Panic ==
    /\ Unreadable
    /\ request' = NoRequest
    /\ UNCHANGED <<height, cache, running, tasks, served>>

Next ==
    \/ NewBlock
    \/ \E j \in Job : Enter(j)
    \/ \E t \in tasks : \/ Answer(t)
                        \/ Fails(t)
                        \/ Make(t)
                        \/ Write(t)
    \/ Read
    \/ Panic

Spec == Init /\ [][Next]_vars

(* Cron fires for ever, a goroutine that can run does, the client asks     *)
(* again, and the node does not refuse the same call for ever.             *)
Fairness ==
    /\ \A j \in Job : WF_vars(Enter(j))
    /\ \A c \in Cache : SF_vars(\E t \in tasks : Fetching(t) = c /\ Answer(t))
    /\ \A j \in Job : WF_vars(\E t \in tasks : t.job = j /\ (Make(t) \/ Write(t)))
    /\ WF_vars(Read \/ Panic)

FairSpec == Spec /\ Fairness
-----------------------------------------------------------------------------
(* Every answer has the difficulties of sha3x and rxt, and a reward, from  *)
(* the first second on: the handler reads the cache of rxm, the last to be *)
(* filled, before the two others, so that only its template may be nil.    *)
AnswerHasReward == served["tip"] > 0 => served["sha3x"] > 0 /\ served["rxt"] > 0

(* No field of an answer is older than it was in the client's last answer: *)
(* responses are never applied out of order.                               *)
NeverOlder == [][\A c \in Cache : served'[c] >= served[c]]_vars

(* Once a request was answered, none panics: the caches never go back to   *)
(* nil while they are being refreshed.                                     *)
ReadyForGood == served["tip"] > 0 => ~Unreadable

(* The answers catch up with the node, however often it fails a call: once *)
(* it stays at a height, the client gets to see that height in all of them.*)
StatsCatchUp ==
    (height = MaxHeight) ~> (\A c \in Cache : served[c] = MaxHeight)
=============================================================================
