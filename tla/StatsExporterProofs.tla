------------------------ MODULE StatsExporterProofs ------------------------
(***************************************************************************)
(* The safety of the statistics service, for any height and any number of  *)
(* goroutines: what an answer holds, in what order it is seen, and that a  *)
(* service that has answered does not panic any more.  Nothing here needs  *)
(* fairness.                                                               *)
(***************************************************************************)
EXTENDS StatsExporter, TLAPS

(* `running` is a lock: a job has one goroutine at most.  It is at one of  *)
(* the fetches of its job, and it has made the struct it will write to.    *)
TaskInv ==
    /\ \A t, u \in tasks : t.job = u.job => t = u
    /\ \A t \in tasks : /\ t.at <= Len(Fetches(t.job))
                        /\ t.pc = "write" => Fetching(t) \in made

(* The caches only ever go forward: what a job carries is at least as new  *)
(* as what it will overwrite, and the node has it by now.                  *)
Forward ==
    /\ height > 0
    /\ \A c \in Cache : held[c] <= height
    /\ \A t \in tasks : t.pc /= "ask" =>
          0 < t.got /\ held[Fetching(t)] <= t.got /\ t.got <= height

(* The templates are made in the order sha3x, rxt, rxm, each after the one *)
(* before it was written.                                                  *)
Filled ==
    /\ \A t \in tasks : t.job = "blockTemplates" =>
          /\ t.at >= 2 => held["sha3x"] > 0
          /\ t.at >= 3 => held["rxt"] > 0
    /\ "rxt" \in made => held["sha3x"] > 0
    /\ "rxm" \in made => held["sha3x"] > 0 /\ held["rxt"] > 0

(* What the request has read of a cache is between what the client has and *)
(* what the cache holds; and it got there through caches that are ready.   *)
Ready(c) == c \in made /\ (c = "tip" => held["tip"] > 0)
ReadInv ==
    /\ \A n \in 1..4 : n < request.at =>
          /\ Ready(Reads[n])
          /\ served[Reads[n]] <= request.seen[Reads[n]]
          /\ Reads[n] \in {"rxt", "sha3x"} => request.seen[Reads[n]] > 0
    /\ \A c \in Cache : request.seen[c] <= held[c] /\ served[c] <= held[c]

ReadyForGoodInv == served["tip"] > 0 => \A c \in Cache : Ready(c)

StatsInv ==
    /\ TypeOK
    /\ TaskInv /\ Forward /\ Filled
    /\ ReadInv /\ ReadyForGoodInv /\ AnswerHasReward

LEMMA ReadsOrder ==
    /\ Reads[1] = "tip" /\ Reads[2] = "rxm" /\ Reads[3] = "rxt" /\ Reads[4] = "sha3x"
    /\ Len(Reads) = 4
BY DEF Reads

LEMMA FetchesOrder ==
    /\ Len(Fetches("tipData")) = 1 /\ Fetches("tipData")[1] = "tip"
    /\ Len(Fetches("blockTemplates")) = 3
    /\ Fetches("blockTemplates")[1] = "sha3x" /\ Fetches("blockTemplates")[2] = "rxt"
    /\ Fetches("blockTemplates")[3] = "rxm"
BY DEF Fetches

(* A goroutine fetches what its place in its job says, and no two of them  *)
(* the same.                                                               *)
LEMMA TaskFacts ==
    ASSUME TypeOK, TaskInv, NEW t \in tasks
    PROVE  /\ t \in [job : Job, pc : {"ask", "got", "write"}, at : 1..3, got : Height]
           /\ t.job \in running
           /\ Fetching(t) \in Cache
           /\ t.job = "tipData" => t.at = 1 /\ Fetching(t) = "tip"
           /\ t.job = "blockTemplates" => /\ t.at = 1 => Fetching(t) = "sha3x"
                                          /\ t.at = 2 => Fetching(t) = "rxt"
                                          /\ t.at = 3 => Fetching(t) = "rxm"
           /\ t.at <= Len(Fetches(t.job))
           /\ \A u \in tasks : u /= t => u.job /= t.job /\ Fetching(u) /= Fetching(t)
<1> DEFINE Facts(u) ==
      /\ u \in [job : Job, pc : {"ask", "got", "write"}, at : 1..3, got : Height]
      /\ u.job \in running
      /\ Fetching(u) \in Cache
      /\ u.job = "tipData" => u.at = 1 /\ Fetching(u) = "tip"
      /\ u.job = "blockTemplates" => /\ u.at = 1 => Fetching(u) = "sha3x"
                                     /\ u.at = 2 => Fetching(u) = "rxt"
                                     /\ u.at = 3 => Fetching(u) = "rxm"
      /\ u.at <= Len(Fetches(u.job))
<1>1. ASSUME NEW u \in tasks PROVE Facts(u)
  <2>1. u \in [job : Job, pc : {"ask", "got", "write"}, at : 1..3, got : Height]
        /\ u.job \in running /\ u.at <= Len(Fetches(u.job))
    BY DEF TypeOK, TaskInv
  <2>2. u.job = "tipData" => u.at = 1
    <3> SUFFICES ASSUME u.job = "tipData" PROVE u.at = 1
      OBVIOUS
    <3>1. Len(Fetches(u.job)) = 1
      BY FetchesOrder
    <3>2. u.at \in 1..3 /\ u.at <= 1
      BY <2>1, <3>1
    <3> QED
      BY <3>2
  <2> QED
    BY <2>1, <2>2, FetchesOrder DEF Fetching, Job, Cache
<1>2. ASSUME NEW u \in tasks, u /= t PROVE u.job /= t.job /\ Fetching(u) /= Fetching(t)
  <2>1. u.job /= t.job
    BY <1>2 DEF TaskInv
  <2>2. Facts(u) /\ Facts(t)
    BY <1>1
  <2>3. u.at \in 1..3 /\ t.at \in 1..3 /\ u.job \in Job /\ t.job \in Job
    BY <2>2
  <2> QED
    BY <2>1, <2>2, <2>3 DEF Job
<1> QED
  BY <1>1, <1>2

LEMMA InitInv == Init => StatsInv
<1> SUFFICES ASSUME Init PROVE StatsInv
  OBVIOUS
<1> USE StatsAssumption DEF Init, Nothing, NoRequest
<1>1. TypeOK
  BY DEF TypeOK, Cache, Height
<1>2. TaskInv /\ Forward /\ Filled
  BY DEF TaskInv, Forward, Filled, Cache
<1>3. ReadInv /\ ReadyForGoodInv /\ AnswerHasReward
  BY DEF ReadInv, ReadyForGoodInv, AnswerHasReward, Cache
<1> QED
  BY <1>1, <1>2, <1>3 DEF StatsInv

(* A step of the web server, which writes to no cache and concerns no      *)
(* goroutine, leaves most of the invariant as it is.                       *)
LEMMA WebStep ==
    ASSUME StatsInv, UNCHANGED <<height, cache, running, tasks>>, TypeOK', ReadInv',
           ReadyForGoodInv', AnswerHasReward'
    PROVE  StatsInv'
BY DEF StatsInv, TaskInv, Forward, Filled, cache, Fetching

LEMMA NewBlockStep == ASSUME StatsInv, NewBlock PROVE StatsInv'
<1> USE StatsAssumption DEF StatsInv, NewBlock, cache, web
<1>1. TypeOK'
  BY DEF TypeOK, Height
<1>2. height \in Nat /\ \A t \in tasks : t.got \in Nat
  BY DEF TypeOK, Height
<1>3. \A c \in Cache : held[c] \in Nat
  BY DEF TypeOK, Height
<1>4. TaskInv' /\ Filled'
  BY DEF TaskInv, Filled, Fetching
<1>5. Forward'
  BY <1>2, <1>3 DEF Forward, Fetching
<1>6. ReadInv' /\ ReadyForGoodInv' /\ AnswerHasReward'
  BY DEF ReadInv, ReadyForGoodInv, AnswerHasReward, Ready
<1> QED
  BY <1>1, <1>4, <1>5, <1>6

(* What is left to show of a step of cron's goroutines that does not write *)
(* to a cache.                                                             *)
LEMMA CronStep ==
    ASSUME StatsInv, UNCHANGED <<height, held, web>>, made \subseteq made',
           TypeOK', TaskInv', Forward', Filled'
    PROVE  StatsInv'
BY DEF StatsInv, ReadInv, ReadyForGoodInv, AnswerHasReward, Ready, web

LEMMA EnterStep == ASSUME StatsInv, NEW j \in Job, Enter(j) PROVE StatsInv'
<1> DEFINE new == [job |-> j, pc |-> "ask", at |-> 1, got |-> 0]
<1>1. /\ j \notin running /\ running' = running \cup {j} /\ tasks' = tasks \cup {new}
      /\ UNCHANGED <<height, made, held, web>>
  BY DEF Enter, cache
<1>2. new \in [job : Job, pc : {"ask", "got", "write"}, at : 1..3, got : Height]
  BY StatsAssumption DEF Height
<1>3. running' = {t.job : t \in tasks'}
  <2> HIDE DEF new
  <2>1. new.job = j
    BY DEF new
  <2>2. running = {t.job : t \in tasks}
    BY DEF StatsInv, TypeOK
  <2> QED
    BY <1>1, <2>1, <2>2
<1>4. TypeOK'
  BY <1>1, <1>2, <1>3 DEF StatsInv, TypeOK, web
<1>5. \A t \in tasks : t.job /= j
  BY <1>1 DEF StatsInv, TypeOK
<1>6. new.at <= Len(Fetches(new.job))
  BY FetchesOrder DEF Job
<1>7. TaskInv'
  BY <1>1, <1>5, <1>6 DEF StatsInv, TaskInv, Fetching
<1>8. Forward' /\ Filled'
  BY <1>1 DEF StatsInv, Forward, Filled, Fetching
<1> QED
  BY <1>1, <1>4, <1>7, <1>8, CronStep DEF StatsInv

LEMMA FailsStep == ASSUME StatsInv, NEW t \in tasks, Fails(t) PROVE StatsInv'
<1>1. /\ tasks' = tasks \ {t} /\ running' = running \ {t.job}
      /\ UNCHANGED <<height, made, held, web>>
  BY DEF Fails, cache
<1>2. running' = {u.job : u \in tasks'}
  BY <1>1 DEF StatsInv, TypeOK, TaskInv
<1>3. TypeOK'
  BY <1>1, <1>2 DEF StatsInv, TypeOK, web
<1>4. TaskInv' /\ Forward' /\ Filled'
  BY <1>1 DEF StatsInv, TaskInv, Forward, Filled, Fetching
<1> QED
  BY <1>1, <1>3, <1>4, CronStep

(* A goroutine goes on within its job.                                     *)
LEMMA BecomesRunning ==
    ASSUME StatsInv, NEW t \in tasks, NEW u, Becomes(t, u), u.job = t.job
    PROVE  /\ running = {v.job : v \in tasks'}
           /\ \A v, w \in tasks' : v.job = w.job => v = w
           /\ tasks' = (tasks \ {t}) \cup {u}
BY DEF StatsInv, TypeOK, TaskInv, Becomes

LEMMA AnswerStep == ASSUME StatsInv, NEW t \in tasks, Answer(t) PROVE StatsInv'
<1> DEFINE u == [t EXCEPT !.pc = "got", !.got = height]
<1>1. /\ Becomes(t, u) /\ t.pc = "ask"
      /\ UNCHANGED <<height, made, held, running, web>>
  BY DEF Answer, cache
<1>2. t \in [job : Job, pc : {"ask", "got", "write"}, at : 1..3, got : Height]
      /\ t.at <= Len(Fetches(t.job)) /\ Fetching(t) \in Cache
  BY TaskFacts DEF StatsInv
<1>3. /\ u \in [job : Job, pc : {"ask", "got", "write"}, at : 1..3, got : Height]
      /\ u.job = t.job /\ u.at = t.at /\ u.pc = "got" /\ u.got = height
      /\ Fetching(u) = Fetching(t)
  BY <1>2 DEF StatsInv, TypeOK, Fetching
<1>4. /\ running = {v.job : v \in tasks'} /\ tasks' = (tasks \ {t}) \cup {u}
      /\ \A v, w \in tasks' : v.job = w.job => v = w
  BY <1>1, <1>3, BecomesRunning
<1>5. TypeOK'
  BY <1>1, <1>3, <1>4 DEF StatsInv, TypeOK, web
<1>6. TaskInv'
  BY <1>1, <1>2, <1>3, <1>4 DEF StatsInv, TaskInv, Fetching
<1>7. Forward'
  <2>1. height \in Nat
    BY DEF StatsInv, TypeOK, Height
  <2>2. height' = height /\ held' = held /\ height > 0 /\ \A c \in Cache : held[c] <= height
    BY <1>1 DEF StatsInv, Forward
  <2>3. \A v \in tasks : v.pc /= "ask" => 0 < v.got /\ held[Fetching(v)] <= v.got /\ v.got <= height
    BY DEF StatsInv, Forward
  <2> HIDE DEF u
  <2>4. held[Fetching(u)] <= u.got /\ 0 < u.got /\ u.got <= height
    BY <1>2, <1>3, <2>1, <2>2
  <2>5. \A v : Fetching(v)' = Fetching(v)
    BY DEF Fetching
  <2> QED
    BY <1>4, <2>2, <2>3, <2>4, <2>5 DEF Forward
<1>8. Filled'
  BY <1>1, <1>3, <1>4 DEF StatsInv, Filled
<1> QED
  BY <1>1, <1>5, <1>6, <1>7, <1>8, CronStep

LEMMA MakeStep == ASSUME StatsInv, NEW t \in tasks, Make(t) PROVE StatsInv'
<1> DEFINE u == [t EXCEPT !.pc = "write"]
<1>1. /\ Becomes(t, u) /\ t.pc = "got" /\ made' = made \cup {Fetching(t)}
      /\ UNCHANGED <<height, held, running, web>>
  BY DEF Make
<1>2. /\ t \in [job : Job, pc : {"ask", "got", "write"}, at : 1..3, got : Height]
      /\ t.at <= Len(Fetches(t.job)) /\ Fetching(t) \in Cache
      /\ t.job = "tipData" => Fetching(t) = "tip"
      /\ t.job = "blockTemplates" => /\ t.at = 1 => Fetching(t) = "sha3x"
                                     /\ t.at = 2 => Fetching(t) = "rxt"
                                     /\ t.at = 3 => Fetching(t) = "rxm"
  BY TaskFacts DEF StatsInv
<1>3. /\ u \in [job : Job, pc : {"ask", "got", "write"}, at : 1..3, got : Height]
      /\ u.job = t.job /\ u.at = t.at /\ u.pc = "write" /\ u.got = t.got
      /\ Fetching(u) = Fetching(t)
  BY <1>2 DEF Fetching
<1>4. /\ running = {v.job : v \in tasks'} /\ tasks' = (tasks \ {t}) \cup {u}
      /\ \A v, w \in tasks' : v.job = w.job => v = w
  BY <1>1, <1>3, BecomesRunning
<1>5. TypeOK'
  BY <1>1, <1>2, <1>3, <1>4 DEF StatsInv, TypeOK, web
<1>6. TaskInv'
  BY <1>1, <1>2, <1>3, <1>4 DEF StatsInv, TaskInv, Fetching
<1>7. Forward'
  BY <1>1, <1>2, <1>3, <1>4 DEF StatsInv, Forward, Fetching
<1>8. Filled'
  <2>1. t.at \in 1..3 /\ t.job \in Job
    BY <1>2
  <2>2. Fetching(t) = "rxt" => t.job = "blockTemplates" /\ t.at = 2
    BY <1>2, <2>1 DEF Job
  <2>3. Fetching(t) = "rxm" => t.job = "blockTemplates" /\ t.at = 3
    BY <1>2, <2>1 DEF Job
  <2> QED
    BY <1>1, <1>3, <1>4, <2>2, <2>3 DEF StatsInv, Filled
<1> QED
  BY <1>1, <1>5, <1>6, <1>7, <1>8, CronStep

(* The one step that changes what a cache holds, and it only goes forward. *)
LEMMA WriteStep == ASSUME StatsInv, NEW t \in tasks, Write(t) PROVE StatsInv'
<1> DEFINE c == Fetching(t)
           u == [t EXCEPT !.pc = "ask", !.at = @ + 1, !.got = 0]
           more == t.at < Len(Fetches(t.job))
<1>1. /\ t.pc = "write" /\ held' = [held EXCEPT ![c] = t.got]
      /\ UNCHANGED <<height, made, web>>
  BY DEF Write
<1>2. /\ t \in [job : Job, pc : {"ask", "got", "write"}, at : 1..3, got : Height]
      /\ t.at <= Len(Fetches(t.job)) /\ c \in Cache
      /\ t.job = "tipData" => t.at = 1 /\ c = "tip"
      /\ t.job = "blockTemplates" => /\ t.at = 1 => c = "sha3x"
                                     /\ t.at = 2 => c = "rxt"
                                     /\ t.at = 3 => c = "rxm"
      /\ \A v \in tasks : v /= t => v.job /= t.job /\ Fetching(v) /= c
  BY TaskFacts DEF StatsInv
<1>3. /\ c \in made /\ 0 < t.got /\ held[c] <= t.got /\ t.got <= height
      /\ held \in [Cache -> Nat] /\ t.got \in Nat /\ height \in Nat
  BY <1>1, <1>2 DEF StatsInv, TaskInv, Forward, TypeOK, Height
<1>4. /\ held'[c] = t.got /\ \A d \in Cache : d /= c => held'[d] = held[d]
      /\ \A d \in Cache : held[d] <= held'[d] /\ held'[d] \in Nat
  <2> HIDE DEF c
  <2> QED
    BY <1>1, <1>2, <1>3
<1>5. held' \in [Cache -> Height] /\ \A d \in Cache \ made' : held'[d] = 0
  <2> HIDE DEF c
  <2> QED
    BY <1>1, <1>2, <1>3, <1>4 DEF StatsInv, TypeOK
<1>6. /\ \A v \in tasks' : (v \in tasks /\ v /= t) \/ (v = u /\ more)
      /\ running' = {v.job : v \in tasks'}
      /\ \A v, w \in tasks' : v.job = w.job => v = w
  <2>1. CASE more
    <3>1. Becomes(t, u) /\ UNCHANGED running /\ u.job = t.job
      BY <1>2, <2>1 DEF Write
    <3> HIDE DEF u, more
    <3>2. /\ running = {v.job : v \in tasks'}
          /\ \A v, w \in tasks' : v.job = w.job => v = w
          /\ tasks' = (tasks \ {t}) \cup {u}
      BY <3>1, BecomesRunning
    <3> QED
      BY <2>1, <3>1, <3>2
  <2>2. CASE ~more
    <3>1. tasks' = tasks \ {t} /\ running' = running \ {t.job}
      BY <2>2 DEF Write
    <3> QED
      BY <3>1 DEF StatsInv, TypeOK, TaskInv
  <2> QED
    BY <2>1, <2>2
<1>7. more => /\ u \in [job : Job, pc : {"ask", "got", "write"}, at : 1..3, got : Height]
              /\ u.job = t.job /\ u.at = t.at + 1 /\ u.pc = "ask"
              /\ u.at <= Len(Fetches(u.job)) /\ t.job = "blockTemplates"
  <2> SUFFICES ASSUME more PROVE <1>7!2
    OBVIOUS
  <2>1. t.job = "blockTemplates" /\ t.at < 3
    <3>1. t.job = "tipData" => FALSE
      <4>1. ASSUME t.job = "tipData" PROVE t.at = 1 /\ Len(Fetches(t.job)) = 1
        BY <1>2, <4>1, FetchesOrder
      <4> QED
        BY <4>1
    <3>2. t.job = "blockTemplates"
      BY <1>2, <3>1 DEF Job
    <3>3. Len(Fetches(t.job)) = 3 /\ t.at \in Nat
      BY <1>2, <3>2, FetchesOrder
    <3> QED
      BY <3>2, <3>3
  <2>2. Len(Fetches(t.job)) = 3 /\ t.at \in 1..3 /\ 0 \in Height
    BY <1>2, <2>1, FetchesOrder, StatsAssumption DEF Height
  <2>3. t.at + 1 \in 1..3 /\ t.at + 1 <= 3
    BY <2>1, <2>2
  <2>4. u.job = t.job /\ u.at = t.at + 1 /\ u.pc = "ask"
        /\ u \in [job : Job, pc : {"ask", "got", "write"}, at : 1..3, got : Height]
    BY <1>2, <2>2, <2>3
  <2> HIDE DEF u
  <2> QED
    BY <2>1, <2>2, <2>3, <2>4
<1>8. TypeOK'
  BY <1>1, <1>5, <1>6, <1>7 DEF StatsInv, TypeOK, web
<1>9. TaskInv'
  <2>1. \A v : Fetching(v)' = Fetching(v)
    BY DEF Fetching
  <2> HIDE DEF u
  <2> QED
    BY <1>1, <1>6, <1>7, <2>1 DEF StatsInv, TaskInv
<1>10. Forward'
  <2>1. \A v : Fetching(v)' = Fetching(v)
    BY DEF Fetching
  <2>2. \A d \in Cache : held'[d] <= height'
    BY <1>1, <1>3, <1>4 DEF StatsInv, Forward
  <2>3. ASSUME NEW v \in tasks', v.pc /= "ask"
        PROVE  0 < v.got /\ held'[Fetching(v)] <= v.got /\ v.got <= height
    <3>1. v \in tasks /\ v /= t
      BY <1>6, <1>7, <2>3
    <3>2. Fetching(v) \in Cache /\ Fetching(v) /= c
      BY <1>2, <3>1, TaskFacts DEF StatsInv
    <3> QED
      BY <1>4, <2>3, <3>1, <3>2 DEF StatsInv, Forward
  <2> QED
    BY <1>1, <2>1, <2>2, <2>3 DEF StatsInv, Forward
<1>11. Filled'
  <2>1. {"sha3x", "rxt", "rxm", "tip"} \subseteq Cache
    BY DEF Cache
  <2>2. \A d \in Cache : held[d] > 0 => held'[d] > 0
    BY <1>3, <1>4
  <2>3. ("rxt" \in made' => held'["sha3x"] > 0)
        /\ ("rxm" \in made' => held'["sha3x"] > 0 /\ held'["rxt"] > 0)
    BY <1>1, <2>1, <2>2 DEF StatsInv, Filled
  <2>4. ASSUME NEW v \in tasks', v.job = "blockTemplates"
        PROVE  (v.at >= 2 => held'["sha3x"] > 0) /\ (v.at >= 3 => held'["rxt"] > 0)
    <3>1. CASE v \in tasks
      BY <2>1, <2>2, <2>4, <3>1 DEF StatsInv, Filled
    <3>2. CASE v = u /\ more
      <4> HIDE DEF u
      <4>1. u.at = t.at + 1 /\ t.job = "blockTemplates" /\ t.at \in 1..3
        BY <1>2, <1>7, <3>2
      <4>2. t.at = 1 => held'["sha3x"] > 0
        BY <1>2, <1>3, <1>4, <4>1
      <4>3. t.at = 2 => held'["sha3x"] > 0 /\ held'["rxt"] > 0
        <5>1. ASSUME t.at = 2 PROVE held["sha3x"] > 0 /\ c = "rxt"
          BY <1>2, <4>1, <5>1 DEF StatsInv, Filled
        <5> QED
          BY <1>3, <1>4, <2>1, <2>2, <5>1
      <4>4. t.at = 3 => FALSE
        <5>1. Len(Fetches(u.job)) = 3 /\ u.at <= Len(Fetches(u.job))
          BY <1>7, <3>2, <4>1, FetchesOrder
        <5> QED
          BY <4>1, <5>1
      <4> QED
        BY <3>2, <4>1, <4>2, <4>3, <4>4
    <3> QED
      BY <1>6, <3>1, <3>2
  <2> QED
    BY <2>3, <2>4 DEF Filled
<1>12. ReadInv'
  <2>1. \A d \in {"rxt", "sha3x", "rxm", "tip"} : Ready(d) => Ready(d)'
    BY <1>1, <1>3, <1>4 DEF Ready, Cache
  <2>2. \A n \in 1..4 : Reads[n] \in {"rxt", "sha3x", "rxm", "tip"}
    BY DEF Reads
  <2>3. request' = request /\ served' = served
    BY <1>1 DEF web
  <2>4. ASSUME NEW d \in Cache PROVE request'.seen[d] <= held'[d] /\ served'[d] <= held'[d]
    <3>1. request.seen[d] \in Nat /\ served[d] \in Nat
      BY DEF StatsInv, TypeOK, Height
    <3>2. held[d] \in Nat /\ held'[d] \in Nat /\ held[d] <= held'[d]
      BY <1>3, <1>4
    <3> QED
      BY <2>3, <3>1, <3>2 DEF StatsInv, ReadInv
  <2>5. \A n \in 1..4 : n < request.at =>
          /\ Ready(Reads[n])'
          /\ served[Reads[n]] <= request.seen[Reads[n]]
          /\ Reads[n] \in {"rxt", "sha3x"} => request.seen[Reads[n]] > 0
    BY <2>1, <2>2 DEF StatsInv, ReadInv
  <2> QED
    BY <2>3, <2>4, <2>5 DEF ReadInv, Ready
<1>13. ReadyForGoodInv' /\ AnswerHasReward'
  BY <1>1, <1>3, <1>4 DEF StatsInv, ReadyForGoodInv, AnswerHasReward, Ready, web, Cache
<1> QED
  BY <1>8, <1>9, <1>10, <1>11, <1>12, <1>13 DEF StatsInv

(* The web server's two steps.                                             *)
LEMMA ReadStep ==
    ASSUME StatsInv, Read
    PROVE  /\ StatsInv'
           /\ \A c \in Cache : served'[c] >= served[c]
<1> DEFINE c == Reading
           seen == [request.seen EXCEPT ![c] = held[c]]
<1>1. /\ ~Unreadable /\ UNCHANGED <<height, made, held, running, tasks>>
      /\ request.at < 4 => request' = [at |-> request.at + 1, seen |-> seen] /\ UNCHANGED served
      /\ request.at >= 4 => request' = NoRequest /\ served' = seen
  BY ReadsOrder DEF Read, cache, StatsInv, TypeOK
<1>2. /\ request.at \in 1..4 /\ request.seen \in [Cache -> Height]
      /\ held \in [Cache -> Height] /\ served \in [Cache -> Height]
      /\ 0 \in Height /\ Height \subseteq Nat
  BY StatsAssumption DEF StatsInv, TypeOK, Height
<1>3. /\ c \in Cache /\ c = Reads[request.at] /\ Ready(c)
      /\ \A n \in 1..4 : n /= request.at => Reads[n] /= c
      /\ \A n \in 1..4 : Reads[n] \in Cache
  <2>1. held["tip"] /= 0 => held["tip"] > 0
    <3>1. held["tip"] \in Nat
      BY <1>2 DEF Cache
    <3> QED
      BY <3>1
  <2>2. c = Reads[request.at]
    BY DEF Reading
  <2>3. /\ \A n \in 1..4 : Reads[n] \in Cache
        /\ \A n, m \in 1..4 : n /= m => Reads[n] /= Reads[m]
    BY ReadsOrder DEF Cache
  <2>4. Ready(c)
    BY <1>1, <2>1 DEF Unreadable, Ready
  <2> HIDE DEF c
  <2> QED
    BY <1>2, <2>2, <2>3, <2>4
<1>4. /\ seen \in [Cache -> Height] /\ seen[c] = held[c]
      /\ \A d \in Cache : d /= c => seen[d] = request.seen[d]
  <2> HIDE DEF c
  <2> QED
    BY <1>2, <1>3
<1>5. ASSUME NEW n \in 1..4, n <= request.at
      PROVE  /\ Ready(Reads[n])
             /\ served[Reads[n]] <= seen[Reads[n]]
             /\ Reads[n] \in {"rxt", "sha3x"} => seen[Reads[n]] > 0
  <2>1. CASE n = request.at
    <3>1. served[c] <= held[c]
      BY <1>3 DEF StatsInv, ReadInv
    <3>2. c \in {"rxt", "sha3x"} => held[c] > 0
      <4>1. c = "rxt" => request.at = 3
        BY <1>2, <1>3, ReadsOrder
      <4>2. c = "sha3x" => request.at = 4
        BY <1>2, <1>3, ReadsOrder
      <4>3. request.at \in {3, 4} => "rxm" \in made
        BY ReadsOrder DEF StatsInv, ReadInv, Ready
      <4> QED
        BY <4>1, <4>2, <4>3 DEF StatsInv, Filled
    <3> HIDE DEF seen
    <3> QED
      BY <1>3, <1>4, <2>1, <3>1, <3>2
  <2>2. CASE n /= request.at
    <3>1. n < request.at
      BY <1>2, <1>5, <2>2
    <3>2. seen[Reads[n]] = request.seen[Reads[n]]
      BY <1>3, <1>4, <2>2
    <3> QED
      BY <3>1, <3>2 DEF StatsInv, ReadInv
  <2> QED
    BY <2>1, <2>2
<1>6. \A d \in Cache : seen[d] <= held[d]
  <2> HIDE DEF seen, c
  <2>1. \A d \in Cache : request.seen[d] <= held[d]
    BY DEF StatsInv, ReadInv
  <2>2. held[c] \in Nat
    BY <1>2, <1>3
  <2> QED
    BY <1>3, <1>4, <2>1, <2>2
<1> HIDE DEF seen, c
<1>7. CASE request.at < 4
  <2>1. /\ request'.at = request.at + 1 /\ request'.seen = seen /\ served' = served
        /\ request' = [at |-> request.at + 1, seen |-> seen]
    BY <1>1, <1>7
  <2>2. TypeOK'
    BY <1>1, <1>2, <1>4, <1>7, <2>1 DEF StatsInv, TypeOK
  <2>3. ReadInv'
    <3>1. \A n \in 1..4 : n < request'.at => n <= request.at
      BY <1>2, <2>1
    <3>2. \A d \in Cache : served[d] <= held[d]
      BY DEF StatsInv, ReadInv
    <3> QED
      BY <1>1, <1>5, <1>6, <2>1, <3>1, <3>2 DEF ReadInv, Ready
  <2>4. ReadyForGoodInv' /\ AnswerHasReward'
    BY <1>1, <2>1 DEF StatsInv, ReadyForGoodInv, AnswerHasReward, Ready
  <2>5. StatsInv'
    BY <1>1, <2>2, <2>3, <2>4, WebStep DEF cache
  <2>6. \A d \in Cache : served[d] \in Nat
    BY <1>2
  <2> QED
    BY <2>1, <2>5, <2>6
<1>8. CASE request.at >= 4
  <2>1. request.at = 4
    BY <1>2, <1>8
  <2>2. request' = NoRequest /\ served' = seen
    BY <1>1, <1>8
  <2>3. \A d \in Cache : \E n \in 1..4 : d = Reads[n]
    BY ReadsOrder DEF Cache
  <2>4. \A d \in Cache : /\ Ready(d) /\ served[d] <= seen[d]
                         /\ d \in {"rxt", "sha3x"} => seen[d] > 0
    BY <1>5, <2>1, <2>3
  <2>5. NoRequest.at = 1 /\ NoRequest.seen = Nothing /\ NoRequest \in [at : 1..4, seen : [Cache -> Height]]
    BY <1>2 DEF NoRequest, Nothing
  <2>6. TypeOK'
    BY <1>1, <1>4, <2>2, <2>5 DEF StatsInv, TypeOK
  <2>7. ReadInv'
    <3>1. \A d \in Cache : Nothing[d] = 0 /\ 0 <= held[d]
      <4>1. \A d \in Cache : held[d] \in Nat
        BY <1>2
      <4> QED
        BY <4>1 DEF Nothing
    <3>2. \A n \in 1..4 : ~(n < 1)
      OBVIOUS
    <3> QED
      BY <1>1, <1>6, <2>2, <2>5, <3>1, <3>2 DEF ReadInv
  <2>8. ReadyForGoodInv' /\ AnswerHasReward'
    BY <1>1, <2>2, <2>4 DEF ReadyForGoodInv, AnswerHasReward, Ready, Cache
  <2>9. StatsInv'
    BY <1>1, <2>6, <2>7, <2>8, WebStep DEF cache
  <2> QED
    BY <1>2, <1>4, <2>2, <2>4, <2>9
<1> QED
  BY <1>2, <1>7, <1>8

LEMMA PanicStep == ASSUME StatsInv, Panic PROVE StatsInv'
<1>1. request' = NoRequest /\ UNCHANGED <<height, made, held, running, tasks, served>>
  BY DEF Panic, cache
<1>2. NoRequest.at = 1 /\ NoRequest.seen = Nothing /\ NoRequest \in [at : 1..4, seen : [Cache -> Height]]
  BY StatsAssumption DEF NoRequest, Nothing, Height
<1>3. TypeOK'
  BY <1>1, <1>2 DEF StatsInv, TypeOK
<1>4. ReadInv'
  <2>1. \A d \in Cache : Nothing[d] = 0 /\ 0 <= held[d]
    BY DEF Nothing, StatsInv, TypeOK, Height
  <2>2. \A n \in 1..4 : ~(n < 1)
    OBVIOUS
  <2> QED
    BY <1>1, <1>2, <2>1, <2>2 DEF StatsInv, ReadInv
<1>5. ReadyForGoodInv' /\ AnswerHasReward'
  BY <1>1 DEF StatsInv, ReadyForGoodInv, AnswerHasReward, Ready
<1> QED
  BY <1>1, <1>3, <1>4, <1>5, WebStep DEF cache

LEMMA StutterStep == ASSUME StatsInv, UNCHANGED vars PROVE StatsInv'
BY DEF StatsInv, TypeOK, TaskInv, Forward, Filled, ReadInv, ReadyForGoodInv, AnswerHasReward,
       Ready, Fetching, vars

LEMMA ServedOnlyByRead ==
    ASSUME [Next]_vars, ~Read
    PROVE  served' = served
BY DEF Next, NewBlock, Enter, Answer, Fails, Make, Write, Panic, vars, web

LEMMA StatsStep == StatsInv /\ [Next]_vars => StatsInv'
<1> SUFFICES ASSUME StatsInv, [Next]_vars PROVE StatsInv'
  OBVIOUS
<1>1. ASSUME NEW t \in tasks, Answer(t) \/ Fails(t) \/ Make(t) \/ Write(t)
      PROVE  StatsInv'
  BY <1>1, AnswerStep, FailsStep, MakeStep, WriteStep
<1> QED
  BY <1>1, NewBlockStep, EnterStep, ReadStep, PanicStep, StutterStep DEF Next
-----------------------------------------------------------------------------
(* Every variable of the service keeps its type; of `running`, that it is  *)
(* set for the jobs that have a goroutine and for no other.                *)
THEOREM StatsTypes == Spec => []TypeOK
<1>1. StatsInv => TypeOK
  BY DEF StatsInv
<1> QED
  BY <1>1, InitInv, StatsStep, PTL DEF Spec

(* Every answer with status 200 has a reward and the difficulties of sha3x *)
(* and rxt, however the fetches of the templates fail.                     *)
THEOREM AnswersHaveReward == Spec => []AnswerHasReward
<1>1. StatsInv => AnswerHasReward
  BY DEF StatsInv
<1> QED
  BY <1>1, InitInv, StatsStep, PTL DEF Spec

(* A service that has answered once answers ever after.                    *)
THEOREM NeverPanicsAgain == Spec => []ReadyForGood
<1>1. StatsInv => ReadyForGood
  <2> SUFFICES ASSUME StatsInv, served["tip"] > 0 PROVE ~Unreadable
    BY DEF ReadyForGood
  <2>1. \A c \in Cache : Ready(c)
    BY DEF StatsInv, ReadyForGoodInv
  <2>2. Reading \in Cache
    BY ReadsOrder DEF StatsInv, TypeOK, Reading, Cache
  <2> QED
    BY <2>1, <2>2 DEF Unreadable, Ready
<1> QED
  BY <1>1, InitInv, StatsStep, PTL DEF Spec

(* No answer is older, in any of its fields, than the one before it.       *)
THEOREM AnswersNeverOlder == Spec => NeverOlder
<1>1. StatsInv /\ [Next]_vars => [\A c \in Cache : served'[c] >= served[c]]_vars
  <2> SUFFICES ASSUME StatsInv, [Next]_vars PROVE \A c \in Cache : served'[c] >= served[c]
    OBVIOUS
  <2>1. \A c \in Cache : served[c] \in Nat
    BY DEF StatsInv, TypeOK, Height
  <2> QED
    BY <2>1, ReadStep, ServedOnlyByRead
<1> QED
  BY <1>1, InitInv, StatsStep, PTL DEF Spec, NeverOlder
=============================================================================
