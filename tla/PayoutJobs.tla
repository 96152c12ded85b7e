----------------------------- MODULE PayoutJobs -----------------------------
(***************************************************************************)
(* cron fires performPayouts on its hour, in a goroutine of its own,       *)
(* whether or not the run before has ended: a run with many groups, each   *)
(* with its 120 seconds, may well take longer.  PayoutRun's locals are the *)
(* goroutine that is scheduled; other holds the locals of a second one,    *)
(* and Switch schedules that.  running is what keeps the two apart.        *)
(*                                                                         *)
(* One process, which does not die here.  A second process (-run-once next *)
(* to the daemon) has a running of its own: nothing keeps it away.         *)
(***************************************************************************)
EXTENDS MCPayoutRun

VARIABLES
    running,  \* the package variable of that name
    other     \* the locals of the goroutine that waits

Scheduled == [pc |-> pc, rows |-> rows, cache |-> cache, groups |-> groups, g |-> g, i |-> i,
              reply |-> reply, successAmount |-> successAmount,
              failedAmount |-> failedAmount, unsettled |-> unsettled]

JobsInit == Init /\ running = FALSE /\ other = Scheduled

(* Slip: the deferred reset is registered before the check, so a firing    *)
(* that finds a run under way resets the variable as it returns.           *)
FireDeferredFirst ==
    /\ \/ ~running /\ performPayouts /\ running' = TRUE
       \/ running /\ running' = FALSE /\ UNCHANGED vars
    /\ UNCHANGED other

(* A firing: when a run is under way it returns and changes nothing.       *)
Fire ==
    /\ ~running
    /\ performPayouts
    /\ running' = TRUE
    /\ UNCHANGED other

(* A run goes on; the deferred reset is its last step, wherever it ends.   *)
Work ==
    /\ Run
    /\ running' = (running /\ pc' /= "idle")
    /\ UNCHANGED other

Switch ==
    /\ other /= Scheduled
    /\ other' = Scheduled
    /\ pc' = other.pc /\ rows' = other.rows /\ cache' = other.cache /\ groups' = other.groups
    /\ g' = other.g /\ i' = other.i /\ reply' = other.reply
    /\ successAmount' = other.successAmount /\ failedAmount' = other.failedAmount
    /\ unsettled' = other.unsettled
    /\ UNCHANGED <<outside, running>>

(* Everybody else; as in PayoutRun, nobody settles a flag while a run that *)
(* has read the balances is about to read the flags.                       *)
Elsewhere ==
    /\ World
    /\ other.pc = "collect" => flags' = flags
    /\ UNCHANGED <<running, other>>

JobsNext == Fire \/ Work \/ Switch \/ Elsewhere
JobsSpec == JobsInit /\ [][JobsNext]_<<vars, running, other>>
=============================================================================
