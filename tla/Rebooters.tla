----------------------------- MODULE Rebooters ------------------------------
(***************************************************************************)
(* nodeAutoRebooter and walletAutoRebooter: ask a list of public nodes for *)
(* their height, and restart the local service when it is too far behind   *)
(* the best of them.  Heights grow while the programs ask; uint64          *)
(* subtraction is modulo Modulus.                                          *)
(***************************************************************************)
EXTENDS Integers

CONSTANTS
    Nodes,      \* nodeList
    Heights,    \* bound: the heights that are told apart
    Modulus     \* stands for 2^64

ASSUME RebooterAssumption ==
    Modulus \in Nat /\ Heights \subseteq Nat /\ \A h \in Heights : 2 * h < Modulus

Local == "local"    \* the service that is watched: the node, or the wallet
Programs == {"nodeAutoRebooter", "walletAutoRebooter"}
Margin == [p \in Programs |-> IF p = "nodeAutoRebooter" THEN 5 ELSE 10]

VARIABLES
    height,     \* height of each node, and of the local service
    reboot      \* locals of the program: which one, where it is, whom it
                \* still has to ask, bestHeight, whether all have answered;
                \* seen is the local height it compares with, offline
                \* whether it saw the wallet without connection, before the
                \* public heights when it began

rebootVars == <<height, reboot>>

RebootTypeOK ==
    /\ height \in [Nodes \cup {Local} -> Heights]
    /\ reboot \in [prog : Programs, pc : {"off", "poll", "link", "verdict", "restarted", "fine", "died"},
                   todo : SUBSET Nodes, best : Heights \cup {0}, complete : BOOLEAN,
                   should : BOOLEAN, seen : Heights \cup {0}, offline : BOOLEAN, before : [Nodes -> Heights]]

PublicHeights == [n \in Nodes |-> height[n]]

Idle(prog) ==
    [prog |-> prog, pc |-> "off", todo |-> {}, best |-> 0, complete |-> TRUE,
     should |-> FALSE, seen |-> 0, offline |-> FALSE, before |-> PublicHeights]

InitReboot ==
    /\ height \in [Nodes \cup {Local} -> Heights]
    /\ \E prog \in Programs : reboot = Idle(prog)

Grow(x) ==
    /\ \E h \in Heights : h > height[x] /\ height' = [height EXCEPT ![x] = h]
    /\ UNCHANGED reboot

Begin ==
    /\ reboot.pc \notin {"poll", "link", "verdict"}
    /\ reboot' = [Idle(reboot.prog) EXCEPT !.pc = "poll", !.todo = Nodes]
    /\ UNCHANGED height

(* Slip: the last answer counts, not the highest.                          *)
HigherLast(h) == h

Higher(h) == IF h > reboot.best THEN h ELSE reboot.best

Poll(n) ==
    /\ reboot.pc = "poll" /\ n \in reboot.todo
    /\ reboot' = [reboot EXCEPT !.todo = @ \ {n}, !.best = Higher(height[n])]
    /\ UNCHANGED height

NoAnswer(n) ==
    /\ reboot.pc = "poll" /\ n \in reboot.todo
    /\ reboot' = [reboot EXCEPT !.todo = @ \ {n}, !.complete = FALSE]
    /\ UNCHANGED height

Sub64(a, b) == IF a >= b THEN a - b ELSE a - b + Modulus

(* Slip: the margin is taken off the wrong side.                           *)
BehindByOther(h) == Sub64(h, Margin[reboot.prog]) < reboot.best

Behind(h) == h < Sub64(reboot.best, Margin[reboot.prog])

(* The local height, or no answer, which ends the program.                 *)
Compare ==
    /\ reboot.pc = "poll" /\ reboot.todo = {}
    /\ reboot' \in {[reboot EXCEPT !.pc = IF reboot.prog = "walletAutoRebooter" THEN "link" ELSE "verdict",
                                   !.seen = height[Local], !.should = Behind(height[Local])],
                    [reboot EXCEPT !.pc = "died"]}
    /\ UNCHANGED height

(* GetWalletConnectivity: status 2, another, or an error, which is ignored *)
(* and whose nil result panics.                                            *)
Connectivity ==
    /\ reboot.pc = "link"
    /\ reboot' \in {[reboot EXCEPT !.pc = "verdict"],
                    [reboot EXCEPT !.pc = "verdict", !.should = TRUE, !.offline = TRUE],
                    [reboot EXCEPT !.pc = "died"]}
    /\ UNCHANGED height

(* RestartUnitContext, or a panic for want of systemd.                     *)
Verdict ==
    /\ reboot.pc = "verdict"
    /\ \E pc \in IF reboot.should THEN {"restarted", "died"} ELSE {"fine"} :
           reboot' = [reboot EXCEPT !.pc = pc]
    /\ UNCHANGED height

NextReboot ==
    \/ \E x \in Nodes \cup {Local} : Grow(x)
    \/ Begin \/ Compare \/ Connectivity \/ Verdict
    \/ \E n \in Nodes : Poll(n) \/ NoAnswer(n)
-----------------------------------------------------------------------------
(* A restarted service was offline or too far behind, whatever grew while  *)
(* the nodes were asked and whichever answered, as long as one answered    *)
(* with a height of the margin or more: below that best - margin wraps.    *)
RestartJustified ==
    reboot.pc = "restarted" /\ reboot.best >= Margin[reboot.prog] =>
        reboot.offline \/ \E n \in Nodes : reboot.seen + Margin[reboot.prog] < height[n]

(* A service that is left alone was within the margin of every public node *)
(* when the program began, unless one of them did not answer.              *)
LeftAloneWhenClose ==
    reboot.pc = "fine" /\ reboot.complete =>
        \A n \in Nodes : reboot.seen + Margin[reboot.prog] >= reboot.before[n]

(* nodeAutoRebooter/main.go:10: the node is rebooted if its height is 5    *)
(* under the highest.                                                      *)
RebootedWhenUnder ==
    reboot.pc = "restarted" /\ ~reboot.offline => \E n \in Nodes : reboot.seen + 5 <= height[n]
=============================================================================
