----------------------------- MODULE MCNodeTools ----------------------------
(* The tools that watch the nodes, for TLC.  They share nothing: a         *)
(* behaviour is one of the rebooters' or one of blockWinners'.             *)
EXTENDS Rebooters, BlockWinners, FiniteSetsExt

VARIABLE tool
vars == <<rebootVars, winnersVars, tool>>

MCBlocks ==
    [algo : {0}, outputs : {<<"pool">>, <<"other", "no_tx_extra", "pool">>, <<>>}]
    \cup [algo : {1}, outputs : {<<"no_features", "pool", "pool">>, <<"WUF">>}]

Init ==
    \/ /\ tool = "reboot" /\ InitReboot
       /\ chain = <<>> /\ results = EmptyBag /\ asked = <<>>
       /\ winners = [pc |-> "off", start |-> 0, end |-> 0, depth |-> 0]
    \/ /\ tool = "winners" /\ InitWinners
       /\ height = [x \in Nodes \cup {Local} |-> Min(Heights)] /\ reboot = Idle("nodeAutoRebooter")

Next ==
    \/ tool = "reboot" /\ NextReboot /\ UNCHANGED <<winnersVars, tool>>
    \/ tool = "winners" /\ NextWinners /\ UNCHANGED <<rebootVars, tool>>

Spec == Init /\ [][Next]_vars

(* Both programs' variables have their types; bestHeight is a height some  *)
(* node had, and blockWinners reads nothing above the tip it was told of,  *)
(* although the chain has grown since.                                     *)
TypeOK == (tool = "reboot" => RebootTypeOK) /\ (tool = "winners" => WinnersTypeOK)
=============================================================================
