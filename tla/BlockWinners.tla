---------------------------- MODULE BlockWinners ----------------------------
(***************************************************************************)
(* blockWinners: who found the last blocks of the chain.  The blocks from  *)
(* start to end are asked for; the node returns some of the first of them, *)
(* and those from the highest one on are asked for again, until end has    *)
(* been seen.  (How many a node returns is the node's affair.)             *)
(*                                                                         *)
(* An output is "other" (no coinbase), "no_features" or "no_tx_extra", or  *)
(* a coinbase whose extra names a pool; "WUF" stands for an extra of that  *)
(* prefix with fewer than the 12 bytes that are cut out of it.             *)
(***************************************************************************)
EXTENDS Integers, Sequences, FiniteSets, Bags

CONSTANTS
    Blocks,     \* the blocks there may be: [algo, outputs]
    Depths,     \* values of -depth
    TopHeight,  \* bound on the height of the tip
    Width,      \* stands for 2^64
    MaxPages    \* bound: an answer after this many is complete

ASSUME WinnersAssumption ==
    /\ TopHeight \in Nat /\ Width \in Nat \ {0} /\ Depths \subseteq Nat /\ MaxPages \in Nat
    /\ \A d \in Depths : d + TopHeight + 1 < Width
    /\ Blocks \subseteq [algo : 0..3, outputs : Seq({"other", "no_features", "no_tx_extra", "WUF", "pool"})]

VARIABLES
    chain,      \* height -> block, with the blocks found while it runs
    winners,    \* locals: pc, start, end, the depth that was asked for
    results,    \* the bag of what is appended: <<prefix, label, height>>
    asked       \* the heights at which the requests began

winnersVars == <<chain, winners, results, asked>>
Labels == {"no_output", "no_features", "no_tx_extra", "WUF", "pool"}
Prefixes == {"RXM", "RXT", "C29", "SHA3X"}

WinnersTypeOK ==
    /\ DOMAIN chain \in {0..t : t \in 0..TopHeight} /\ \A h \in DOMAIN chain : chain[h] \in Blocks
    /\ winners \in [pc : {"off", "page", "printed", "fatal"}, start : 0..Width - 1,
                    end : 0..TopHeight, depth : Depths \cup {0}]
    /\ winners.start <= winners.end \/ winners.depth > winners.end
    /\ IsABag(results) /\ BagToSet(results) \subseteq Prefixes \X Labels \X (0..winners.end)
    /\ asked \in Seq(0..Width - 1)

InitWinners ==
    /\ \E t \in 0..TopHeight : chain \in [0..t -> Blocks]
    /\ winners = [pc |-> "off", start |-> 0, end |-> 0, depth |-> 0]
    /\ results = EmptyBag /\ asked = <<>>

(* The tip, and where to begin: depth blocks back, or for depth 0 at 0.    *)
GetTip ==
    /\ winners.pc = "off"
    /\ \E d \in Depths, e \in DOMAIN chain :
          winners' = [pc |-> "page", end |-> e, depth |-> d,
                      start |-> IF d /= 0 THEN (e - d) % Width ELSE 0]
    /\ UNCHANGED <<chain, results, asked>>

(* Slip: one height too many.                                              *)
makeRangePast(min, max) == [i \in 1..((max - min + 2) % Width) |-> (min + i - 1) % Width]

makeRange(min, max) == [i \in 1..((max - min + 1) % Width) |-> (min + i - 1) % Width]

Prefix == <<"SHA3X", "RXT", "C29">>
Algo(b) == IF b.algo = 0 THEN "RXM" ELSE Prefix[b.algo]

(* Slip: the first coinbase without an extra ends the block.               *)
LookedToGap(outputs) ==
    {i \in DOMAIN outputs : \A j \in 1..(i - 1) : outputs[j] \notin {"pool", "WUF", "no_tx_extra"}}

(* The outputs that are looked at: up to the first coinbase with an extra. *)
Looked(outputs) ==
    {i \in DOMAIN outputs : \A j \in 1..(i - 1) : outputs[j] \notin {"pool", "WUF"}}

(* How often one block is appended to the list of a label.                 *)
Count(b, label) ==
    IF b.outputs = <<>> THEN IF label = "no_output" THEN 1 ELSE 0
    ELSE Cardinality({i \in Looked(b.outputs) : b.outputs[i] = label})

(* What the blocks at the heights in hs append.                            *)
Entries(hs) ==
    LET found == {<<Algo(chain[h]), l, h>> : h \in hs, l \in Labels}
        Added(e) == Count(chain[e[3]], e[2])
    IN  [e \in {x \in found : Added(x) > 0} |-> Added(e)]

(* Slip: the next request begins where this one did.                       *)
AdvanceNot(start, hs) == start

(* start after the blocks at the heights in hs: the highest height so far. *)
Advance(start, hs) == CHOOSE s \in {start} \cup hs : \A h \in {start} \cup hs : h <= s

(* One turn of the loop: the node answers with the blocks it has at the    *)
(* first n heights.  A panic (the cut-out prefix) loses the report.        *)
Page ==
    /\ winners.pc = "page"
    /\ LET range == makeRange(winners.start, winners.end)
       IN  \E n \in IF Len(asked) < MaxPages THEN DOMAIN range ELSE {Len(range)} :
             LET blocks == {range[i] : i \in 1..n} \cap DOMAIN chain
                 found == Entries(blocks)
                 start == Advance(winners.start, blocks)
             IN  /\ blocks /= {}
                 /\ results' = results (+) found
                 /\ winners' = [winners EXCEPT !.start = start,
                       !.pc = IF \E e \in DOMAIN found : e[2] = "WUF" THEN "fatal"
                              ELSE IF start >= winners.end THEN "printed" ELSE "page"]
    /\ asked' = Append(asked, winners.start)
    /\ UNCHANGED chain

(* The node does not answer.                                               *)
Unanswered ==
    /\ winners.pc \in {"off", "page"}
    /\ winners' = [winners EXCEPT !.pc = "fatal"]
    /\ UNCHANGED <<chain, results, asked>>

(* The program is over.                                                    *)
Ended == winners.pc \in {"printed", "fatal"} /\ UNCHANGED winnersVars

NextWinners == GetTip \/ Page \/ Unanswered \/ Ended
-----------------------------------------------------------------------------
(* How often the pool of the block at height h is counted with it; the     *)
(* first height of the range.                                              *)
Copies(e, bag) == IF BagIn(e, bag) THEN bag[e] ELSE 0
Times(h) == Copies(<<Algo(chain[h]), "pool", h>>, results)
First == IF winners.depth = 0 THEN 0 ELSE winners.end - winners.depth

(* A report that is printed names the pool of every block of the range     *)
(* that has one, however the node cut up its answers; for a depth that     *)
(* exceeds the height of the tip (start wraps) only one answer is read,    *)
(* and nothing is claimed.                                                 *)
EveryWinnerNamed ==
    winners.pc = "printed" /\ First >= 0 =>
        \A h \in First..winners.end :
            (\E i \in DOMAIN chain[h].outputs : chain[h].outputs[i] = "pool") =>
                Times(h) >= 1

(* The total of a pool exceeds its blocks by no more than the requests     *)
(* after the first: each begins with a block that is already counted, and  *)
(* counts that one again.                                                  *)
AgainOnlyAtStart ==
    \A h \in DOMAIN chain :
        Times(h) <= 1 + Cardinality({j \in 2..Len(asked) : asked[j] = h})
=============================================================================
