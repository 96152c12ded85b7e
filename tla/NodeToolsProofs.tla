--------------------------- MODULE NodeToolsProofs --------------------------
(***************************************************************************)
(* What the tools that watch the nodes promise: the rebooters for any list *)
(* of nodes and any heights, by an invariant on what best and should stand *)
(* for at each point; blockWinners for any chain, depth and cut of the     *)
(* answers, by one on how far start has come.                              *)
(***************************************************************************)
EXTENDS MCNodeTools, SumTheorems, TLAPS

(* bestHeight is 0 or no more than what some node has by now.              *)
BestIsSomeones == reboot.best = 0 \/ \E n \in Nodes : reboot.best <= height[n]

(* Heights only grow; the nodes that have answered are no higher than      *)
(* bestHeight was worth when the program began.                            *)
BestCovers ==
    /\ \A n \in Nodes : reboot.before[n] <= height[n]
    /\ reboot.pc \notin {"off", "poll"} => reboot.todo = {}
    /\ reboot.pc /= "off" /\ reboot.complete =>
          \A n \in Nodes \ reboot.todo : reboot.before[n] <= reboot.best

(* What was decided is what the comparison said, or the wallet is offline. *)
Decided ==
    /\ reboot.pc = "restarted" => reboot.should
    /\ reboot.pc = "fine" => ~reboot.should
    /\ reboot.pc \in {"link", "verdict", "restarted"} /\ reboot.should =>
          reboot.offline \/ Behind(reboot.seen)
    /\ reboot.pc \in {"link", "verdict", "fine"} /\ ~reboot.should => ~Behind(reboot.seen)

RebootInv == RebootTypeOK /\ BestIsSomeones /\ BestCovers /\ Decided

LEMMA HeightsAreNats == Heights \subseteq Nat /\ Modulus \in Nat
  BY RebooterAssumption DEF RebooterAssumption

LEMMA MarginIsNat == \A p \in Programs : Margin[p] \in Nat \ {0}
  BY DEF Programs, Margin

LEMMA Fields ==
    ASSUME RebootTypeOK
    PROVE  /\ reboot.best \in Heights \cup {0} /\ reboot.seen \in Heights \cup {0}
           /\ reboot.before \in [Nodes -> Heights] /\ reboot.prog \in Programs
           /\ reboot.todo \subseteq Nodes /\ reboot.should \in BOOLEAN
  BY DEF RebootTypeOK

(* All that is compared is a natural number.                               *)
LEMMA Numbers ==
    ASSUME RebootInv
    PROVE  /\ reboot.best \in Nat /\ reboot.seen \in Nat
           /\ \A n \in Nodes : height[n] \in Nat /\ reboot.before[n] \in Nat
  <1>1. RebootTypeOK
    BY DEF RebootInv
  <1>2. /\ reboot.best \in Heights \cup {0} /\ reboot.seen \in Heights \cup {0}
        /\ reboot.before \in [Nodes -> Heights]
    BY <1>1, Fields
  <1>3. \A n \in Nodes : height[n] \in Heights /\ reboot.before[n] \in Heights
    BY <1>1, <1>2 DEF RebootTypeOK
  <1> QED BY <1>2, <1>3, HeightsAreNats

LEMMA RebootInit == InitReboot => RebootInv
  <1> SUFFICES ASSUME InitReboot PROVE RebootInv
    OBVIOUS
  <1>1. PICK prog \in Programs : reboot = Idle(prog)
    BY DEF InitReboot
  <1>2. \A n \in Nodes : height[n] \in Nat
    BY HeightsAreNats DEF InitReboot
  <1>3. RebootTypeOK
    <2>1. height \in [Nodes \cup {Local} -> Heights]
      BY DEF InitReboot
    <2>2. PublicHeights \in [Nodes -> Heights]
      BY <2>1 DEF PublicHeights
    <2> QED BY <1>1, <2>1, <2>2 DEF RebootTypeOK, Idle
  <1>4. BestIsSomeones /\ Decided
    BY <1>1 DEF Idle, BestIsSomeones, Decided
  <1>5. BestCovers
    BY <1>1, <1>2 DEF Idle, BestCovers, PublicHeights
  <1> QED BY <1>3, <1>4, <1>5 DEF RebootInv

LEMMA GrowKeeps ==
    ASSUME RebootInv, NEW x \in Nodes \cup {Local}, Grow(x)
    PROVE  RebootInv'
  <1>1. PICK h \in Heights : h > height[x] /\ height' = [height EXCEPT ![x] = h]
    BY DEF Grow
  <1>2. reboot' = reboot
    BY DEF Grow
  <1>3. RebootTypeOK'
    BY <1>1, <1>2 DEF RebootInv, RebootTypeOK
  <1>4. \A n \in Nodes : height[n] \in Nat /\ height'[n] \in Nat /\ height[n] <= height'[n]
    <2>1. height \in [Nodes \cup {Local} -> Heights] /\ height' \in [Nodes \cup {Local} -> Heights]
      BY <1>3 DEF RebootInv, RebootTypeOK
    <2>2. \A n \in Nodes : height[n] \in Nat /\ height'[n] \in Nat
      BY <2>1, HeightsAreNats
    <2> QED BY <1>1, <2>1, <2>2
  <1>5. reboot.best \in Nat /\ \A n \in Nodes : reboot.before[n] \in Nat
    BY Numbers
  <1>6. BestIsSomeones'
    BY <1>2, <1>4, <1>5 DEF RebootInv, BestIsSomeones
  <1>7. BestCovers'
    BY <1>2, <1>4, <1>5 DEF RebootInv, BestCovers
  <1>8. Decided'
    BY <1>2 DEF RebootInv, Decided, Behind
  <1> QED BY <1>3, <1>6, <1>7, <1>8 DEF RebootInv

LEMMA BeginKeeps ==
    ASSUME RebootInv, Begin
    PROVE  RebootInv'
  <1>1. height' = height
    BY DEF Begin
  <1>2. reboot' = [prog |-> reboot.prog, pc |-> "poll", todo |-> Nodes, best |-> 0, complete |-> TRUE,
                   should |-> FALSE, seen |-> 0, offline |-> FALSE,
                   before |-> PublicHeights]
    BY DEF Begin, Idle
  <1>3. \A n \in Nodes : height[n] \in Nat
    BY Numbers
  <1>4. RebootTypeOK'
    <2>1. height \in [Nodes \cup {Local} -> Heights] /\ RebootTypeOK
      BY DEF RebootInv, RebootTypeOK
    <2>2. PublicHeights \in [Nodes -> Heights] /\ reboot.prog \in Programs
      BY <2>1, Fields DEF PublicHeights
    <2> QED BY <1>1, <1>2, <2>1, <2>2 DEF RebootTypeOK
  <1>5. BestIsSomeones' /\ Decided'
    BY <1>2 DEF BestIsSomeones, Decided
  <1>6. BestCovers'
    <2>1. /\ reboot'.before = PublicHeights /\ reboot'.todo = Nodes
          /\ reboot'.pc = "poll" /\ height' = height
      BY <1>1, <1>2
    <2> QED BY <2>1, <1>3 DEF BestCovers, PublicHeights
  <1> QED BY <1>4, <1>5, <1>6 DEF RebootInv

LEMMA PollKeeps ==
    ASSUME RebootInv, NEW n \in Nodes, Poll(n)
    PROVE  RebootInv'
  <1>1. /\ reboot.pc = "poll" /\ n \in reboot.todo /\ height' = height
        /\ reboot' = [reboot EXCEPT !.todo = @ \ {n}, !.best = Higher(height[n])]
    BY DEF Poll
  <1>2. /\ reboot.best \in Nat /\ Heights \subseteq Nat
        /\ \A m \in Nodes : height[m] \in Nat /\ reboot.before[m] \in Nat
    BY Numbers, HeightsAreNats
  <1>3. Higher(height[n]) \in Heights \cup {0}
    BY DEF Higher, RebootInv, RebootTypeOK
  <1>4. /\ reboot'.pc = "poll" /\ reboot'.todo = reboot.todo \ {n} /\ reboot'.best = Higher(height[n])
        /\ reboot'.complete = reboot.complete /\ reboot'.before = reboot.before
    BY <1>1 DEF RebootInv, RebootTypeOK
  <1>5. RebootTypeOK'
    BY <1>1, <1>3 DEF RebootInv, RebootTypeOK
  <1>6. BestIsSomeones'
    BY <1>1, <1>2, <1>4 DEF Higher, RebootInv, BestIsSomeones
  <1>7. BestCovers'
    BY <1>1, <1>2, <1>4 DEF Higher, RebootInv, BestCovers
  <1>8. Decided'
    BY <1>4 DEF Decided
  <1> QED BY <1>5, <1>6, <1>7, <1>8 DEF RebootInv

LEMMA NoAnswerKeeps ==
    ASSUME RebootInv, NEW n \in Nodes, NoAnswer(n)
    PROVE  RebootInv'
  <1>1. /\ reboot.pc = "poll" /\ height' = height
        /\ reboot' = [reboot EXCEPT !.todo = @ \ {n}, !.complete = FALSE]
    BY DEF NoAnswer
  <1>2. /\ reboot'.pc = "poll" /\ reboot'.best = reboot.best
        /\ reboot'.complete = FALSE /\ reboot'.before = reboot.before
    BY <1>1 DEF RebootInv, RebootTypeOK
  <1>3. RebootTypeOK'
    BY <1>1 DEF RebootInv, RebootTypeOK
  <1>4. BestIsSomeones' /\ BestCovers' /\ Decided'
    BY <1>1, <1>2 DEF RebootInv, BestIsSomeones, BestCovers, Decided
  <1> QED BY <1>3, <1>4 DEF RebootInv

LEMMA CompareKeeps ==
    ASSUME RebootInv, Compare
    PROVE  RebootInv'
  <1>1. reboot.pc = "poll" /\ reboot.todo = {} /\ height' = height
    BY DEF Compare
  <1>2. CASE reboot' = [reboot EXCEPT !.pc = "died"]
    <2>1. RebootTypeOK'
      BY <1>1, <1>2 DEF RebootInv, RebootTypeOK
    <2>2. /\ reboot'.pc = "died" /\ reboot'.best = reboot.best /\ reboot'.todo = {}
          /\ reboot'.complete = reboot.complete /\ reboot'.before = reboot.before
      BY <1>1, <1>2 DEF RebootInv, RebootTypeOK
    <2> QED BY <1>1, <2>1, <2>2 DEF RebootInv, BestIsSomeones, BestCovers, Decided
  <1>3. CASE reboot' = [reboot EXCEPT
                           !.pc = IF reboot.prog = "walletAutoRebooter" THEN "link" ELSE "verdict",
                           !.seen = height[Local], !.should = Behind(height[Local])]
    <2>1. Behind(height[Local]) \in BOOLEAN /\ height[Local] \in Heights
      BY DEF Behind, RebootInv, RebootTypeOK
    <2>2. RebootTypeOK'
      BY <1>1, <1>3, <2>1 DEF RebootInv, RebootTypeOK
    <2>3. /\ reboot'.pc \in {"link", "verdict"} /\ reboot'.best = reboot.best /\ reboot'.todo = {}
          /\ reboot'.complete = reboot.complete /\ reboot'.before = reboot.before
          /\ reboot'.seen = height[Local] /\ reboot'.prog = reboot.prog
          /\ reboot'.should = Behind(height[Local])
      BY <1>1, <1>3 DEF RebootInv, RebootTypeOK
    <2>4. BestIsSomeones' /\ BestCovers'
      BY <1>1, <2>3 DEF RebootInv, BestIsSomeones, BestCovers
    <2>5. Decided'
      BY <2>3 DEF Decided, Behind
    <2> QED BY <2>2, <2>4, <2>5 DEF RebootInv
  <1> QED BY <1>2, <1>3 DEF Compare

LEMMA ConnectivityKeeps ==
    ASSUME RebootInv, Connectivity
    PROVE  RebootInv'
  <1>1. reboot.pc = "link" /\ height' = height
    BY DEF Connectivity
  <1>2. RebootTypeOK'
    BY <1>1 DEF Connectivity, RebootInv, RebootTypeOK
  <1>3. /\ reboot'.best = reboot.best /\ reboot'.todo = reboot.todo /\ reboot'.prog = reboot.prog
        /\ reboot'.complete = reboot.complete /\ reboot'.before = reboot.before
        /\ reboot'.seen = reboot.seen
        /\ \/ reboot'.pc = "verdict" /\ reboot'.should = reboot.should /\ reboot'.offline = reboot.offline
           \/ reboot'.pc = "verdict" /\ reboot'.should /\ reboot'.offline
           \/ reboot'.pc = "died"
    BY <1>1 DEF Connectivity, RebootInv, RebootTypeOK
  <1>4. BestIsSomeones' /\ BestCovers'
    BY <1>1, <1>3 DEF RebootInv, BestIsSomeones, BestCovers
  <1>5. Decided'
    BY <1>1, <1>3 DEF RebootInv, Decided, Behind
  <1> QED BY <1>2, <1>4, <1>5 DEF RebootInv

LEMMA VerdictKeeps ==
    ASSUME RebootInv, Verdict
    PROVE  RebootInv'
  <1>1. reboot.pc = "verdict" /\ height' = height
    BY DEF Verdict
  <1>2. PICK pc \in IF reboot.should THEN {"restarted", "died"} ELSE {"fine"} :
            reboot' = [reboot EXCEPT !.pc = pc]
    BY DEF Verdict
  <1>3. RebootTypeOK'
    BY <1>1, <1>2 DEF RebootInv, RebootTypeOK
  <1>4. /\ reboot'.best = reboot.best /\ reboot'.todo = reboot.todo /\ reboot'.prog = reboot.prog
        /\ reboot'.complete = reboot.complete /\ reboot'.before = reboot.before
        /\ reboot'.seen = reboot.seen /\ reboot'.pc = pc
        /\ reboot'.should = reboot.should /\ reboot'.offline = reboot.offline
    BY <1>2 DEF RebootInv, RebootTypeOK
  <1>5. BestIsSomeones' /\ BestCovers'
    BY <1>1, <1>2, <1>4 DEF RebootInv, BestIsSomeones, BestCovers
  <1>6. Decided'
    BY <1>1, <1>2, <1>4 DEF RebootInv, Decided, Behind
  <1> QED BY <1>3, <1>5, <1>6 DEF RebootInv

LEMMA RebootStep == RebootInv /\ [NextReboot]_rebootVars => RebootInv'
  <1> SUFFICES ASSUME RebootInv, [NextReboot]_rebootVars PROVE RebootInv'
    OBVIOUS
  <1>1. CASE UNCHANGED rebootVars
    BY <1>1 DEF rebootVars, RebootInv, RebootTypeOK, BestIsSomeones, BestCovers, Decided, Behind
  <1> QED
    BY <1>1, GrowKeeps, BeginKeeps, PollKeeps, NoAnswerKeeps, CompareKeeps, ConnectivityKeeps, VerdictKeeps
    DEF NextReboot

LEMMA InvJustifies == RebootInv => RestartJustified
  <1> SUFFICES ASSUME RebootInv, reboot.pc = "restarted", reboot.best >= Margin[reboot.prog], ~reboot.offline
               PROVE  \E n \in Nodes : reboot.seen + Margin[reboot.prog] < height[n]
    BY DEF RestartJustified
  <1>1. /\ reboot.best \in Nat /\ reboot.seen \in Nat /\ reboot.prog \in Programs
        /\ \A n \in Nodes : height[n] \in Nat
    BY Numbers, HeightsAreNats, Fields DEF RebootInv
  <1>2. Margin[reboot.prog] \in Nat \ {0}
    BY <1>1, MarginIsNat
  <1>3. reboot.seen < Sub64(reboot.best, Margin[reboot.prog])
    BY DEF RebootInv, Decided, Behind
  <1>4. reboot.seen < reboot.best - Margin[reboot.prog]
    BY <1>3 DEF Sub64
  <1>5. PICK n \in Nodes : reboot.best <= height[n]
    BY <1>1, <1>2 DEF RebootInv, BestIsSomeones
  <1> QED BY <1>1, <1>2, <1>4, <1>5

LEMMA InvLeaves == RebootInv => LeftAloneWhenClose
  <1> SUFFICES ASSUME RebootInv, reboot.pc = "fine", reboot.complete, NEW n \in Nodes
               PROVE  reboot.seen + Margin[reboot.prog] >= reboot.before[n]
    BY DEF LeftAloneWhenClose
  <1>1. /\ reboot.best \in Nat /\ reboot.seen \in Nat /\ reboot.prog \in Programs
        /\ reboot.before[n] \in Nat /\ Modulus \in Nat
    BY Numbers, HeightsAreNats, Fields DEF RebootInv
  <1>2. Margin[reboot.prog] \in Nat \ {0}
    BY <1>1, MarginIsNat
  <1>3. ~(reboot.seen < Sub64(reboot.best, Margin[reboot.prog]))
    BY DEF RebootInv, Decided, Behind
  <1>4. reboot.seen >= reboot.best - Margin[reboot.prog]
    BY <1>1, <1>2, <1>3 DEF Sub64
  <1>5. reboot.before[n] <= reboot.best
    BY DEF RebootInv, BestCovers
  <1> QED BY <1>1, <1>2, <1>4, <1>5

-----------------------------------------------------------------------------
(* Remainders, as makeRange and the start of the range need them.          *)
LEMMA Remainders ==
    ASSUME NEW w \in Nat \ {0}, NEW x \in Int
    PROVE  /\ 0 <= x /\ x < w => x % w = x
           /\ 0 - w <= x /\ x < 0 => x % w = x + w
           /\ w <= x /\ x < w + w => x % w = x - w
           /\ x % w \in 0..(w - 1)
OBVIOUS

LEMMA InUnion ==
    ASSUME NEW A, NEW B, IsABag(A), IsABag(B)
    PROVE  /\ IsABag(A (+) B)
           /\ BagToSet(A (+) B) = BagToSet(A) \cup BagToSet(B)
           /\ \A e : /\ Copies(e, A) \in Nat
                     /\ Copies(e, A (+) B) = Copies(e, A) + Copies(e, B)
BY DEF IsABag, Copies, BagIn, BagToSet, (+)

LEMMA NoCopies == IsABag(EmptyBag) /\ BagToSet(EmptyBag) = {} /\ \A e : Copies(e, EmptyBag) = 0
BY DEF IsABag, Copies, BagIn, BagToSet, EmptyBag, SetToBag

LEMMA WinnerNumbers ==
    /\ TopHeight \in Nat /\ Width \in Nat \ {0} /\ MaxPages \in Nat
    /\ \A d \in Depths : d \in Nat /\ d + TopHeight + 1 < Width
BY WinnersAssumption DEF WinnersAssumption

LEMMA BlockFacts ==
    ASSUME NEW b \in Blocks
    PROVE  /\ Algo(b) \in Prefixes
           /\ b.outputs \in Seq({"other", "no_features", "no_tx_extra", "WUF", "pool"})
           /\ DOMAIN b.outputs = 1..Len(b.outputs) /\ Len(b.outputs) \in Nat
<1>1. b \in [algo : 0..3, outputs : Seq({"other", "no_features", "no_tx_extra", "WUF", "pool"})]
  BY WinnersAssumption DEF WinnersAssumption
<1>2. b.algo \in 0..3 /\ b.outputs \in Seq({"other", "no_features", "no_tx_extra", "WUF", "pool"})
  BY <1>1
<1>3. Algo(b) \in Prefixes
  <2>1. b.algo = 0 \/ b.algo = 1 \/ b.algo = 2 \/ b.algo = 3
    BY <1>2
  <2>2. Prefix[1] = "SHA3X" /\ Prefix[2] = "RXT" /\ Prefix[3] = "C29"
    BY DEF Prefix
  <2> QED
    BY <2>1, <2>2 DEF Algo, Prefixes
<1> QED
  BY <1>2, <1>3

(* The outputs of a block that a label counts.                             *)
Hits(b, label) == {i \in Looked(b.outputs) : b.outputs[i] = label}

LEMMA HitsFacts ==
    ASSUME NEW b \in Blocks, NEW l
    PROVE  /\ IsFiniteSet(Hits(b, l))
           /\ Cardinality(Hits(b, l)) \in Nat
           /\ Cardinality(Hits(b, l)) = 0 <=> Hits(b, l) = {}
           /\ Count(b, l) \in Nat
           /\ b.outputs /= <<>> => Count(b, l) = Cardinality(Hits(b, l))
<1>1. Hits(b, l) \subseteq 1..Len(b.outputs) /\ Len(b.outputs) \in Nat
  BY BlockFacts DEF Hits, Looked
<1>2. IsFiniteSet(1..Len(b.outputs))
  BY <1>1, FS_Interval
<1>3. IsFiniteSet(Hits(b, l))
  BY <1>1, <1>2, FS_Subset
<1>4. Cardinality(Hits(b, l)) \in Nat /\ (Cardinality(Hits(b, l)) = 0 <=> Hits(b, l) = {})
  BY <1>3, FS_CardinalityType, FS_EmptySet
<1> QED
  BY <1>3, <1>4 DEF Count, Hits

(* Of a block, one pool is counted, once.                                  *)
LEMMA OnePool == ASSUME NEW b \in Blocks PROVE Count(b, "pool") \in {0, 1}
<1>1. \A i, j \in Hits(b, "pool") : i = j
  <2> SUFFICES ASSUME NEW i \in Hits(b, "pool"), NEW j \in Hits(b, "pool"), i /= j PROVE FALSE
    OBVIOUS
  <2>1. /\ i \in 1..Len(b.outputs) /\ j \in 1..Len(b.outputs) /\ Len(b.outputs) \in Nat
        /\ b.outputs[i] = "pool" /\ b.outputs[j] = "pool"
        /\ \A m \in 1..(i - 1) : b.outputs[m] \notin {"pool", "WUF"}
        /\ \A m \in 1..(j - 1) : b.outputs[m] \notin {"pool", "WUF"}
    BY BlockFacts DEF Hits, Looked
  <2>2. i \in 1..(j - 1) \/ j \in 1..(i - 1)
    BY <2>1
  <2> QED
    BY <2>1, <2>2
<1>2. Hits(b, "pool") = {} \/ \E i : Hits(b, "pool") = {i}
  BY <1>1
<1>3. Cardinality(Hits(b, "pool")) \in {0, 1}
  BY <1>2, FS_EmptySet, FS_Singleton
<1> QED
  BY <1>3, HitsFacts DEF Count

(* A block with a pool has one counted, or the cut-out prefix before it.   *)
LEMMA PoolOrPanic ==
    ASSUME NEW b \in Blocks, \E i \in DOMAIN b.outputs : b.outputs[i] = "pool"
    PROVE  Count(b, "pool") > 0 \/ Count(b, "WUF") > 0
<1> DEFINE B == {i \in DOMAIN b.outputs : b.outputs[i] \in {"pool", "WUF"}}
<1>0. DOMAIN b.outputs = 1..Len(b.outputs) /\ Len(b.outputs) \in Nat
  BY BlockFacts
<1>1. PICK m \in B : \A k \in B : m <= k
  <2>1. B \in SUBSET Nat /\ B /= {}
    BY <1>0
  <2> HIDE DEF B
  <2> QED
    BY <2>1, LeastNumber
<1>2. m \in Looked(b.outputs)
  BY <1>0, <1>1 DEF Looked
<1>3. m \in Hits(b, "pool") \/ m \in Hits(b, "WUF")
  BY <1>1, <1>2 DEF Hits
<1>4. b.outputs /= <<>>
  BY <1>0, <1>1
<1> QED
  BY <1>3, <1>4, HitsFacts

Chained == DOMAIN chain \in {0..t : t \in 0..TopHeight} /\ \A h \in DOMAIN chain : chain[h] \in Blocks

(* What some blocks append: of each label what each of them counts of it.  *)
LEMMA EntriesFacts ==
    ASSUME Chained, NEW hs \in SUBSET DOMAIN chain
    PROVE  /\ IsABag(Entries(hs))
           /\ BagToSet(Entries(hs)) \subseteq Prefixes \X Labels \X hs
           /\ \A h \in DOMAIN chain, l \in Labels :
                 Copies(<<Algo(chain[h]), l, h>>, Entries(hs)) = IF h \in hs THEN Count(chain[h], l) ELSE 0
           /\ \A h \in hs, l \in Labels :
                 Count(chain[h], l) > 0 => \E e \in DOMAIN Entries(hs) : e[2] = l
<1> DEFINE found == {<<Algo(chain[h]), l, h>> : h \in hs, l \in Labels}
           Added(e) == Count(chain[e[3]], e[2])
           D == {x \in found : Added(x) > 0}
<1>1. Entries(hs) = [e \in D |-> Added(e)]
  BY DEF Entries
<1>2. \A h \in hs : chain[h] \in Blocks /\ Algo(chain[h]) \in Prefixes
  BY BlockFacts DEF Chained
<1>3. \A e \in found : e \in Prefixes \X Labels \X hs /\ Added(e) \in Nat
  BY <1>2, HitsFacts
<1>4. \A h \in DOMAIN chain, l \in Labels :
         <<Algo(chain[h]), l, h>> \in found <=> h \in hs
  OBVIOUS
<1>5. \A h, l : Added(<<Algo(chain[h]), l, h>>) = Count(chain[h], l)
  OBVIOUS
<1>6. IsABag(Entries(hs)) /\ BagToSet(Entries(hs)) = D
  <2> HIDE DEF found, Added
  <2> QED
    BY <1>1, <1>3 DEF IsABag, BagToSet
<1>7. \A h \in DOMAIN chain, l \in Labels : Count(chain[h], l) \in Nat
  BY HitsFacts DEF Chained
<1>8. ASSUME NEW h \in DOMAIN chain, NEW l \in Labels
      PROVE  Copies(<<Algo(chain[h]), l, h>>, Entries(hs)) = IF h \in hs THEN Count(chain[h], l) ELSE 0
  <2> DEFINE e == <<Algo(chain[h]), l, h>>
  <2>1. (e \in found <=> h \in hs) /\ Added(e) = Count(chain[h], l) /\ Count(chain[h], l) \in Nat
    BY <1>4, <1>5, <1>7
  <2> HIDE DEF found, Added, e
  <2>2. Copies(e, Entries(hs)) = IF e \in D THEN Added(e) ELSE 0
    BY <1>1, <1>6 DEF Copies, BagIn
  <2>3. Copies(e, Entries(hs)) = IF h \in hs THEN Count(chain[h], l) ELSE 0
    BY <2>1, <2>2
  <2> QED
    BY <2>3 DEF e
<1>9. ASSUME NEW h \in hs, NEW l \in Labels, Count(chain[h], l) > 0
      PROVE  \E e \in DOMAIN Entries(hs) : e[2] = l
  <2> DEFINE e == <<Algo(chain[h]), l, h>>
  <2>1. e \in found /\ Added(e) > 0 /\ e[2] = l
    BY <1>9
  <2>2. e \in D
    BY <2>1
  <2> QED
    BY <1>6, <2>1, <2>2 DEF BagToSet
<1> QED
  BY <1>3, <1>6, <1>8, <1>9
(* While the range has not wrapped around, start moves through it towards  *)
(* end; when it has, it is above every block, and one answer is read.      *)
Paging ==
    /\ Chained
    /\ winners.pc = "off" => asked = <<>>
    /\ asked = <<>> => results = EmptyBag
    /\ winners.pc \in {"page", "printed"} =>
          /\ winners.end \in DOMAIN chain /\ winners.depth \in Depths
          /\ First >= 0 => First <= winners.start /\ winners.start <= winners.end
          /\ First >= 0 /\ asked = <<>> => winners.start = First
          /\ First < 0 => winners.start = First + Width
    /\ winners.pc = "page" /\ asked /= <<>> => First >= 0
    /\ winners.pc = "printed" => asked /= <<>> /\ winners.start >= winners.end

HasPool(h) == \E i \in DOMAIN chain[h].outputs : chain[h].outputs[i] = "pool"

(* The blocks from the first height up to start are counted, those above   *)
(* it are not, and none is counted again but by a request that began there.*)
Tallied ==
    /\ winners.pc \in {"page", "printed"} /\ asked /= <<>> /\ First >= 0 =>
          \A h \in First..winners.start : HasPool(h) => Times(h) >= 1
    /\ winners.pc = "page" => \A h \in DOMAIN chain : h > winners.start => Times(h) = 0
    /\ AgainOnlyAtStart

WinnersInv == WinnersTypeOK /\ Paging /\ Tallied

LEMMA ChainFacts ==
    ASSUME Chained, NEW e \in DOMAIN chain
    PROVE  e \in 0..TopHeight /\ 0..e \subseteq DOMAIN chain
<1>1. PICK t \in 0..TopHeight : DOMAIN chain = 0..t
  BY DEF Chained
<1> QED
  BY <1>1, WinnerNumbers

LEMMA Beyond ==
    ASSUME NEW w \in Nat \ {0}, NEW s \in Nat, NEW i \in Nat, w <= s + i - 1, s + i - 1 < w + w
    PROVE  (s + i - 1) % w = s + i - 1 - w
<1>1. \A x \in Int : w <= x /\ x < w + w => x % w = x - w
  BY Remainders
<1>2. s + i - 1 \in Int
  OBVIOUS
<1> QED
  BY <1>1, <1>2

(* The range that is asked for: from start to end, or around 0.            *)
LEMMA RangeAhead ==
    ASSUME NEW s \in Nat, NEW e \in Nat, s <= e, e + 1 < Width
    PROVE  /\ DOMAIN makeRange(s, e) = 1..(e - s + 1)
           /\ Len(makeRange(s, e)) = e - s + 1
           /\ \A i \in 1..(e - s + 1) : makeRange(s, e)[i] = s + i - 1
<1>1. (e - s + 1) % Width = e - s + 1
  <2>1. e - s + 1 \in Int /\ 0 <= e - s + 1 /\ e - s + 1 < Width /\ Width \in Nat \ {0}
    BY WinnerNumbers
  <2> QED
    BY <2>1, Remainders
<1>2. ASSUME NEW i \in 1..(e - s + 1) PROVE (s + i - 1) % Width = s + i - 1
  <2>1. s + i - 1 \in Int /\ 0 <= s + i - 1 /\ s + i - 1 < Width /\ Width \in Nat \ {0}
    BY WinnerNumbers
  <2> QED
    BY <2>1, Remainders
<1>3. makeRange(s, e) = [i \in 1..(e - s + 1) |-> (s + i - 1) % Width]
  BY <1>1 DEF makeRange
<1>4. e - s + 1 \in Nat
  OBVIOUS
<1> QED
  BY <1>2, <1>3, <1>4

LEMMA RangeAround ==
    ASSUME NEW d \in Nat, NEW e \in Nat, NEW s \in Nat, s = e - d + Width, e < d, d + e + 1 < Width
    PROVE  /\ DOMAIN makeRange(s, e) = 1..(d + 1)
           /\ Len(makeRange(s, e)) = d + 1
           /\ \A i \in 1..(d + 1) : makeRange(s, e)[i] \in 0..e \/ makeRange(s, e)[i] >= s
<1>0. Width \in Nat \ {0}
  BY WinnerNumbers
<1>1. (e - s + 1) % Width = d + 1
  <2>1. e - s + 1 \in Int /\ 0 - Width <= e - s + 1 /\ e - s + 1 < 0 /\ e - s + 1 + Width = d + 1
    BY <1>0
  <2> QED
    BY <1>0, <2>1, Remainders
<1>2. ASSUME NEW i \in 1..(d + 1)
      PROVE  (s + i - 1) % Width = IF s + i - 1 < Width THEN s + i - 1 ELSE s + i - 1 - Width
  <2>1. s + i - 1 \in Int /\ 0 <= s + i - 1 /\ s + i - 1 < Width + Width
    BY <1>0
  <2>2. CASE s + i - 1 < Width
    BY <1>0, <2>1, <2>2, Remainders
  <2>3. CASE Width <= s + i - 1
    <3>2. (s + i - 1) % Width = s + i - 1 - Width
      BY <1>0, <2>1, <2>3, Beyond
    <3>3. ~(s + i - 1 < Width)
      BY <1>0, <2>1, <2>3
    <3> QED
      BY <3>2, <3>3
  <2>4. s + i - 1 < Width \/ Width <= s + i - 1
    BY <1>0, <2>1
  <2> QED
    BY <2>2, <2>3, <2>4
<1>3. makeRange(s, e) = [i \in 1..(d + 1) |-> (s + i - 1) % Width]
  BY <1>1 DEF makeRange
<1>4. \A i \in 1..(d + 1) : makeRange(s, e)[i] = IF s + i - 1 < Width THEN s + i - 1 ELSE s + i - 1 - Width
  BY <1>2, <1>3
<1>5. \A i \in 1..(d + 1) : s + i - 1 >= s /\ (s + i - 1 >= Width => s + i - 1 - Width \in 0..e)
  BY <1>0
<1>6. DOMAIN makeRange(s, e) = 1..(d + 1) /\ Len(makeRange(s, e)) = d + 1
  BY <1>3
<1> QED
  BY <1>0, <1>4, <1>5, <1>6

(* The highest height so far.                                              *)
LEMMA AdvanceFacts ==
    ASSUME NEW s \in Nat, NEW hs \in SUBSET Nat, NEW m \in {s} \cup hs, \A h \in {s} \cup hs : h <= m
    PROVE  Advance(s, hs) = m
<1>1. \A x \in {s} \cup hs : (\A h \in {s} \cup hs : h <= x) => x = m
  OBVIOUS
<1> QED
  BY <1>1 DEF Advance

(* What an answer is: in the range, the blocks from start to a new start;  *)
(* when the range has wrapped around, some blocks up to end.               *)
Locals == [pc : {"off", "page", "printed", "fatal"}, start : 0..Width - 1,
           end : 0..TopHeight, depth : Depths \cup {0}]
Answered(hs, start) ==
    /\ hs \subseteq DOMAIN chain /\ hs \subseteq 0..winners.end /\ start \in 0..(Width - 1)
    /\ First >= 0 => start \in winners.start..winners.end /\ hs = winners.start..start
    /\ First < 0 => start = winners.start

LEMMA PageFacts ==
    ASSUME WinnersInv, Page
    PROVE  /\ chain' = chain /\ asked' = Append(asked, winners.start)
           /\ winners'.end = winners.end /\ winners'.depth = winners.depth
           /\ winners' \in Locals
           /\ \E hs \in SUBSET DOMAIN chain :
                 /\ Answered(hs, winners'.start)
                 /\ results' = results (+) Entries(hs)
                 /\ winners'.pc = IF \E e \in DOMAIN Entries(hs) : e[2] = "WUF" THEN "fatal"
                                  ELSE IF winners'.start >= winners.end THEN "printed" ELSE "page"
<1> DEFINE s == winners.start
           e == winners.end
           d == winners.depth
           range == makeRange(s, e)
<1>1. /\ winners.pc = "page" /\ chain' = chain /\ asked' = Append(asked, s)
      /\ s \in 0..(Width - 1) /\ e \in 0..TopHeight /\ d \in Depths /\ e \in DOMAIN chain /\ Chained
  BY DEF WinnersInv, WinnersTypeOK, Paging, Page
<1>2. winners \in Locals
  BY DEF WinnersInv, WinnersTypeOK, Locals
<1>3. /\ d \in Nat /\ d + e + 1 < Width /\ e + 1 < Width /\ e \in Nat /\ s \in Nat
      /\ Width \in Nat /\ d + TopHeight + 1 < Width
  BY <1>1, WinnerNumbers
<1>4. PICK n \in IF Len(asked) < MaxPages THEN DOMAIN range ELSE {Len(range)} :
         LET blocks == {range[i] : i \in 1..n} \cap DOMAIN chain
             found == Entries(blocks)
             start == Advance(s, blocks)
         IN  /\ results' = results (+) found
             /\ winners' = [winners EXCEPT !.start = start,
                   !.pc = IF \E x \in DOMAIN found : x[2] = "WUF" THEN "fatal"
                          ELSE IF start >= e THEN "printed" ELSE "page"]
  BY DEF Page
<1> DEFINE hs == {range[i] : i \in 1..n} \cap DOMAIN chain
           start == Advance(s, hs)
<1>5. /\ results' = results (+) Entries(hs)
      /\ winners'.start = start /\ winners'.end = e /\ winners'.depth = d
      /\ winners'.pc = IF \E x \in DOMAIN Entries(hs) : x[2] = "WUF" THEN "fatal"
                       ELSE IF start >= e THEN "printed" ELSE "page"
  BY <1>2, <1>4 DEF Locals
<1>6. DOMAIN chain \subseteq 0..TopHeight /\ 0..e \subseteq DOMAIN chain
  BY <1>1, ChainFacts
<1>7. Answered(hs, start)
  <2>1. First = IF d = 0 THEN 0 ELSE e - d
    BY DEF First
  <2>4. First \in Int
    BY <1>3, <2>1
  <2>2. CASE First >= 0
    <3>1. s <= e
      BY <1>1, <2>2 DEF WinnersInv, Paging
    <3>2. DOMAIN range = 1..(e - s + 1) /\ Len(range) = e - s + 1 /\ \A i \in 1..(e - s + 1) : range[i] = s + i - 1
      BY <1>3, <3>1, RangeAhead
    <3> HIDE DEF s, e, d, range
    <3>3. n \in 1..(e - s + 1)
      BY <1>3, <1>4, <3>1, <3>2
    <3>4. {range[i] : i \in 1..n} = s..(s + n - 1)
      <4>1. \A i \in 1..n : i \in 1..(e - s + 1) /\ range[i] = s + i - 1
        BY <1>3, <3>2, <3>3
      <4>2. \A i \in 1..n : range[i] \in s..(s + n - 1)
        BY <1>3, <3>3, <4>1
      <4>3. ASSUME NEW h \in s..(s + n - 1) PROVE h \in {range[i] : i \in 1..n}
        <5>1. h - s + 1 \in 1..n /\ s + (h - s + 1) - 1 = h
          BY <1>3, <3>3
        <5> QED
          BY <4>1, <5>1
      <4> QED
        BY <4>2, <4>3
    <3>5. s..(s + n - 1) \subseteq 0..e /\ s + n - 1 \in s..e /\ s + n - 1 \in 0..(Width - 1)
      BY <1>3, <3>3
    <3>6. hs = s..(s + n - 1)
      BY <1>6, <3>4, <3>5
    <3>7. start = s + n - 1
      <4>1. /\ s..(s + n - 1) \in SUBSET Nat /\ s + n - 1 \in {s} \cup (s..(s + n - 1))
            /\ \A h \in {s} \cup (s..(s + n - 1)) : h <= s + n - 1
        BY <1>3, <3>3
      <4> QED
        BY <1>3, <3>6, <4>1, AdvanceFacts
    <3> HIDE DEF hs, start
    <3>8. hs \subseteq DOMAIN chain
      BY <1>6, <3>5, <3>6
    <3> QED
      BY <2>2, <2>4, <3>5, <3>6, <3>7, <3>8 DEF Answered, s, e
  <2>3. CASE First < 0
    <3>1. e < d /\ s = e - d + Width
      BY <1>1, <1>3, <2>1, <2>3 DEF WinnersInv, Paging
    <3>2. /\ DOMAIN range = 1..(d + 1) /\ Len(range) = d + 1
          /\ \A i \in 1..(d + 1) : range[i] \in 0..e \/ range[i] >= s
      BY <1>3, <3>1, RangeAround
    <3> HIDE DEF s, e, d, range
    <3>3. n \in 1..(d + 1)
      BY <1>3, <1>4, <3>1, <3>2
    <3>4. s > TopHeight
      BY <1>3, <3>1, WinnerNumbers
    <3>5. \A h \in DOMAIN chain : h < s /\ h \in Nat
      BY <1>6, <3>4, WinnerNumbers, <1>3
    <3>6. hs \subseteq 0..e
      <4> SUFFICES ASSUME NEW i \in 1..n, range[i] \in DOMAIN chain PROVE range[i] \in 0..e
        OBVIOUS
      <4>1. i \in 1..(d + 1)
        BY <1>3, <3>3
      <4>2. range[i] < s /\ range[i] \in Nat
        BY <3>5
      <4> QED
        BY <1>3, <3>2, <4>1, <4>2
    <3>7. start = s
      <4>1. hs \in SUBSET Nat /\ \A h \in {s} \cup hs : h <= s
        BY <1>3, <3>5
      <4> HIDE DEF hs
      <4> QED
        BY <1>3, <4>1, AdvanceFacts
    <3> QED
      BY <1>1, <2>3, <2>4, <3>6, <3>7 DEF Answered, s, e
  <2> QED
    BY <2>2, <2>3, <2>4
<1>8. hs \in SUBSET DOMAIN chain
  OBVIOUS
<1>9. winners' \in Locals
  <2>1. start \in 0..(Width - 1)
    BY <1>7 DEF Answered
  <2> HIDE DEF hs, start
  <2> QED
    BY <1>2, <1>4, <2>1 DEF Locals, hs, start
<1> HIDE DEF hs, start, range
<1> QED
  BY <1>1, <1>5, <1>7, <1>8, <1>9

(* How often a height began a request after the first.                     *)
Asked(h) == {j \in 2..Len(asked) : asked[j] = h}

LEMMA AskedNat ==
    ASSUME NEW S, asked \in Seq(S), NEW h
    PROVE  IsFiniteSet(Asked(h)) /\ Cardinality(Asked(h)) \in Nat
<1>1. IsFiniteSet(2..Len(asked)) /\ Asked(h) \subseteq 2..Len(asked)
  BY FS_Interval DEF Asked
<1> QED
  BY <1>1, FS_Subset, FS_CardinalityType

LEMMA AskedMore ==
    ASSUME NEW S, asked \in Seq(S), NEW s \in S, asked' = Append(asked, s), NEW h
    PROVE  /\ Cardinality(Asked(h)') \in Nat
           /\ Cardinality(Asked(h)') >= Cardinality(Asked(h))
           /\ asked /= <<>> /\ s = h => Cardinality(Asked(h)') = Cardinality(Asked(h)) + 1
<1> DEFINE n == Len(asked)
<1>1. /\ n \in Nat /\ Len(asked') = n + 1 /\ asked'[n + 1] = s /\ (asked /= <<>> => n > 0)
      /\ \A j \in 1..n : asked'[j] = asked[j]
  OBVIOUS
<1>2. IsFiniteSet(Asked(h)) /\ Cardinality(Asked(h)) \in Nat /\ n + 1 \notin Asked(h)
  <2>1. Asked(h) \subseteq 2..n /\ n + 1 \notin 2..n
    BY <1>1 DEF Asked
  <2> QED
    BY <2>1, AskedNat
<1>3. Asked(h)' = IF n > 0 /\ s = h THEN Asked(h) \cup {n + 1} ELSE Asked(h)
  <2>1. \A j : j \in 2..(n + 1) <=> j \in 2..n \/ (n > 0 /\ j = n + 1)
    BY <1>1
  <2>2. \A j \in 2..n : asked'[j] = asked[j]
    BY <1>1
  <2>3. Asked(h)' = {j \in 2..(n + 1) : asked'[j] = h}
    BY <1>1 DEF Asked
  <2> HIDE DEF n
  <2>4. Asked(h) = {j \in 2..n : asked[j] = h}
    BY DEF Asked, n
  <2> QED
    BY <1>1, <2>1, <2>2, <2>3, <2>4
<1>4. Cardinality(Asked(h) \cup {n + 1}) = Cardinality(Asked(h)) + 1
  BY <1>2, FS_AddElement
<1> QED
  BY <1>1, <1>2, <1>3, <1>4

LEMMA WinnersInit == InitWinners => WinnersInv
<1> SUFFICES ASSUME InitWinners PROVE WinnersInv
  OBVIOUS
<1>1. /\ winners.pc = "off" /\ winners.start = 0 /\ winners.end = 0 /\ winners.depth = 0
      /\ results = EmptyBag /\ asked = <<>> /\ winners \in Locals
  BY WinnerNumbers DEF InitWinners, Locals
<1>2. Chained
  BY DEF InitWinners, Chained
<1>3. WinnersTypeOK
  BY <1>1, <1>2, NoCopies DEF WinnersTypeOK, Chained, Locals
<1>4. Paging
  BY <1>1, <1>2 DEF Paging
<1>5. AgainOnlyAtStart
  <2>1. \A h : Times(h) = 0
    BY <1>1, NoCopies DEF Times
  <2>2. \A h : Cardinality(Asked(h)) \in Nat
    BY <1>1, AskedNat
  <2>3. \A h : Times(h) <= 1 + Cardinality(Asked(h))
    BY <2>1, <2>2
  <2> QED
    BY <2>3 DEF AgainOnlyAtStart, Asked
<1> QED
  BY <1>1, <1>3, <1>4, <1>5 DEF WinnersInv, Tallied

LEMMA GetTipKeeps ==
    ASSUME WinnersInv, GetTip
    PROVE  WinnersInv'
<1>1. PICK d \in Depths, e \in DOMAIN chain :
         winners' = [pc |-> "page", end |-> e, depth |-> d,
                     start |-> IF d /= 0 THEN (e - d) % Width ELSE 0]
  BY DEF GetTip
<1>2. /\ chain' = chain /\ results' = results /\ asked' = asked
      /\ asked = <<>> /\ results = EmptyBag /\ Chained
  BY DEF GetTip, WinnersInv, Paging
<1>3. /\ e \in 0..TopHeight /\ d \in Nat /\ d + TopHeight + 1 < Width /\ Width \in Nat \ {0}
      /\ TopHeight \in Nat
  BY <1>2, ChainFacts, WinnerNumbers
<1> DEFINE start == IF d /= 0 THEN (e - d) % Width ELSE 0
<1>4. /\ start \in 0..(Width - 1)
      /\ e >= d => start = IF d = 0 THEN 0 ELSE e - d
      /\ e < d => start = e - d + Width
  <2>1. CASE d = 0
    BY <1>3, <2>1
  <2>2. CASE d /= 0 /\ e >= d
    <3>1. e - d \in Int /\ 0 <= e - d /\ e - d < Width
      BY <1>3, <2>2
    <3>2. (e - d) % Width = e - d
      BY <1>3, <3>1, Remainders
    <3> QED
      BY <1>3, <2>2, <3>1, <3>2
  <2>3. CASE d /= 0 /\ e < d
    <3>1. e - d \in Int /\ 0 - Width <= e - d /\ e - d < 0
      BY <1>3, <2>3
    <3>2. (e - d) % Width = e - d + Width
      BY <1>3, <3>1, Remainders
    <3> QED
      BY <1>3, <2>3, <3>1, <3>2
  <2> QED
    BY <1>3, <2>1, <2>2, <2>3
<1>5. winners'.pc = "page" /\ winners'.end = e /\ winners'.depth = d /\ winners'.start = start
  BY <1>1
<1>6. winners' \in Locals
  <2> HIDE DEF start
  <2> QED
    BY <1>1, <1>3, <1>4 DEF Locals, start
<1> HIDE DEF start
<1>7. First' = (IF d = 0 THEN 0 ELSE e - d) /\ First' \in Int
  BY <1>3, <1>5 DEF First
<1>8. WinnersTypeOK'
  BY <1>2, <1>3, <1>4, <1>5, <1>6, NoCopies DEF WinnersInv, WinnersTypeOK, Locals
<1>9. Paging'
  BY <1>2, <1>3, <1>4, <1>5, <1>7 DEF Paging, Chained
<1>10. Tallied'
  <2>1. \A h : Times(h)' = 0
    BY <1>2, NoCopies DEF Times
  <2>2. AgainOnlyAtStart'
    <3>1. \A h : Cardinality(Asked(h)) \in Nat
      BY <1>2, AskedNat
    <3>2. \A h : Asked(h)' = Asked(h)
      BY <1>2 DEF Asked
    <3>3. \A h : Times(h)' <= 1 + Cardinality(Asked(h)')
      BY <2>1, <3>1, <3>2
    <3> QED
      BY <3>3 DEF AgainOnlyAtStart, Asked
  <2> QED
    BY <1>2, <1>5, <2>1, <2>2 DEF Tallied
<1> QED
  BY <1>8, <1>9, <1>10 DEF WinnersInv

LEMMA QuietKeeps ==
    ASSUME WinnersInv, Unanswered \/ Ended \/ UNCHANGED winnersVars
    PROVE  WinnersInv'
<1>1. chain' = chain /\ results' = results /\ asked' = asked
  BY DEF Unanswered, Ended, winnersVars
<1>2. /\ winners'.start = winners.start /\ winners'.end = winners.end /\ winners'.depth = winners.depth
      /\ winners' \in Locals
      /\ winners'.pc = winners.pc \/ winners'.pc = "fatal"
  BY DEF WinnersInv, WinnersTypeOK, Locals, Unanswered, Ended, winnersVars
<1>3. First' = First
  BY <1>2 DEF First
<1>4. WinnersTypeOK'
  BY <1>1, <1>2 DEF WinnersInv, WinnersTypeOK, Locals
<1>5. Paging'
  BY <1>1, <1>2, <1>3 DEF WinnersInv, Paging, Chained
<1>6. \A h : Times(h)' = Times(h) /\ HasPool(h)' = HasPool(h)
  BY <1>1 DEF Times, HasPool
<1>7. AgainOnlyAtStart'
  BY <1>1, <1>6 DEF WinnersInv, Tallied, AgainOnlyAtStart
<1> QED
  BY <1>1, <1>2, <1>3, <1>4, <1>5, <1>6, <1>7 DEF WinnersInv, Tallied

(* A page adds what its blocks append, and each of them has one pool.      *)
LEMMA TimesAfter ==
    ASSUME WinnersInv, chain' = chain, NEW hs \in SUBSET DOMAIN chain, results' = results (+) Entries(hs)
    PROVE  /\ IsABag(results')
           /\ BagToSet(results') \subseteq BagToSet(results) \cup (Prefixes \X Labels \X hs)
           /\ \A h \in DOMAIN chain :
                 /\ Times(h) \in Nat
                 /\ Times(h)' = Times(h) + IF h \in hs THEN Count(chain[h], "pool") ELSE 0
<1>1. IsABag(results) /\ Chained /\ "pool" \in Labels
  BY DEF WinnersInv, WinnersTypeOK, Paging, Labels
<1>2. /\ IsABag(Entries(hs))
      /\ BagToSet(Entries(hs)) \subseteq Prefixes \X Labels \X hs
      /\ \A h \in DOMAIN chain : Copies(<<Algo(chain[h]), "pool", h>>, Entries(hs))
                                    = IF h \in hs THEN Count(chain[h], "pool") ELSE 0
  BY <1>1, EntriesFacts
<1>3. /\ IsABag(results') /\ BagToSet(results') = BagToSet(results) \cup BagToSet(Entries(hs))
      /\ \A e : /\ Copies(e, results) \in Nat
                /\ Copies(e, results') = Copies(e, results) + Copies(e, Entries(hs))
  BY <1>1, <1>2, InUnion
<1>4. \A h \in DOMAIN chain : /\ Times(h) = Copies(<<Algo(chain[h]), "pool", h>>, results)
                             /\ Times(h)' = Copies(<<Algo(chain[h]), "pool", h>>, results')
  BY DEF Times
<1> QED
  BY <1>2, <1>3, <1>4

LEMMA PageKeeps ==
    ASSUME WinnersInv, Page
    PROVE  WinnersInv'
<1>1. /\ chain' = chain /\ asked' = Append(asked, winners.start)
      /\ winners'.end = winners.end /\ winners'.depth = winners.depth /\ winners' \in Locals
  BY PageFacts
<1>2. PICK hs \in SUBSET DOMAIN chain :
         /\ Answered(hs, winners'.start)
         /\ results' = results (+) Entries(hs)
         /\ winners'.pc = IF \E e \in DOMAIN Entries(hs) : e[2] = "WUF" THEN "fatal"
                          ELSE IF winners'.start >= winners.end THEN "printed" ELSE "page"
  BY PageFacts
<1>3. /\ Chained /\ winners.pc = "page" /\ winners.end \in DOMAIN chain /\ winners.depth \in Depths
      /\ First >= 0 => First <= winners.start /\ winners.start <= winners.end
      /\ First >= 0 /\ asked = <<>> => winners.start = First
      /\ First < 0 => winners.start = First + Width /\ asked = <<>>
      /\ asked = <<>> => results = EmptyBag
      /\ winners.start \in 0..(Width - 1) /\ winners.end \in 0..TopHeight
      /\ asked \in Seq(0..(Width - 1))
  <2>1. winners.depth \in Nat /\ winners.end \in Nat /\ First \in Int
    BY WinnerNumbers DEF WinnersInv, WinnersTypeOK, Paging, Page, First
  <2> QED
    BY <2>1 DEF WinnersInv, WinnersTypeOK, Paging, Page
<1>4. /\ winners.depth \in Nat /\ winners.depth + TopHeight + 1 < Width /\ Width \in Nat /\ TopHeight \in Nat
      /\ First = IF winners.depth = 0 THEN 0 ELSE winners.end - winners.depth
      /\ First \in Int /\ First' = First /\ winners.start \in Nat /\ winners.end \in Nat
  BY <1>1, <1>3, WinnerNumbers DEF First
<1>5. /\ hs \subseteq 0..winners.end /\ winners'.start \in 0..(Width - 1)
      /\ First >= 0 => winners'.start \in winners.start..winners.end /\ hs = winners.start..winners'.start
      /\ First < 0 => winners'.start = winners.start
  BY <1>2 DEF Answered
<1>6. /\ IsABag(results')
      /\ BagToSet(results') \subseteq BagToSet(results) \cup (Prefixes \X Labels \X hs)
      /\ \A h \in DOMAIN chain :
            /\ Times(h) \in Nat
            /\ Times(h)' = Times(h) + IF h \in hs THEN Count(chain[h], "pool") ELSE 0
            /\ Count(chain[h], "pool") \in {0, 1}
  BY <1>1, <1>2, <1>3, TimesAfter, OnePool DEF Chained
<1>7. \A h \in DOMAIN chain : h \in Nat
  BY <1>3, ChainFacts
<1>8. First < 0 => winners'.pc \in {"printed", "fatal"}
  BY <1>2, <1>3, <1>4, <1>5
<1>9. asked' /= <<>>
  BY <1>1, <1>3
<1>10. WinnersTypeOK'
  <2>1. winners'.start <= winners'.end \/ winners'.depth > winners'.end
    BY <1>1, <1>4, <1>5
  <2>2. BagToSet(results') \subseteq Prefixes \X Labels \X (0..winners.end)
    BY <1>5, <1>6 DEF WinnersInv, WinnersTypeOK
  <2>3. asked' \in Seq(0..(Width - 1))
    BY <1>1, <1>3
  <2> QED
    BY <1>1, <1>3, <1>6, <2>1, <2>2, <2>3 DEF WinnersTypeOK, Chained, Locals
<1>11. Paging'
  <2>1. Chained'
    BY <1>1, <1>3 DEF Chained
  <2>2. winners'.pc \in {"page", "printed", "fatal"} /\ (winners'.pc = "printed" => winners'.start >= winners.end)
    BY <1>2
  <2>3. First >= 0 => First <= winners'.start /\ winners'.start <= winners.end
    BY <1>3, <1>4, <1>5
  <2>4. First < 0 => winners'.start = First + Width
    BY <1>3, <1>5
  <2> QED
    BY <1>1, <1>3, <1>4, <1>8, <1>9, <2>1, <2>2, <2>3, <2>4 DEF Paging
<1>12. ASSUME NEW h \in DOMAIN chain, winners'.pc = "page", h > winners'.start
       PROVE  Times(h)' = 0
  <2>1. First >= 0
    BY <1>4, <1>8, <1>12
  <2>2. h \notin hs /\ h > winners.start
    BY <1>4, <1>5, <1>7, <1>12, <2>1
  <2>3. Times(h) = 0
    BY <1>3, <2>2 DEF WinnersInv, Tallied
  <2> QED
    BY <1>6, <2>2, <2>3
<1>13. ASSUME NEW h \in First..winners'.start, HasPool(h), First >= 0, winners'.pc \in {"page", "printed"}
       PROVE  Times(h)' >= 1
  <2>1. h \in DOMAIN chain
    <3>1. h \in 0..winners.end
      BY <1>3, <1>4, <1>5, <1>13
    <3> QED
      BY <1>3, <3>1, ChainFacts
  <2>2. CASE h \in hs
    <3>1. chain[h] \in Blocks /\ "WUF" \in Labels
      BY <1>3, <2>1 DEF Chained, Labels
    <3>2. ~(Count(chain[h], "WUF") > 0)
      BY <1>2, <1>3, <1>13, <2>2, <3>1, EntriesFacts
    <3>3. Count(chain[h], "pool") > 0
      BY <1>13, <3>1, <3>2, PoolOrPanic DEF HasPool
    <3> QED
      BY <1>6, <2>1, <2>2, <3>3
  <2>3. CASE h \notin hs
    <3>1. asked /= <<>> /\ h \in First..winners.start
      BY <1>3, <1>4, <1>5, <1>13, <2>3
    <3>2. Times(h) >= 1
      BY <1>3, <1>13, <3>1 DEF WinnersInv, Tallied
    <3> QED
      BY <1>6, <2>1, <2>3, <3>2
  <2> QED
    BY <2>2, <2>3
<1>14. ASSUME NEW h \in DOMAIN chain
       PROVE  Times(h)' <= 1 + Cardinality(Asked(h)')
  <2>1. /\ Cardinality(Asked(h)) \in Nat /\ Cardinality(Asked(h)') \in Nat
        /\ Cardinality(Asked(h)') >= Cardinality(Asked(h))
        /\ asked /= <<>> /\ winners.start = h => Cardinality(Asked(h)') = Cardinality(Asked(h)) + 1
    BY <1>1, <1>3, AskedNat, AskedMore
  <2>2. Times(h) <= 1 + Cardinality(Asked(h))
    BY DEF WinnersInv, Tallied, AgainOnlyAtStart, Asked
  <2>3. CASE asked = <<>>
    <3>1. Times(h) = 0
      BY <1>3, <2>3, NoCopies DEF Times
    <3> QED
      BY <1>6, <2>1, <3>1
  <2>4. CASE h \notin hs
    BY <1>6, <2>1, <2>2, <2>4
  <2>5. CASE h \in hs /\ asked /= <<>> /\ h = winners.start
    BY <1>6, <2>1, <2>2, <2>5
  <2>6. CASE h \in hs /\ asked /= <<>> /\ h /= winners.start
    <3>1. h > winners.start
      BY <1>3, <1>4, <1>5, <1>7, <2>6
    <3>2. Times(h) = 0
      BY <1>3, <3>1 DEF WinnersInv, Tallied
    <3> QED
      BY <1>6, <2>1, <3>2
  <2> QED
    BY <2>3, <2>4, <2>5, <2>6
<1>15. AgainOnlyAtStart'
  BY <1>1, <1>14 DEF AgainOnlyAtStart, Asked
<1>16. Tallied'
  <2>1. \A h : HasPool(h)' = HasPool(h)
    BY <1>1 DEF HasPool
  <2> QED
    BY <1>1, <1>4, <1>12, <1>13, <1>15, <2>1 DEF Tallied
<1> QED
  BY <1>10, <1>11, <1>16 DEF WinnersInv

LEMMA WinnersStep == WinnersInv /\ [NextWinners]_winnersVars => WinnersInv'
  BY GetTipKeeps, PageKeeps, QuietKeeps DEF NextWinners

LEMMA InvNames == WinnersInv => EveryWinnerNamed
<1> SUFFICES ASSUME WinnersInv, winners.pc = "printed", First >= 0,
                    NEW h \in First..winners.end, HasPool(h)
             PROVE  Times(h) >= 1
  BY DEF EveryWinnerNamed, HasPool
<1>1. /\ asked /= <<>> /\ winners.start >= winners.end /\ First \in Int
      /\ winners.start \in Int /\ winners.end \in Int
  BY WinnerNumbers DEF WinnersInv, WinnersTypeOK, Paging, First
<1>2. h \in First..winners.start
  BY <1>1
<1> QED
  BY <1>1, <1>2 DEF WinnersInv, Tallied
-----------------------------------------------------------------------------
(* A behaviour is one tool's; the other's variables stay as they began.    *)
ToolsInv ==
    \/ tool = "reboot" /\ RebootInv /\ chain = <<>> /\ winners.pc = "off"
    \/ tool = "winners" /\ WinnersInv /\ reboot.pc = "off"

LEMMA ToolsInit == Init => ToolsInv
  BY RebootInit, WinnersInit DEF Init, ToolsInv, Idle

LEMMA ToolsStep == ToolsInv /\ [Next]_vars => ToolsInv'
<1> SUFFICES ASSUME ToolsInv, [Next]_vars PROVE ToolsInv'
  OBVIOUS
<1>1. CASE tool = "reboot"
  <2>1. /\ tool' = tool /\ [NextReboot]_rebootVars
        /\ chain' = chain /\ winners' = winners
    BY <1>1 DEF Next, vars, rebootVars, winnersVars
  <2> QED
    BY <1>1, <2>1, RebootStep DEF ToolsInv
<1>2. CASE tool = "winners"
  <2>1. tool' = tool /\ [NextWinners]_winnersVars /\ reboot' = reboot
    BY <1>2 DEF Next, vars, rebootVars, winnersVars
  <2> QED
    BY <1>2, <2>1, WinnersStep DEF ToolsInv
<1> QED
  BY <1>1, <1>2 DEF ToolsInv

LEMMA ToolsAlways == Spec => []ToolsInv
  BY ToolsInit, ToolsStep, PTL DEF Spec

(* Every variable of the tools keeps its type; in particular blockWinners  *)
(* counts no block above the tip it was told of (main.go, makeRange).      *)
THEOREM ToolTypes == Spec => []TypeOK
<1>1. ToolsInv => TypeOK
  BY DEF ToolsInv, TypeOK, RebootInv, WinnersInv
<1> QED
  BY <1>1, ToolsAlways, PTL

(* Neither rebooter restarts a service that is neither offline nor too far *)
(* behind some public node, if bestHeight is at least the margin: main.go  *)
(* of both, from the poll to RestartUnitContext.                           *)
THEOREM RestartsAreJustified == Spec => []RestartJustified
<1>1. ToolsInv => RestartJustified
  BY InvJustifies DEF ToolsInv, RestartJustified
<1> QED
  BY <1>1, ToolsAlways, PTL

(* A service that is left alone after all nodes have answered was close    *)
(* enough to each of them when the program began.                          *)
THEOREM NoLaggardLeftAlone == Spec => []LeftAloneWhenClose
<1>1. ToolsInv => LeftAloneWhenClose
  BY InvLeaves DEF ToolsInv, LeftAloneWhenClose
<1> QED
  BY <1>1, ToolsAlways, PTL

(* A report that blockWinners prints names the pool of every block of the  *)
(* range that has one, wherever the node cuts its answers (main.go, the    *)
(* loop over the answers).                                                 *)
THEOREM WinnersAreNamed == Spec => []EveryWinnerNamed
<1>1. ToolsInv => EveryWinnerNamed
  BY InvNames DEF ToolsInv, EveryWinnerNamed
<1> QED
  BY <1>1, ToolsAlways, PTL

(* No block is counted again but one that a request began with.            *)
THEOREM CountedOnceButAtStart == Spec => []AgainOnlyAtStart
<1>1. ToolsInv => AgainOnlyAtStart
  BY DEF ToolsInv, AgainOnlyAtStart, WinnersInv, Tallied
<1> QED
  BY <1>1, ToolsAlways, PTL
=============================================================================
