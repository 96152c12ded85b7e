------------------------ MODULE ReconcileKeysProofs ------------------------
(***************************************************************************)
(* That no pass over the reconcile keys reports a false all clear, for any *)
(* set of addresses and whatever flags come and go during the pass.        *)
(***************************************************************************)
EXTENDS ReconcileKeys, TLAPS

(* What SCAN has returned is either still on the page or in the report; a  *)
(* steady flag that is in the report of -clear-all is one whose Del        *)
(* failed; and the cursor is 0 only when every steady flag was returned.   *)
Covered ==
    /\ pc /= "keys" => page = {}
    /\ returned = page \cup logged
    /\ mode = "clear" => logged \cap steady \subseteq failed
    /\ last => steady \subseteq returned
    /\ pc = "summary" => last

PassInv == TypeOK /\ (pc \in {"scan", "keys", "summary"} => Covered)

LEMMA PassInit == Init => PassInv
BY DEF Init, PassInv, TypeOK, Covered

LEMMA PassStep == PassInv /\ [Next]_vars => PassInv'
<1> SUFFICES ASSUME PassInv, [Next]_vars PROVE PassInv'
  OBVIOUS
<1> USE DEF PassInv, TypeOK, Covered, pass
<1>1. ASSUME NEW a \in Addr, Flag(a) \/ ClearOne(a) PROVE PassInv'
  BY <1>1 DEF Flag, ClearOne
<1>2. ASSUME NEW m \in {"clear", "list"}, Start(m) PROVE PassInv'
  BY <1>2 DEF Start
<1>3. ASSUME NEW keys \in SUBSET flags, Scan(keys) PROVE PassInv'
  <2>1. page = {} /\ returned = logged
    BY <1>3 DEF Scan
  <2> QED
    BY <1>3, <2>1 DEF Scan
<1>4. CASE ScanFails
  BY <1>4 DEF ScanFails
<1>5. ASSUME NEW a \in Addr, DelKey(a) PROVE PassInv'
  BY <1>5 DEF DelKey
<1>6. ASSUME NEW a \in Addr, DelFails(a) PROVE PassInv'
  BY <1>6 DEF DelFails
<1>7. ASSUME NEW a \in Addr, GetKey(a) PROVE PassInv'
  BY <1>7 DEF GetKey
<1>8. CASE NextPage
  BY <1>8 DEF NextPage
<1>9. CASE UNCHANGED vars
  BY <1>9 DEF vars
<1> QED
  BY <1>1, <1>2, <1>3, <1>4, <1>5, <1>6, <1>7, <1>8, <1>9 DEF Next, Keys
-----------------------------------------------------------------------------
(* The sets a pass keeps are what they are called: steady flags are flags, *)
(* what is on the page or in the report was returned by SCAN.              *)
THEOREM PassTypes == Spec => []TypeOK
<1>1. PassInv => TypeOK
  BY DEF PassInv
<1> QED
  BY <1>1, PassInit, PassStep, PTL DEF Spec

(* A pass that comes to its summary has passed over no flag that was up    *)
(* all the while.                                                          *)
THEOREM NoFalseAllClear == Spec => []NoneSkipped
<1>1. PassInv => NoneSkipped
  BY DEF PassInv, Covered, NoneSkipped
<1> QED
  BY <1>1, PassInit, PassStep, PTL DEF Spec
=============================================================================
