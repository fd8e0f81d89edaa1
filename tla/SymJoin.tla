------------------------------- MODULE SymJoin -------------------------------
(***************************************************************************)
(* The contract of joinSymHeaps() and areEqual() that the containers of    *)
(* symbolic heaps (symstate.cc) and the call cache (symcall.cc) rely on.   *)
(*                                                                         *)
(* A heap is an element of the abstract set Heap: one element stands for a *)
(* class of isomorphic symbolic heaps, so areEqual() is equality.  What    *)
(* the containers can tell about two different heaps is which of them      *)
(* covers the other one and whether a third heap covers both.              *)
(***************************************************************************)
EXTENDS Integers, Sequences, FiniteSets

CONSTANTS
  Heap,      \* symbolic heaps up to isomorphism
  NoHeap,    \* "joinSymHeaps() fails"
  Covers,    \* <<a, b>> \in Covers: heap a represents all that b represents
  ThreeWay,  \* the three-way join of two incomparable heaps, or NoHeap
  Forced,    \* pairs whose join sets forceThreeWay (joinCustomValues)
  ExitHeap   \* heaps with exitPoint() set, i.e. the program has exited

(***************************************************************************)
(* Entailment is a partial order on the isomorphism classes, a three-way   *)
(* join covers both of its operands, and joinSymHeaps() refuses two heaps  *)
(* that differ in their exit points before anything else is compared.      *)
(***************************************************************************)
ASSUME SymJoinAssumption ==
  /\ NoHeap \notin Heap
  /\ ExitHeap \subseteq Heap
  /\ Covers \subseteq Heap \X Heap
  /\ \A a \in Heap : <<a, a>> \in Covers
  /\ \A a, b \in Heap : <<a, b>> \in Covers /\ <<b, a>> \in Covers => a = b
  /\ \A a, b, c \in Heap :
        <<a, b>> \in Covers /\ <<b, c>> \in Covers => <<a, c>> \in Covers
  /\ \A a, b \in Heap :
        <<a, b>> \in Covers => (a \in ExitHeap <=> b \in ExitHeap)
  /\ Forced \subseteq Heap \X Heap
  /\ ThreeWay \in [Heap \X Heap -> Heap \cup {NoHeap}]
  /\ \A a, b \in Heap :
        ThreeWay[<<a, b>>] # NoHeap =>
           /\ <<ThreeWay[<<a, b>>], a>> \in Covers
           /\ <<ThreeWay[<<a, b>>], b>> \in Covers

JS_USE_ANY   == "JS_USE_ANY"    \* the heaps are isomorphic
JS_USE_SH1   == "JS_USE_SH1"    \* the first heap covers the second one
JS_USE_SH2   == "JS_USE_SH2"    \* the second heap covers the first one
JS_THREE_WAY == "JS_THREE_WAY"  \* a third heap covers both
JS_FAIL      == "JS_FAIL"       \* joinSymHeaps() returned false

EJoinStatus == {JS_USE_ANY, JS_USE_SH1, JS_USE_SH2, JS_THREE_WAY, JS_FAIL}

(* Mutant: a join that has failed is not noticed. *)
JoinStatus_NeverFails(sh1, sh2, allowThreeWay) ==
  CASE sh1 = sh2                                 -> JS_USE_ANY
    [] sh1 # sh2 /\ <<sh1, sh2>> \in Covers      -> JS_USE_SH1
    [] sh1 # sh2 /\ <<sh2, sh1>> \in Covers      -> JS_USE_SH2
    [] OTHER -> IF allowThreeWay THEN JS_THREE_WAY ELSE JS_FAIL

(***************************************************************************)
(* The value joinSymHeaps() leaves in *pStatus.  Entailment is found with  *)
(* or without three-way joins allowed; a result that would need a third    *)
(* heap is turned down by validateStatus() unless they are allowed or the  *)
(* join has met two integers beyond the arithmetic limit (forceThreeWay).  *)
(***************************************************************************)
JoinStatus(sh1, sh2, allowThreeWay) ==
  CASE sh1 = sh2                                 -> JS_USE_ANY
    [] sh1 # sh2 /\ <<sh1, sh2>> \in Covers      -> JS_USE_SH1
    [] sh1 # sh2 /\ <<sh2, sh1>> \in Covers      -> JS_USE_SH2
    [] /\ <<sh1, sh2>> \notin Covers
       /\ <<sh2, sh1>> \notin Covers
       /\ allowThreeWay \/ <<sh1, sh2>> \in Forced
       /\ ThreeWay[<<sh1, sh2>>] # NoHeap        -> JS_THREE_WAY
    [] OTHER                                     -> JS_FAIL

(* The heap that joinSymHeaps() builds in *pDst when three heaps are needed. *)
JoinResult(sh1, sh2) == ThreeWay[<<sh1, sh2>>]

==============================================================================
