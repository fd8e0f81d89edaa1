------------------------------ MODULE ListHeaps ------------------------------
(***************************************************************************)
(* A small domain of symbolic heaps for the model checker: heaps with one  *)
(* singly-linked list, told apart by the lengths the list may have.  "n"   *)
(* is the empty list, "l1".."l3" are lists of one to three regions, "p0"   *)
(* to "p2" list segments of at least 0, 1 and 2 nodes, and "x" is any heap *)
(* of a program that has exited.                                           *)
(***************************************************************************)
EXTENDS Integers, Sequences, FiniteSets, TLC

ListHeap == {"n", "l1", "l2", "l3", "p0", "p1", "p2", "x"}
ListExitHeap == {"x"}

(* The lengths of the list, 4 standing for "four or more". *)
Lengths ==
  ("n" :> {0}) @@ ("l1" :> {1}) @@ ("l2" :> {2}) @@ ("l3" :> {3}) @@
  ("p0" :> 0..4) @@ ("p1" :> 1..4) @@ ("p2" :> 2..4) @@ ("x" :> {})

ListCoversIn(heaps) ==
  {<<a, b>> \in heaps \X heaps : /\ a = "x" <=> b = "x"
                                 /\ Lengths[b] \subseteq Lengths[a]}

(* A three-way join merges a list with a segment next to it in length, and *)
(* gives up on two lists of different lengths.                             *)
ListThreeWayIn(heaps) ==
  [pair \in heaps \X heaps |->
     IF {pair[1], pair[2]} = {"l1", "p2"} /\ "p1" \in heaps THEN "p1"
     ELSE IF {pair[1], pair[2]} = {"n", "p1"} /\ "p0" \in heaps THEN "p0"
     ELSE IF {pair[1], pair[2]} = {"n", "p2"} /\ "p0" \in heaps THEN "p0"
     ELSE "none"]

(* Pairs that are joined into a third heap although nobody asked for it. *)
ListForcedIn(heaps) == {<<a, b>> \in heaps \X heaps : {a, b} = {"n", "p1"}}

(* abstractIfNeeded() folds two and more regions to a segment. *)
ListAbstract ==
  [sh \in ListHeap |-> IF sh \in {"l2", "l3"} THEN "p2" ELSE sh]

==============================================================================
