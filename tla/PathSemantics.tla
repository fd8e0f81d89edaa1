----------------------------- MODULE PathSemantics -----------------------------
(***************************************************************************)
(* The reference that the fixed-point computation is compared with: the    *)
(* heaps that come up when every path through the function is followed on  *)
(* its own, heap by heap, with no join, abstraction, pruning or schedule.  *)
(***************************************************************************)
EXTENDS Places

CONSTANT MaxPath  \* the number of instructions after which a path is left

ASSUME MaxPathAssumption == MaxPath \in Nat

(* The places that up to n instructions lead to. *)
ReachedIn[n \in 0..MaxPath] ==
  IF n = 0 THEN {<<prog.entry, 1, entry>>}
  ELSE LET places == ReachedIn[n - 1]
       IN  places \cup UNION {Successors(p) : p \in places}

Reachable == ReachedIn[MaxPath]

PathResults == UNION {Yield(p) : p \in Reachable}

(***************************************************************************)
(* What the analysis is for: when run() returns, every heap that a path    *)
(* brings to a block is covered by a heap processed there, and every       *)
(* result of a path is covered by a result of the function.                *)
(***************************************************************************)
CoversAllPaths ==
  pc = "done" =>
     /\ \A p \in Reachable : p[2] = 1 => CoveredBy(p[3], processed[p[1]])
     /\ \A sh \in PathResults : CoveredBy(sh, Elements(results))

(***************************************************************************)
(* The warning "end of function ... has not been reached" is not a false   *)
(* alarm: it is given only if no path gets to CL_INSN_RET or CL_INSN_ABORT,*)
(* exits the program or fails fatally.                                     *)
(***************************************************************************)
EndNotReachedIsTrue ==
  pc = "done" /\ ~endReached =>
     \A p \in Reachable :
        /\ ~Exited(p)
        /\ InsnAt(p).code \notin {"ret", "abort"}
        /\ InsnAt(p).code = "op" => <<InsnAt(p).fns[1], p[3]>> \notin Fatal

===============================================================================
