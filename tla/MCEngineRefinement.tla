-------------------------- MODULE MCEngineRefinement --------------------------
(***************************************************************************)
(* The refinement on the functions and some configurations of              *)
(* MCSymExecEngine.                                                        *)
(***************************************************************************)
EXTENDS MCSymExecEngine, EngineRefinement

(* The default, and what differs from it in one or two respects. *)
RefinementConfs ==
  {[Default EXCEPT !.joinMode = j, !.ordering = o] : j \in {-1, 3}, o \in 0..2}
  \cup {[Default EXCEPT !.joinMode = j, !.schedKind = k] : j \in {0, 3}, k \in 0..3}
  \cup {[Default EXCEPT !.pruneMode = m, !.missThr = t[1], !.totalThr = t[2]] :
           m \in 2..3, t \in {<<2, 128>>, <<0, 3>>}}
  \cup {[Default EXCEPT !.joinMode = j, !.forbidReplace = TRUE] : j \in 1..3}
  \cup {[Default EXCEPT !.exitLeaks = TRUE]}

(* The generated functions start with an empty list, and blocks are pruned. *)
AllPrograms == MCPrograms \cup GeneratedPrograms
Pruning == [Default EXCEPT !.pruneMode = 3, !.missThr = 2]
MCInit == HistInit /\ (prog \in MCPrograms \/ (entry = "n" /\ conf = Pruning))
MCSpec ==
  /\ MCInit
  /\ [][HistNext]_<<vars, executed>>
  /\ WF_<<vars, executed>>(HistNext)

===============================================================================
