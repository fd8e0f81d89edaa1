------------------------------- MODULE LoopScan -------------------------------
(***************************************************************************)
(* LoopScan::analyzeFnc() (cl/loopscan.cc): a depth-first search over the  *)
(* control-flow graph that finds the loop-closing edges.  On these edges   *)
(* the symbolic execution abstracts and joins heaps, and their targets are *)
(* never pruned: whether the fixed-point computation ends depends on them. *)
(***************************************************************************)
EXTENDS ControlFlow, SequencesExt

VARIABLES
  dfsStack,  \* dfsStack: items [bb, target], the top one at the end
  pathSet,   \* pathSet: blocks on the stack that another edge may reach
  done,      \* done: blocks whose targets are all traversed
  closing    \* loopClosingEdges, i.e. what loopClosingTargets refer to

scanVars == <<prog, conf, dfsStack, pathSet, done, closing>>

(* Mutant: the first target is passed over. *)
DfsItem_FromSecond(bb) == [bb |-> bb, target |-> 2]

DfsItem(bb) == [bb |-> bb, target |-> 1]

ScanInit ==
  /\ InitControlFlow
  /\ dfsStack = <<DfsItem(prog.entry)>>
  /\ pathSet = IF InboundCnt(prog.entry) > 0 THEN {prog.entry} ELSE {}
  /\ done = {}
  /\ closing = {}

Top == Last(dfsStack)

AtTarget == dfsStack # <<>> /\ Top.target <= Len(Targets(Top.bb))
NextBlock == Targets(Top.bb)[Top.target]

Advanced == [dfsStack EXCEPT ![Len(dfsStack)].target = @ + 1]

(* Mutant: a block that is left stays on the path. *)
LeaveBlock_KeepsPath ==
  /\ dfsStack # <<>>
  /\ Top.target > Len(Targets(Top.bb))
  /\ dfsStack' = Front(dfsStack)
  /\ UNCHANGED <<prog, conf, pathSet, done, closing>>

(* All targets of the top block are traversed. *)
LeaveBlock ==
  /\ dfsStack # <<>>
  /\ Top.target > Len(Targets(Top.bb))
  /\ done' = done \cup {Top.bb}
  /\ pathSet' = pathSet \ {Top.bb}
  /\ dfsStack' = Front(dfsStack)
  /\ UNCHANGED <<prog, conf, closing>>

(* The next target has been traversed already. *)
SkipTraversed ==
  /\ AtTarget
  /\ NextBlock \in done
  /\ dfsStack' = Advanced
  /\ UNCHANGED <<prog, conf, pathSet, done, closing>>

(* A block entered by one edge only cannot be met again on the path. *)
Nest ==
  /\ AtTarget
  /\ NextBlock \notin done \cup pathSet
  /\ dfsStack' = Append(Advanced, DfsItem(NextBlock))
  /\ pathSet' = IF InboundCnt(NextBlock) > 1 THEN pathSet \cup {NextBlock}
                                             ELSE pathSet
  /\ UNCHANGED <<prog, conf, done, closing>>

(* Mutant: the edge is stored the wrong way round. *)
CloseLoop_Reversed ==
  /\ AtTarget
  /\ NextBlock \notin done
  /\ NextBlock \in pathSet
  /\ closing' = closing \cup {<<NextBlock, Top.bb>>}
  /\ dfsStack' = Advanced
  /\ UNCHANGED <<prog, conf, pathSet, done>>

(* The next target is on the current path. *)
CloseLoop ==
  /\ AtTarget
  /\ NextBlock \notin done
  /\ NextBlock \in pathSet
  /\ closing' = closing \cup {<<Top.bb, NextBlock>>}
  /\ dfsStack' = Advanced
  /\ UNCHANGED <<prog, conf, pathSet, done>>

ScanDone == dfsStack = <<>> /\ UNCHANGED scanVars

ScanNext == LeaveBlock \/ SkipTraversed \/ Nest \/ CloseLoop \/ ScanDone

ScanSpec == ScanInit /\ [][ScanNext]_scanVars /\ WF_scanVars(ScanNext)

-------------------------------------------------------------------------------

Edge(b, t) == \E i \in 1..Len(Targets(b)) : Targets(b)[i] = t

(***************************************************************************)
(* When the scan is over, every loop contains a loop-closing edge: in any  *)
(* set of visited blocks there is one with no edge, other than a           *)
(* loop-closing one, into the set.                                         *)
(***************************************************************************)
EveryLoopIsClosed ==
  dfsStack = <<>> =>
     \A blocks \in SUBSET done : blocks # {} =>
        \E b \in blocks : \A t \in blocks : Edge(b, t) => <<b, t>> \in closing

(***************************************************************************)
(* An edge is loop-closing only if it closes a loop: no set of blocks that *)
(* holds its target and is closed under the edges misses its source.       *)
(***************************************************************************)
ClosesALoop ==
  \A edge \in closing :
     \A blocks \in SUBSET Block :
        /\ edge[2] \in blocks
        /\ \A b \in blocks, t \in Block : Edge(b, t) => t \in blocks
        => edge[1] \in blocks

(* The scan visits all blocks that the entry reaches, and ends. *)
ScanEnds ==
  <>(dfsStack = <<>> /\ prog.entry \in done
       /\ \A b \in done, t \in Block : Edge(b, t) => t \in done)

===============================================================================
