---------------------------- MODULE LoopScanProofs ----------------------------
(***************************************************************************)
(* Proofs about LoopScan, for every control-flow graph: the loop-closing   *)
(* edges cut every loop, and only loops.                                   *)
(***************************************************************************)
EXTENDS LoopScan, SequenceTheorems, TLAPS

Item == [bb : Block, target : Nat]

(* Only blocks on the stack are on the path. *)
ScanTypeOK ==
  /\ prog \in Programs
  /\ dfsStack \in Seq(Item)
  /\ pathSet \subseteq Block /\ done \subseteq Block
  /\ closing \subseteq Block \X Block
  /\ \A i \in 1..Len(dfsStack) : dfsStack[i].target > 0

OnStack(b) == \E i \in 1..Len(dfsStack) : dfsStack[i].bb = b

(* A target of block b has been dealt with: nobody is going to enter it. *)
Settled(b, t) == t \in done \/ <<b, t>> \in closing

(* Item i has gone for the block of item i + 1, but not come back yet. *)
Entered(i, k) == /\ i < Len(dfsStack) /\ k = dfsStack[i].target - 1
                 /\ Targets(dfsStack[i].bb)[k] = dfsStack[i + 1].bb

DoneIsSettled == \A b \in done, t \in Block : Edge(b, t) => Settled(b, t)

PassedIsSettled ==
  \A i \in 1..Len(dfsStack) :
     \A k \in 1..Len(Targets(dfsStack[i].bb)) :
        k < dfsStack[i].target =>
           Settled(dfsStack[i].bb, Targets(dfsStack[i].bb)[k]) \/ Entered(i, k)

(* EveryLoopIsClosed, of what is traversed so far. *)
DoneIsCut ==
  \A blocks \in SUBSET done : blocks # {} =>
     \E b \in blocks : \A t \in blocks : Edge(b, t) => <<b, t>> \in closing

EdgeClosed(blocks) == \A b \in blocks, t \in Block : Edge(b, t) => t \in blocks

(* Each block on the stack reaches the ones above it. *)
StackIsPath ==
  \A blocks \in SUBSET Block : EdgeClosed(blocks) =>
     \A i, j \in 1..Len(dfsStack) :
        i <= j /\ dfsStack[i].bb \in blocks => dfsStack[j].bb \in blocks

(* What a loop-closing edge leads to, and the entry, are not forgotten. *)
NothingForgotten ==
  /\ \A b \in pathSet : OnStack(b)
  /\ \A edge \in closing : edge[2] \in done \/ OnStack(edge[2])
  /\ prog.entry \in done \/ OnStack(prog.entry)

ScanInv ==
  /\ ScanTypeOK /\ DoneIsSettled /\ PassedIsSettled /\ DoneIsCut
  /\ StackIsPath /\ NothingForgotten /\ ClosesALoop

-------------------------------------------------------------------------------

(* A block is a non-empty sequence of instructions. *)
LEMMA TargetsType ==
  ASSUME prog \in Programs, NEW b \in Block
  PROVE  Targets(b) \in Seq(Block)
<1>1. Insns(b) \in Seq(Insn) /\ Len(Insns(b)) > 0
  BY ControlFlowAssumption DEF Insns, WellFormedBlock
<1>2. LastInsn(b) \in Insn
  BY <1>1 DEF LastInsn
<1> QED
  BY <1>2 DEF Targets, Insn

(* The target of an edge is a block. *)
LEMMA EdgeType ==
  ASSUME prog \in Programs, NEW b \in Block, NEW t, Edge(b, t)
  PROVE  t \in Block
BY TargetsType DEF Edge

(* The operations on the stack. *)
LEMMA TopType ==
  ASSUME ScanTypeOK, dfsStack # <<>>
  PROVE  /\ Len(dfsStack) \in Nat /\ Len(dfsStack) > 0
         /\ Top = dfsStack[Len(dfsStack)]
         /\ Top \in Item
         /\ Targets(Top.bb) \in Seq(Block)
<1>1. Len(dfsStack) \in Nat /\ Len(dfsStack) > 0 /\ Top = dfsStack[Len(dfsStack)]
  BY DEF ScanTypeOK, Top, Last
<1>2. Top \in Item
  BY <1>1 DEF ScanTypeOK
<1> QED
  BY <1>1, <1>2, TargetsType DEF ScanTypeOK, Item

(* Every item has a block and a position. *)
LEMMA StackType ==
  ASSUME ScanTypeOK, NEW i \in 1..Len(dfsStack)
  PROVE  /\ dfsStack[i].bb \in Block
         /\ dfsStack[i].target \in Nat
         /\ Targets(dfsStack[i].bb) \in Seq(Block)
<1>1. dfsStack[i] \in Item
  BY ElementOfSeq DEF ScanTypeOK
<1> QED
  BY <1>1, TargetsType DEF Item, ScanTypeOK

(* Moving on to the next target changes nothing else. *)
LEMMA AdvancedProps ==
  ASSUME ScanTypeOK, dfsStack # <<>>
  PROVE  /\ Advanced \in Seq(Item)
         /\ Len(Advanced) = Len(dfsStack)
         /\ \A i \in 1..Len(dfsStack) :
               /\ Advanced[i].bb = dfsStack[i].bb
               /\ Advanced[i].target = IF i = Len(dfsStack)
                                       THEN dfsStack[i].target + 1
                                       ELSE dfsStack[i].target
<1>0. Len(dfsStack) \in Nat /\ Len(dfsStack) > 0
  BY TopType
<1>1. /\ Len(dfsStack) \in Nat /\ Len(dfsStack) > 0
      /\ \A i \in 1..Len(dfsStack) : dfsStack[i] \in [bb : Block, target : Nat]
  <2>1. \A i \in 1..Len(dfsStack) : dfsStack[i] \in Item
    BY <1>0, ElementOfSeq DEF ScanTypeOK
  <2> QED
    BY <1>0, <2>1 DEF Item
<1> DEFINE top == [dfsStack[Len(dfsStack)] EXCEPT !.target = @ + 1]
<1>2. /\ top \in Item
      /\ top.bb = dfsStack[Len(dfsStack)].bb
      /\ top.target = dfsStack[Len(dfsStack)].target + 1
  BY <1>1 DEF Item
<1>3. Advanced = [dfsStack EXCEPT ![Len(dfsStack)] = top]
  BY DEF Advanced
<1> HIDE DEF top
<1>4. /\ Advanced \in Seq(Item)
      /\ Len(Advanced) = Len(dfsStack)
      /\ \A i \in 1..Len(dfsStack) :
            Advanced[i] = IF i = Len(dfsStack) THEN top ELSE dfsStack[i]
  BY <1>1, <1>2, <1>3 DEF ScanTypeOK
<1> QED
  BY <1>1, <1>2, <1>4

LEMMA FrontProps ==
  ASSUME ScanTypeOK, dfsStack # <<>>
  PROVE  /\ Front(dfsStack) \in Seq(Item)
         /\ Len(Front(dfsStack)) = Len(dfsStack) - 1
         /\ \A i \in 1..(Len(dfsStack) - 1) : Front(dfsStack)[i] = dfsStack[i]
<1> DEFINE n == Len(dfsStack) - 1
<1>1. Len(dfsStack) \in Nat /\ Len(dfsStack) > 0
  BY TopType
<1>2. n \in Nat /\ \A i \in 1..n : dfsStack[i] \in Item
  BY <1>1, ElementOfSeq DEF ScanTypeOK
<1>3. Front(dfsStack) = SubSeq(dfsStack, 1, n)
  BY DEF Front
<1> HIDE DEF n
<1>4. /\ SubSeq(dfsStack, 1, n) \in Seq(Item)
      /\ Len(SubSeq(dfsStack, 1, n)) = n
      /\ \A i \in 1..n : SubSeq(dfsStack, 1, n)[i] = dfsStack[i]
  BY <1>2, SubSeqProperties
<1> QED
  BY <1>3, <1>4 DEF n

(* The scan starts in the entry. *)
LEMMA ScanInitInv == ScanInit => ScanInv
<1> SUFFICES ASSUME ScanInit PROVE ScanInv
  OBVIOUS
<1>1. prog \in Programs /\ prog.entry \in Block
  BY ControlFlowAssumption DEF ScanInit, InitControlFlow
<1>2. /\ dfsStack \in Seq(Item) /\ Len(dfsStack) = 1
      /\ dfsStack[1].bb = prog.entry /\ dfsStack[1].target = 1
      /\ done = {} /\ closing = {} /\ pathSet \subseteq {prog.entry}
  BY <1>1 DEF ScanInit, DfsItem, Item
<1>3. OnStack(prog.entry)
  BY <1>2 DEF OnStack
<1>4. ScanTypeOK
  BY <1>1, <1>2 DEF ScanTypeOK
<1>5. DoneIsSettled /\ DoneIsCut /\ ClosesALoop
  BY <1>2 DEF DoneIsSettled, DoneIsCut, ClosesALoop
<1>6. PassedIsSettled
  <2>1. Targets(dfsStack[1].bb) \in Seq(Block)
    BY <1>1, <1>2, TargetsType
  <2> QED
    BY <1>2, <2>1 DEF PassedIsSettled
<1>7. StackIsPath
  BY <1>2 DEF StackIsPath
<1>8. NothingForgotten
  BY <1>2, <1>3 DEF NothingForgotten
<1> QED
  BY <1>4, <1>5, <1>6, <1>7, <1>8 DEF ScanInv

(* What the step of an action that only moves on keeps. *)
LEMMA AdvanceStep ==
  ASSUME ScanInv, AtTarget, dfsStack' = Advanced, closing \subseteq closing',
         closing' \subseteq Block \X Block,
         NextBlock \in done \/ <<Top.bb, NextBlock>> \in closing', UNCHANGED <<prog, pathSet, done>>
  PROVE  /\ ScanTypeOK' /\ DoneIsSettled' /\ PassedIsSettled' /\ DoneIsCut'
         /\ StackIsPath'
         /\ \A b : OnStack(b)' <=> OnStack(b)
<1> DEFINE n == Len(dfsStack)
<1>0. n \in Nat /\ n > 0
  BY TopType DEF ScanInv, AtTarget
<1>1. /\ dfsStack' \in Seq(Item)
      /\ Len(dfsStack') = n
      /\ \A i \in 1..n :
            /\ dfsStack'[i].bb = dfsStack[i].bb
            /\ dfsStack'[i].target = IF i = n THEN dfsStack[i].target + 1
                                              ELSE dfsStack[i].target
  BY AdvancedProps DEF ScanInv, AtTarget
<1>2. \A i \in 1..n : dfsStack[i].bb \in Block /\ dfsStack[i].target \in Nat
  BY StackType DEF ScanInv
<1>3. ScanTypeOK'
  BY <1>0, <1>1, <1>2 DEF ScanInv, ScanTypeOK
<1>4. \A b, t : Edge(b, t)' <=> Edge(b, t)
  BY DEF Edge, Targets, LastInsn, Insns
<1>5. \A b, t : Settled(b, t) => Settled(b, t)'
  BY DEF Settled
<1>6. DoneIsSettled'
  BY <1>4, <1>5 DEF ScanInv, DoneIsSettled
<1>7. DoneIsCut'
  BY <1>4 DEF ScanInv, DoneIsCut
<1>8. StackIsPath'
  <2>1. \A blocks : EdgeClosed(blocks)' <=> EdgeClosed(blocks)
    BY <1>4 DEF EdgeClosed
  <2> QED
    BY <1>1, <2>1 DEF ScanInv, StackIsPath
<1>9. \A b : OnStack(b)' <=> OnStack(b)
  BY <1>1 DEF OnStack
<1>10. PassedIsSettled'
  <2>1. \A b : Targets(b)' = Targets(b)
    BY DEF Targets, LastInsn, Insns
  <2> SUFFICES ASSUME NEW i \in 1..n, NEW k \in 1..Len(Targets(dfsStack[i].bb)),
                      k < dfsStack'[i].target
               PROVE  \/ Settled(dfsStack[i].bb, Targets(dfsStack[i].bb)[k])'
                      \/ Entered(i, k)'
    BY <1>1, <2>1 DEF PassedIsSettled
  <2>2. CASE k < dfsStack[i].target
    <3>1. CASE Settled(dfsStack[i].bb, Targets(dfsStack[i].bb)[k])
      BY <3>1, <1>1, <2>1 DEF Settled
    <3>2. CASE Entered(i, k)
      BY <3>2, <1>0, <1>1, <2>1 DEF Entered
    <3> QED
      BY <2>2, <3>1, <3>2 DEF ScanInv, PassedIsSettled
  <2>3. CASE ~(k < dfsStack[i].target)
    <3>1. i = n /\ k = dfsStack[i].target
      BY <1>0, <1>1, <1>2, <2>3, TargetsType DEF ScanInv, ScanTypeOK
    <3>2. Top = dfsStack[i] /\ NextBlock = Targets(dfsStack[i].bb)[k]
      BY <3>1 DEF NextBlock, Top, Last
    <3> QED
      BY <3>1, <3>2, <1>1, <2>1 DEF Settled
  <2> QED
    BY <2>2, <2>3
<1> QED
  BY <1>3, <1>6, <1>7, <1>8, <1>9, <1>10

(* The target has been traversed: its edge closes nothing new. *)
LEMMA SkipTraversedInv == ScanInv /\ SkipTraversed => ScanInv'
<1> SUFFICES ASSUME ScanInv, SkipTraversed PROVE ScanInv'
  OBVIOUS
<1>1. closing \subseteq Block \X Block
  BY DEF ScanInv, ScanTypeOK
<1>2. /\ ScanTypeOK' /\ DoneIsSettled' /\ PassedIsSettled' /\ DoneIsCut'
      /\ StackIsPath'
      /\ \A b : OnStack(b)' <=> OnStack(b)
  BY <1>1, AdvanceStep DEF SkipTraversed
<1>3. NothingForgotten'
  BY <1>2 DEF ScanInv, NothingForgotten, SkipTraversed
<1>4. ClosesALoop'
  BY DEF ScanInv, ClosesALoop, SkipTraversed, Edge, Targets, LastInsn, Insns
<1> QED
  BY <1>2, <1>3, <1>4 DEF ScanInv

(* The target is on the path, so it reaches the block at the top. *)
LEMMA CloseLoopInv == ScanInv /\ CloseLoop => ScanInv'
<1> SUFFICES ASSUME ScanInv, CloseLoop PROVE ScanInv'
  OBVIOUS
<1> DEFINE n == Len(dfsStack)
<1>1. n \in 1..n /\ Top = dfsStack[n] /\ Top.bb \in Block /\ Targets(Top.bb) \in Seq(Block)
  <2>1. ScanTypeOK /\ dfsStack # <<>>
    BY DEF ScanInv, CloseLoop, AtTarget
  <2>2. n \in 1..n /\ Top = dfsStack[n]
    BY <2>1, TopType
  <2> QED
    BY <2>1, <2>2, StackType
<1>2. OnStack(NextBlock) /\ NextBlock \in Block
  BY DEF ScanInv, CloseLoop, NothingForgotten, ScanTypeOK
<1>3. /\ ScanTypeOK' /\ DoneIsSettled' /\ PassedIsSettled' /\ DoneIsCut'
      /\ StackIsPath'
      /\ \A b : OnStack(b)' <=> OnStack(b)
  <2>1. closing' \subseteq Block \X Block
    BY <1>1, <1>2 DEF ScanInv, ScanTypeOK, CloseLoop
  <2> QED
    BY <2>1, AdvanceStep DEF CloseLoop
<1>4. NothingForgotten'
  BY <1>2, <1>3 DEF ScanInv, NothingForgotten, CloseLoop
<1>5. ClosesALoop'
  <2>1. \A blocks : EdgeClosed(blocks)' <=> EdgeClosed(blocks)
    BY DEF EdgeClosed, Edge, Targets, LastInsn, Insns, CloseLoop
  <2> SUFFICES ASSUME NEW edge \in closing', NEW blocks \in SUBSET Block,
                      edge[2] \in blocks, EdgeClosed(blocks)
               PROVE  edge[1] \in blocks
    BY <2>1 DEF ClosesALoop, EdgeClosed
  <2>2. CASE edge \in closing
    BY <2>2 DEF ScanInv, ClosesALoop, EdgeClosed
  <2>3. CASE edge = <<Top.bb, NextBlock>>
    <3>1. PICK i \in 1..n : dfsStack[i].bb = NextBlock
      BY <1>2 DEF OnStack
    <3>2. i <= n /\ dfsStack[i].bb \in blocks
      BY <3>1, <2>3
    <3>3. dfsStack[n].bb \in blocks
      BY <3>2, <1>1 DEF ScanInv, StackIsPath
    <3> QED
      BY <3>3, <2>3, <1>1
  <2> QED
    BY <2>2, <2>3 DEF CloseLoop
<1> QED
  BY <1>3, <1>4, <1>5 DEF ScanInv

(* The block that is entered is a successor of the one below it. *)
LEMMA NestInv == ScanInv /\ Nest => ScanInv'
<1> SUFFICES ASSUME ScanInv, Nest PROVE ScanInv'
  OBVIOUS
<1> DEFINE n == Len(dfsStack)
<1>1. ScanTypeOK /\ dfsStack # <<>>
  BY DEF ScanInv, Nest, AtTarget
<1>2. /\ n \in 1..n /\ n \in Nat /\ Top = dfsStack[n]
      /\ \A i \in 1..n : /\ dfsStack[i].bb \in Block
                         /\ dfsStack[i].target \in Nat
                         /\ Targets(dfsStack[i].bb) \in Seq(Block)
  BY <1>1, TopType, StackType
<1>3. PICK x \in Block : x = NextBlock /\ Edge(dfsStack[n].bb, x)
  <2>1. /\ Top.target \in 1..Len(Targets(Top.bb))
        /\ NextBlock = Targets(Top.bb)[Top.target]
    BY <1>1, <1>2 DEF Nest, AtTarget, NextBlock, ScanTypeOK
  <2> QED
    BY <2>1, <1>2 DEF Edge
<1>4. /\ dfsStack' \in Seq(Item)
      /\ Len(dfsStack') = n + 1
      /\ \A i \in 1..n :
            /\ dfsStack'[i].bb = dfsStack[i].bb
            /\ dfsStack'[i].target = IF i = n THEN dfsStack[i].target + 1
                                              ELSE dfsStack[i].target
      /\ dfsStack'[n + 1].bb = x /\ dfsStack'[n + 1].target = 1
  <2>1. DfsItem(x) \in Item
    BY <1>3 DEF DfsItem, Item
  <2>2. /\ Advanced \in Seq(Item)
        /\ Len(Advanced) = n
        /\ \A i \in 1..n :
              /\ Advanced[i].bb = dfsStack[i].bb
              /\ Advanced[i].target = IF i = n THEN dfsStack[i].target + 1
                                               ELSE dfsStack[i].target
    BY <1>1, AdvancedProps
  <2>3. dfsStack' = Append(Advanced, DfsItem(x))
    BY <1>3 DEF Nest
  <2>4. /\ dfsStack' \in Seq(Item) /\ Len(dfsStack') = n + 1
        /\ \A i \in 1..n : dfsStack'[i] = Advanced[i]
        /\ dfsStack'[n + 1] = DfsItem(x)
    BY <1>2, <2>1, <2>2, <2>3
  <2>5. DfsItem(x).bb = x /\ DfsItem(x).target = 1
    BY DEF DfsItem
  <2> QED
    BY <1>2, <2>2, <2>4, <2>5
<1>5. \A b, t : (Edge(b, t)' <=> Edge(b, t)) /\ (Settled(b, t)' <=> Settled(b, t))
  BY DEF Edge, Settled, Targets, LastInsn, Insns, Nest
<1>6. ScanTypeOK'
  <2>1. \A i \in 1..(n + 1) : dfsStack'[i].target > 0
    BY <1>1, <1>2, <1>4, SMTT(40) DEF ScanTypeOK
  <2>2. pathSet' \subseteq Block /\ UNCHANGED <<prog, done, closing>>
    BY <1>1, <1>3 DEF Nest, ScanTypeOK
  <2> QED
    BY <1>1, <1>4, <2>1, <2>2 DEF ScanTypeOK
<1>7. DoneIsSettled' /\ DoneIsCut' /\ ClosesALoop'
  <2>1. DoneIsSettled' /\ DoneIsCut'
    BY <1>5 DEF ScanInv, DoneIsSettled, DoneIsCut, Nest
  <2> QED
    BY <1>5, <2>1 DEF ScanInv, ClosesALoop, Nest
<1>8. PassedIsSettled'
  <2>1. \A b : Targets(b)' = Targets(b)
    BY DEF Targets, LastInsn, Insns, Nest
  <2> SUFFICES ASSUME NEW i \in 1..(n + 1), NEW k \in 1..Len(Targets(dfsStack'[i].bb)),
                      k < dfsStack'[i].target
               PROVE  \/ Settled(dfsStack'[i].bb, Targets(dfsStack'[i].bb)[k])
                      \/ Entered(i, k)'
    BY <1>4, <1>5, <2>1 DEF PassedIsSettled
  <2>2. i \in 1..n
    BY <1>2, <1>4
  <2>3. dfsStack'[i].bb = dfsStack[i].bb /\ Len(Targets(dfsStack[i].bb)) \in Nat
    BY <2>2, <1>2, <1>4
  <2>4. CASE k < dfsStack[i].target
    <3>1. CASE Entered(i, k)
      <4>1. i + 1 \in 1..n /\ i # n
        BY <3>1, <2>2, <1>2 DEF Entered
      <4> QED
        BY <4>1, <3>1, <2>1, <2>2, <1>2, <1>4 DEF Entered
    <3> QED
      BY <3>1, <2>2, <2>3, <2>4 DEF ScanInv, PassedIsSettled
  <2>5. CASE ~(k < dfsStack[i].target)
    <3>1. i = n /\ k = dfsStack[n].target
      BY <1>2, <1>4, <2>2, <2>5, <2>3
    <3>2. x = Targets(dfsStack[n].bb)[k]
      BY <3>1, <1>2, <1>3 DEF NextBlock
    <3> QED
      BY <3>1, <3>2, <2>1, <1>2, <1>4 DEF Entered
  <2> QED
    BY <2>4, <2>5
<1>9. StackIsPath'
  <2>1. \A blocks : EdgeClosed(blocks)' <=> EdgeClosed(blocks)
    BY <1>5 DEF EdgeClosed
  <2> SUFFICES ASSUME NEW blocks \in SUBSET Block, EdgeClosed(blocks),
                      NEW i \in 1..(n + 1), NEW j \in 1..(n + 1),
                      i <= j, dfsStack'[i].bb \in blocks
               PROVE  dfsStack'[j].bb \in blocks
    BY <1>4, <2>1 DEF StackIsPath
  <2>2. CASE i = n + 1
    BY <2>2, <1>2
  <2>3. CASE i \in 1..n
    <3>1. \A m \in 1..n : i <= m => dfsStack[m].bb \in blocks
      BY <2>3, <1>4 DEF ScanInv, StackIsPath
    <3>2. x \in blocks
      BY <3>1, <2>3, <1>2, <1>3 DEF EdgeClosed
    <3> QED
      BY <3>1, <3>2, <1>2, <1>4
  <2> QED
    BY <2>2, <2>3, <1>2
<1>10. NothingForgotten'
  <2>1. \A b : OnStack(b) => OnStack(b)'
    <3> SUFFICES ASSUME NEW b, NEW i \in 1..n, dfsStack[i].bb = b
                 PROVE  OnStack(b)'
      BY DEF OnStack
    <3>1. i \in 1..(n + 1)
      BY <1>2
    <3> QED
      BY <1>4, <3>1 DEF OnStack
  <2>2. OnStack(x)'
    BY <1>2, <1>4, SMTT(40) DEF OnStack
  <2>3. pathSet' \subseteq pathSet \cup {x}
    BY <1>3 DEF Nest
  <2> QED
    BY <2>1, <2>2, <2>3 DEF ScanInv, NothingForgotten, Nest
<1> QED
  BY <1>6, <1>7, <1>8, <1>9, <1>10 DEF ScanInv

(* The block that is left has no open edge, but to blocks that are done. *)
LEMMA LeaveBlockInv == ScanInv /\ LeaveBlock => ScanInv'
<1> SUFFICES ASSUME ScanInv, LeaveBlock PROVE ScanInv'
  OBVIOUS
<1> DEFINE n == Len(dfsStack)
<1>1. ScanTypeOK /\ dfsStack # <<>>
  BY DEF ScanInv, LeaveBlock
<1>2. /\ n \in 1..n /\ n \in Nat /\ Top = dfsStack[n]
      /\ \A i \in 1..n : /\ dfsStack[i].bb \in Block
                         /\ dfsStack[i].target \in Nat
                         /\ Targets(dfsStack[i].bb) \in Seq(Block)
  BY <1>1, TopType, StackType
<1>3. PICK x \in Block : x = dfsStack[n].bb
  BY <1>2
<1>4. /\ dfsStack[n].target > Len(Targets(x))
      /\ done' = done \cup {x} /\ pathSet' = pathSet \ {x}
      /\ UNCHANGED <<prog, closing>>
  BY <1>2, <1>3 DEF LeaveBlock
<1>5. /\ dfsStack' \in Seq(Item)
      /\ Len(dfsStack') = n - 1
      /\ \A i \in 1..(n - 1) : dfsStack'[i] = dfsStack[i] /\ i \in 1..n
  <2>1. dfsStack' = Front(dfsStack)
    BY DEF LeaveBlock
  <2> QED
    BY <1>1, <1>2, <2>1, FrontProps
<1>6. \A b, t : (Edge(b, t)' <=> Edge(b, t)) /\ (Settled(b, t) => Settled(b, t)')
  BY <1>4 DEF Edge, Settled, Targets, LastInsn, Insns
<1>7. \A t : Edge(x, t) => Settled(x, t)
  <2> SUFFICES ASSUME NEW k \in 1..Len(Targets(x)) PROVE Settled(x, Targets(x)[k])
    BY DEF Edge
  <2>1. k < dfsStack[n].target
    BY <1>2, <1>3, <1>4
  <2>2. ~Entered(n, k)
    BY <1>2 DEF Entered
  <2> QED
    BY <2>1, <2>2, <1>2, <1>3 DEF ScanInv, PassedIsSettled
<1>8. ScanTypeOK'
  BY <1>1, <1>3, <1>4, <1>5 DEF ScanTypeOK
<1>9. DoneIsSettled'
  BY <1>4, <1>6, <1>7 DEF ScanInv, DoneIsSettled
<1>10. PassedIsSettled'
  <2>1. \A b : Targets(b)' = Targets(b)
    BY <1>4 DEF Targets, LastInsn, Insns
  <2> SUFFICES ASSUME NEW i \in 1..(n - 1), NEW k \in 1..Len(Targets(dfsStack[i].bb)),
                      k < dfsStack[i].target
               PROVE  \/ Settled(dfsStack[i].bb, Targets(dfsStack[i].bb)[k])'
                      \/ Entered(i, k)'
    BY <1>5, <2>1 DEF PassedIsSettled, Settled
  <2>2. CASE Settled(dfsStack[i].bb, Targets(dfsStack[i].bb)[k])
    BY <2>2, <2>1, <1>4, <1>5 DEF Settled
  <2>3. CASE Entered(i, k) /\ i + 1 = n
    <3>1. Targets(dfsStack[i].bb)[k] = x
      BY <2>3, <1>3 DEF Entered
    <3> QED
      BY <3>1, <2>1, <1>4, <1>5 DEF Settled
  <2>4. CASE Entered(i, k) /\ i + 1 # n
    <3>1. i + 1 \in 1..(n - 1) /\ i < n - 1
      BY <2>4, <1>2 DEF Entered
    <3> QED
      BY <3>1, <2>4, <2>1, <1>5 DEF Entered
  <2> QED
    BY <2>2, <2>3, <2>4, <1>5 DEF ScanInv, PassedIsSettled
<1>11. DoneIsCut'
  <2> SUFFICES ASSUME NEW blocks \in SUBSET (done \cup {x}), blocks # {}
               PROVE  \E b \in blocks : \A t \in blocks :
                         Edge(b, t) => <<b, t>> \in closing
    BY <1>4, <1>6 DEF DoneIsCut
  <2>1. CASE x \in done
    <3>1. blocks \in SUBSET done
      BY <2>1
    <3> QED
      BY <3>1 DEF ScanInv, DoneIsCut
  <2>2. CASE x \notin done /\ blocks \subseteq {x}
    <3>1. x \in blocks
      BY <2>2
    <3>2. \A t \in blocks : Edge(x, t) => <<x, t>> \in closing
      BY <2>2, <1>7 DEF Settled
    <3> QED
      BY <3>1, <3>2
  <2>3. CASE x \notin done /\ ~(blocks \subseteq {x})
    <3>1. PICK b \in blocks \ {x} :
             \A t \in blocks \ {x} : Edge(b, t) => <<b, t>> \in closing
      BY <2>3 DEF ScanInv, DoneIsCut
    <3>2. Edge(b, x) => <<b, x>> \in closing
      BY <3>1, <2>3 DEF ScanInv, DoneIsSettled, Settled
    <3> QED
      BY <3>1, <3>2
  <2> QED
    BY <2>1, <2>2, <2>3
<1>12. StackIsPath'
  <2>1. \A blocks : EdgeClosed(blocks)' <=> EdgeClosed(blocks)
    BY <1>6 DEF EdgeClosed
  <2> QED
    BY <1>5, <2>1 DEF ScanInv, StackIsPath
<1>13. ClosesALoop'
  BY <1>4, <1>6 DEF ScanInv, ClosesALoop
<1>14. NothingForgotten'
  <2>1. ASSUME NEW b, OnStack(b), b # x PROVE OnStack(b)'
    <3>1. PICK i \in 1..n : dfsStack[i].bb = b
      BY <2>1 DEF OnStack
    <3>2. i \in 1..(n - 1)
      BY <3>1, <2>1, <1>2, <1>3
    <3> QED
      BY <3>1, <3>2, <1>5 DEF OnStack
  <2> QED
    BY <2>1, <1>4 DEF ScanInv, NothingForgotten
<1> QED
  BY <1>8, <1>9, <1>10, <1>11, <1>12, <1>13, <1>14 DEF ScanInv

(* Every step of the search keeps the invariant. *)
LEMMA ScanStepInv == ScanInv /\ [ScanNext]_scanVars => ScanInv'
<1> SUFFICES ASSUME ScanInv, [ScanNext]_scanVars PROVE ScanInv'
  OBVIOUS
<1>1. CASE UNCHANGED scanVars
  <2>1. /\ prog' = prog /\ dfsStack' = dfsStack /\ pathSet' = pathSet
        /\ done' = done /\ closing' = closing
    BY <1>1 DEF scanVars
  <2>2. \A b : Targets(b)' = Targets(b)
    BY <2>1 DEF Targets, LastInsn, Insns
  <2>3. \A b : OnStack(b)' <=> OnStack(b)
    BY <2>1 DEF OnStack
  <2>4. \A b, t : Edge(b, t)' <=> Edge(b, t)
    BY <2>2 DEF Edge
  <2>5. \A b, t : Settled(b, t)' <=> Settled(b, t)
    BY <2>1 DEF Settled
  <2>6. \A i, k : Entered(i, k)' <=> Entered(i, k)
    BY <2>1, <2>2 DEF Entered
  <2>7. ScanTypeOK' /\ DoneIsSettled'
    BY <2>1, <2>4, <2>5 DEF ScanInv, ScanTypeOK, DoneIsSettled
  <2>8. DoneIsCut' /\ NothingForgotten'
    BY <2>1, <2>3, <2>4 DEF ScanInv, DoneIsCut, NothingForgotten
  <2>9. PassedIsSettled'
    <3> SUFFICES ASSUME NEW i \in 1..Len(dfsStack),
                        NEW k \in 1..Len(Targets(dfsStack[i].bb)),
                        k < dfsStack[i].target
                 PROVE  \/ Settled(dfsStack[i].bb, Targets(dfsStack[i].bb)[k])
                        \/ Entered(i, k)
      BY <2>1, <2>2, <2>5, <2>6 DEF PassedIsSettled
    <3> QED
      BY DEF ScanInv, PassedIsSettled
  <2>10. StackIsPath'
    <3>1. \A blocks : EdgeClosed(blocks)' <=> EdgeClosed(blocks)
      BY <2>4 DEF EdgeClosed
    <3> QED
      BY <2>1, <3>1 DEF ScanInv, StackIsPath
  <2>11. ClosesALoop'
    BY <2>1, <2>4 DEF ScanInv, ClosesALoop
  <2> QED
    BY <2>7, <2>8, <2>9, <2>10, <2>11 DEF ScanInv
<1>2. CASE ScanDone
  BY <1>1, <1>2 DEF ScanDone
<1> QED
  BY <1>1, <1>2, SkipTraversedInv, CloseLoopInv, NestInv, LeaveBlockInv DEF ScanNext

(* The invariant of the search. *)
LEMMA ScanInvariant == ScanSpec => []ScanInv
BY ScanInitInv, ScanStepInv, PTL DEF ScanSpec

(***************************************************************************)
(* For every control-flow graph: when LoopScan::analyzeFnc() is over, each *)
(* loop among the blocks it has traversed contains a loop-closing edge, so *)
(* that no loop escapes the abstraction and the join of the fixed-point    *)
(* computation.                                                            *)
(***************************************************************************)
THEOREM LoopsAreCut == ScanSpec => []EveryLoopIsClosed
<1>1. ScanInv => EveryLoopIsClosed
  BY DEF ScanInv, DoneIsCut, EveryLoopIsClosed
<1> QED
  BY <1>1, ScanInvariant, PTL

(***************************************************************************)
(* For every control-flow graph and at any time of the search: an edge is  *)
(* stored as loop-closing only if its target reaches its source, even      *)
(* though blocks with a single inbound edge are left out of pathSet.       *)
(***************************************************************************)
THEOREM OnlyLoopsAreCut == ScanSpec => []ClosesALoop
<1>1. ScanInv => ClosesALoop
  BY DEF ScanInv
<1> QED
  BY <1>1, ScanInvariant, PTL

(* The search ends with the entry and everything it reaches traversed. *)
ScanIsComplete ==
  dfsStack = <<>> => /\ prog.entry \in done
                     /\ \A b \in done, t \in Block : Edge(b, t) => t \in done

(***************************************************************************)
(* For every control-flow graph: no block that the entry reaches is missed *)
(* by LoopScan::analyzeFnc(), whatever edges it took for loop-closing and  *)
(* did not follow.  With LoopsAreCut, each loop of the function is cut.    *)
(***************************************************************************)
THEOREM ScanComplete == ScanSpec => []ScanIsComplete
<1>1. ScanInv => ScanIsComplete
  <2> SUFFICES ASSUME ScanInv, dfsStack = <<>> PROVE ScanIsComplete
    BY DEF ScanIsComplete
  <2>1. \A b : ~OnStack(b)
    BY DEF OnStack
  <2>2. prog.entry \in done /\ \A edge \in closing : edge[2] \in done
    BY <2>1 DEF ScanInv, NothingForgotten
  <2>3. ASSUME NEW b \in done, NEW t \in Block, Edge(b, t) PROVE t \in done
    <3>1. CASE <<b, t>> \in closing
      BY <3>1, <2>2
    <3> QED
      BY <2>3, <3>1 DEF ScanInv, DoneIsSettled, Settled
  <2> QED
    BY <2>2, <2>3 DEF ScanIsComplete
<1> QED
  BY <1>1, ScanInvariant, PTL

===============================================================================
