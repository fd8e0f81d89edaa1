--------------------------- MODULE EngineRefinement ---------------------------
(***************************************************************************)
(* SymExecEngine implements WorkSet.  The places that wait are the pending *)
(* heaps of the blocks and all heaps that run() has in its hands: the rest *)
(* of localState_, what nextLocalState_, callResults_ and the container of *)
(* joinCallResults() have collected, and the calls of updateState() that   *)
(* the terminal instruction still makes.  The engine does not remember the *)
(* places inside of a block that it has executed; a history variable does. *)
(***************************************************************************)
EXTENDS Places

CONSTANT MaxLen  \* the number of instructions of the longest block

ASSUME MaxLenAssumption ==
  /\ MaxLen \in Nat
  /\ \A p \in Programs, b \in Block : Len(p.insns[b]) <= MaxLen

VARIABLE executed  \* history: the places that have been executed

(* The place whose instruction is executed in a step from this state; a    *)
(* call is executed when its results are there.                            *)
Consumed ==
  {<<block, insnIdx, localState[j]>> : j \in
     {j \in 1..Len(localState) :
        \/ pc = "wait" /\ j = heapIdx - 1
        \/ /\ AtHeap
           /\ j = heapIdx
           /\ ~(insnIdx = 1 /\ cont[block].done[j])
           /\ CurInsn.code = "call" => CurHeap \in ExitHeap}}

HistInit == Init /\ executed = {}
HistNext == Next /\ executed' = executed \cup Consumed
HistSpec ==
  /\ HistInit
  /\ [][HistNext]_<<vars, executed>>
  /\ WF_<<vars, executed>>(HistNext)

-------------------------------------------------------------------------------
Busy == pc \notin {"getNext", "done"}

(* Heaps of localState_ that the current instruction still has to execute. *)
LocalRest ==
  IF insnIdx = 1 THEN {}
  ELSE {localState[j] : j \in (IF pc = "emit" THEN heapIdx + 1 ELSE heapIdx)..Len(localState)}

(* Heaps that wait in front of the next instruction of the block. *)
Collected ==
  CASE pc = "join" -> Elements(callResults) \cup Elements(cont[CallResults].heaps)
    [] pc = "insn" /\ CurInsn.code = "cmp" -> {localState[j] : j \in 1..(heapIdx - 1)}
    [] OTHER -> Elements(nextLocalState)

BlockPlaces == UNION {{<<b, 1, sh>> : sh \in PendingHeaps(cont[b])} : b \in Block}
LocalPlaces == {<<block, insnIdx, sh>> : sh \in LocalRest}
NextPlaces == {<<block, insnIdx + 1, sh>> : sh \in Collected}
UpdatePlaces == {<<e.dst, 1, e.heap>> : e \in Elements(emit)}
CallPlace == IF pc = "wait" THEN Consumed ELSE {}

Waiting ==
  BlockPlaces \cup
    IF Busy THEN LocalPlaces \cup NextPlaces \cup UpdatePlaces \cup CallPlace ELSE {}

Place == Block \X (1..MaxLen) \X Heap
IsPlace(p) == p[2] <= Len(Insns(p[1]))

PlaceCovers ==
  {pair \in Place \X Place :
     LET p == pair[1]  q == pair[2] IN
     p[1] = q[1] /\ p[2] = q[2] /\ <<p[3], q[3]>> \in Covers}

Abs == INSTANCE WorkSet WITH
  Result <- Heap,
  Above  <- PlaceCovers,
  start  <- <<prog.entry, 1, entry>>,
  succ   <- [p \in Place |-> IF IsPlace(p) THEN Successors(p) ELSE {}],
  yields <- [p \in Place |-> IF IsPlace(p) THEN Yield(p) ELSE {}],
  work   <- Waiting,
  done   <- executed,
  out    <- Elements(results)

(***************************************************************************)
(* Whatever the scheduler, the joins, the marks, the pruning, the calls    *)
(* and the look-ahead of conditions do, each step of the engine executes   *)
(* one place that waits, or rearranges what waits, and loses nothing that  *)
(* is not covered.  What is proved of WorkSet holds of the engine.         *)
(***************************************************************************)
ImplementsWorkSet == Abs!WorkSpec

===============================================================================
