----------------------------- MODULE SymExecEngine -----------------------------
(***************************************************************************)
(* SymExecEngine (symexec.cc): the fixed-point computation over the basic  *)
(* blocks of one function.  A behaviour is one life of an engine: it is    *)
(* created by initEngine(), its method run() takes blocks from the         *)
(* scheduler and executes their instructions heap by heap, and it returns  *)
(* "complete" (pc = "done").  A call of a defined function suspends run()  *)
(* (pc = "wait") until SymExec comes back with the results of the call.    *)
(*                                                                         *)
(* Indices count from 1 where the code counts from 0.                      *)
(***************************************************************************)
EXTENDS SymState, BlockScheduler

CONSTANTS
  EntryHeaps,  \* the heaps the function may be entered with
  Post,        \* Post[f][sh]: the heaps that f yields for sh, in order
  Fatal,       \* pairs <<f, sh>> for which the instruction fails fatally
  Abstract,    \* abstractIfNeeded()
  SetExit,     \* setExitPoint()
  Destroy      \* destroyProgVars() of an exited program

(***************************************************************************)
(* What the engine relies on: abstraction yields a heap that covers the    *)
(* given one, CL_INSN_RET yields exactly one heap, the exit point is never *)
(* lost, and a terminal instruction cannot exit the program.               *)
(***************************************************************************)
ASSUME EngineAssumption ==
  /\ EntryHeaps \subseteq Heap \ ExitHeap
  /\ Post \in [Fn -> [Heap -> Seq(Heap)]]
  /\ Fatal \subseteq Fn \X Heap
  /\ Abstract \in [Heap -> Heap]
  /\ \A sh \in Heap : <<Abstract[sh], sh>> \in Covers
  /\ SetExit \in [Heap -> ExitHeap]
  /\ Destroy \in [ExitHeap -> ExitHeap]
  /\ \A p \in Programs, b \in Block : \A i \in 1..Len(p.insns[b]) :
        LET insn == p.insns[b][i] IN
        /\ insn.code = "ret" => \A sh \in Heap : Len(Post[insn.fns[1]][sh]) = 1
        /\ insn.code = "cond" => \A f \in {1, 2}, sh \in Heap \ ExitHeap :
              Post[insn.fns[f]][sh] \in Seq(Heap \ ExitHeap)

VARIABLES
  entry,           \* history: the heap the function was entered with
  pc,              \* where run() is: "getNext", "insn", "emit", "wait", "join"
  block,           \* block_
  insnIdx,         \* insnIdx_
  heapIdx,         \* heapIdx_
  localState,      \* localState_
  nextLocalState,  \* nextLocalState_
  emit,            \* the calls of updateState() the instruction still makes
  callResults,     \* callResults_
  results,         \* dst_, the results of the function
  endReached       \* endReached_

engineVars == <<entry, pc, block, insnIdx, heapIdx, localState, nextLocalState, emit,
                callResults, results, endReached>>
vars == <<prog, conf, svars, todo, sched, engineVars>>

CurInsn == Insns(block)[insnIdx]
CurHeap == localState[heapIdx]

-------------------------------------------------------------------------------
(* initEngine(): the entry block is given the initial heap and scheduled. *)
Init ==
  /\ InitControlFlow
  /\ entry \in EntryHeaps
  /\ cont = [k \in Key |-> IF k = prog.entry THEN InsertNew(EmptyState, entry)
                                             ELSE EmptyState]
  /\ arrived = [k \in Key |-> IF k = prog.entry THEN {entry} ELSE {}]
  /\ ins = IdleInsertion
  /\ processed = [k \in Key |-> {}]
  /\ todo = {prog.entry}
  /\ sched = IF conf.schedKind < 3 THEN <<prog.entry>> ELSE <<>>
  /\ pc = "getNext"
  /\ block = prog.entry
  /\ insnIdx = 1 /\ heapIdx = 1
  /\ localState = <<>> /\ nextLocalState = <<>>
  /\ emit = <<>> /\ callResults = <<>> /\ results = <<>>
  /\ endReached = FALSE

(* SymStateMap::cntPending() *)
PendingCnt == [b \in Block |-> cont[b].cntPending]

(* The head of the main loop in run() and the start of execBlock(). *)
GetNext ==
  /\ pc = "getNext"
  /\ \E bb \in todo :
        /\ GetNextBlock(bb, PendingCnt)
        /\ block' = bb
        /\ localState' = cont[bb].heaps
  /\ insnIdx' = 1
  /\ heapIdx' = 1
  /\ nextLocalState' = <<>>
  /\ pc' = "insn"
  /\ UNCHANGED <<svars, emit, callResults, results, endReached>>

(* run() returns: no block waits. *)
Complete ==
  /\ pc = "getNext"
  /\ todo = {}
  /\ pc' = "done"
  /\ UNCHANGED <<svars, todo, sched, block, insnIdx, heapIdx, localState,
                 nextLocalState, emit, callResults, results, endReached>>

-------------------------------------------------------------------------------
(* execInsn(): the body of the loop over localState_. *)

AtHeap == pc = "insn" /\ heapIdx <= Len(localState)

(* The first instruction skips the heaps that have been processed. *)
SkipDone ==
  /\ AtHeap
  /\ insnIdx = 1
  /\ cont[block].done[heapIdx]
  /\ heapIdx' = heapIdx + 1
  /\ UNCHANGED <<svars, todo, sched, pc, block, insnIdx, localState,
                 nextLocalState, emit, callResults, results, endReached>>

(* ... and marks the others: from now on they may be scheduled again. *)
TakeHeap ==
  /\ AtHeap
  /\ \/ /\ insnIdx = 1
        /\ ~cont[block].done[heapIdx]
        /\ SetDone(block, heapIdx, CurHeap)
     \/ /\ insnIdx > 1
        /\ UNCHANGED svars
  /\ UNCHANGED <<todo, sched, block, insnIdx, localState>>

(* The comparison is left to the CL_INSN_COND that follows. *)
LookAheadCond ==
  /\ TakeHeap
  /\ CurInsn.code = "cmp"
  /\ heapIdx' = heapIdx + 1
  /\ UNCHANGED <<pc, nextLocalState, emit, callResults, results, endReached>>

(* Mutant: an exit is not noted as an end of the function. *)
HandleExitPoint_NotNoted ==
  /\ TakeHeap
  /\ CurInsn.code # "cmp"
  /\ CurHeap \in ExitHeap
  /\ results' = Append(results, Destroy[CurHeap])
  /\ heapIdx' = heapIdx + 1
  /\ UNCHANGED <<pc, nextLocalState, emit, callResults, endReached>>

(* handleExitPoint(): the program has exited, go directly to the caller. *)
HandleExitPoint ==
  /\ TakeHeap
  /\ CurInsn.code # "cmp"
  /\ CurHeap \in ExitHeap
  /\ results' = Append(results, Destroy[CurHeap])
  /\ endReached' = TRUE
  /\ heapIdx' = heapIdx + 1
  /\ UNCHANGED <<pc, nextLocalState, emit, callResults>>

Executes(code) == TakeHeap /\ CurInsn.code = code /\ CurHeap \notin ExitHeap

(* execNontermInsn() of an instruction that SymExecCore handles. *)
ExecNontermInsn ==
  /\ Executes("op")
  /\ nextLocalState' = nextLocalState \o Post[CurInsn.fns[1]][CurHeap]
  /\ endReached' = (endReached \/ <<CurInsn.fns[1], CurHeap>> \in Fatal)
  /\ heapIdx' = heapIdx + 1
  /\ UNCHANGED <<pc, emit, callResults, results>>

(* execNontermInsn() of a call: suspend and wait for the results. *)
SuspendForCall ==
  /\ Executes("call")
  /\ heapIdx' = heapIdx + 1
  /\ callResults' = <<>>
  /\ pc' = "wait"
  /\ UNCHANGED <<nextLocalState, emit, results, endReached>>

ExecReturn ==
  /\ Executes("ret")
  /\ results' = results \o Post[CurInsn.fns[1]][CurHeap]
  /\ endReached' = TRUE
  /\ heapIdx' = heapIdx + 1
  /\ UNCHANGED <<pc, nextLocalState, emit, callResults>>

ExecAbort ==
  /\ Executes("abort")
  /\ results' = IF conf.exitLeaks THEN Append(results, Destroy[SetExit[CurHeap]])
                                  ELSE results
  /\ endReached' = TRUE
  /\ heapIdx' = heapIdx + 1
  /\ UNCHANGED <<pc, nextLocalState, emit, callResults>>

(* Mutant: the last heap of a branch is forgotten. *)
Updates_OffByOne(heaps, target) ==
  [i \in 1..(Len(heaps) - 1) |-> [dst |-> target, heap |-> heaps[i]]]

Updates(heaps, target) ==
  [i \in 1..Len(heaps) |-> [dst |-> target, heap |-> heaps[i]]]

ExecJump ==
  /\ Executes("jmp")
  /\ emit' = Updates(<<CurHeap>>, CurInsn.targets[1])
  /\ pc' = "emit"
  /\ UNCHANGED <<heapIdx, nextLocalState, callResults, results, endReached>>

(* execCondInsn(): the then branch goes first; a comparison whose result   *)
(* is known, or that has failed, yields no heap for a branch.              *)
ExecCondInsn ==
  /\ Executes("cond")
  /\ emit' = Updates(Post[CurInsn.fns[1]][CurHeap], CurInsn.targets[1])
          \o Updates(Post[CurInsn.fns[2]][CurHeap], CurInsn.targets[2])
  /\ pc' = "emit"
  /\ UNCHANGED <<heapIdx, nextLocalState, callResults, results, endReached>>

-------------------------------------------------------------------------------
(* updateState() *)

UpdateState ==
  /\ pc = "emit"
  /\ emit # <<>>
  /\ LET dst     == Head(emit).dst
         sh      == Head(emit).heap
         closing == IsLoopClosingEdge(block, dst)
     IN  InsertBegin(dst, IF closing THEN Abstract[sh] ELSE sh,
                     closing \/ conf.joinMode = 0)
  /\ UNCHANGED <<todo, sched, engineVars>>

(* The target is scheduled if its state has changed. *)
ScheduleTarget ==
  /\ pc = "emit"
  /\ InsertReturn
  /\ IF ins.changed THEN Schedule(ins.dst) ELSE UNCHANGED <<todo, sched>>
  /\ emit' = Tail(emit)
  /\ UNCHANGED <<pc, block, insnIdx, heapIdx, localState, nextLocalState,
                 callResults, results, endReached>>

(* The terminal instruction is done with the current heap. *)
UpdatesDone ==
  /\ pc = "emit"
  /\ emit = <<>>
  /\ pc' = "insn"
  /\ heapIdx' = heapIdx + 1
  /\ UNCHANGED <<svars, todo, sched, block, insnIdx, localState, nextLocalState,
                 emit, callResults, results, endReached>>

(* A turn, or the end, of the loop in packState(). *)
Pack == (PackStep \/ PackDone) /\ UNCHANGED <<todo, sched, engineVars>>

-------------------------------------------------------------------------------
(* pruneOrigin(): may the state of the current block be thrown away? *)
Prunable ==
  LET size == Len(cont[block].heaps) IN
  /\ conf.pruneMode > 0
  /\ ~IsLoopEntry(block)
  /\ \/ conf.missThr > 0 /\ ~cont[block].anyHit /\ conf.missThr <= size
     \/ conf.totalThr > 0 /\ conf.totalThr <= size
     \/ /\ conf.pruneMode < 2 => IsTrivial(block)
        /\ conf.pruneMode < 3 => InboundCnt(block) <= 1

PruneOrigin == IF Prunable THEN ClearIfDone(block) ELSE UNCHANGED svars

(* execInsn() is complete: execBlock() goes on to the next instruction, or *)
(* leaves the block if there is nothing to go on with.                     *)
EndOfInsn ==
  LET nextState == IF CurInsn.code = "cmp" THEN localState ELSE nextLocalState
  IN  /\ pc = "insn"
      /\ heapIdx > Len(localState)
      /\ IF insnIdx = 1 THEN PruneOrigin ELSE UNCHANGED svars
      /\ \/ /\ nextState = <<>>
            /\ pc' = "getNext"
            /\ UNCHANGED <<insnIdx, heapIdx, localState>>
         \/ /\ nextState # <<>>
            /\ insnIdx' = insnIdx + 1
            /\ heapIdx' = 1
            /\ localState' = nextState
            /\ UNCHANGED pc
      /\ nextLocalState' = <<>>
      /\ UNCHANGED <<todo, sched, block, emit, callResults, results, endReached>>

-------------------------------------------------------------------------------
(* SymExec wakes the engine up with the results of the call (execFnc()); a *)
(* callee without a result may ask the caller to be silent about its end.  *)
CallReturns ==
  /\ pc = "wait"
  /\ callResults' = Post[CurInsn.fns[1]][localState[heapIdx - 1]]
  /\ \E silent \in BOOLEAN :
        /\ silent => callResults' = <<>>
        /\ endReached' = (endReached \/ silent)
  /\ Import(CallResults, nextLocalState)
  /\ pc' = "join"
  /\ UNCHANGED <<todo, sched, block, insnIdx, heapIdx, localState,
                 nextLocalState, emit, results>>

(* joinCallResults() *)
JoinCallResult ==
  /\ pc = "join"
  /\ callResults # <<>>
  /\ InsertBegin(CallResults, Head(callResults), TRUE)
  /\ UNCHANGED <<todo, sched, engineVars>>

CallResultJoined ==
  /\ pc = "join"
  /\ InsertReturn
  /\ callResults' = Tail(callResults)
  /\ UNCHANGED <<todo, sched, pc, block, insnIdx, heapIdx, localState,
                 nextLocalState, emit, results, endReached>>

CallResultsDone ==
  /\ pc = "join"
  /\ callResults = <<>>
  /\ nextLocalState' = cont[CallResults].heaps
  /\ Import(CallResults, <<>>)
  /\ pc' = "insn"
  /\ UNCHANGED <<todo, sched, block, insnIdx, heapIdx, localState, emit,
                 callResults, results, endReached>>

Terminated == pc = "done" /\ UNCHANGED <<svars, todo, sched, engineVars>>

Next ==
  /\ \/ GetNext
     \/ Complete
     \/ SkipDone
     \/ LookAheadCond
     \/ HandleExitPoint
     \/ ExecNontermInsn
     \/ SuspendForCall
     \/ ExecReturn
     \/ ExecAbort
     \/ ExecJump
     \/ ExecCondInsn
     \/ UpdateState
     \/ ScheduleTarget
     \/ UpdatesDone
     \/ Pack
     \/ EndOfInsn
     \/ CallReturns
     \/ JoinCallResult
     \/ CallResultJoined
     \/ CallResultsDone
     \/ Terminated
  /\ UNCHANGED <<prog, conf, entry>>

(* The engine is a sequential program: it takes a step whenever it can. *)
Spec == Init /\ [][Next]_vars /\ WF_vars(Next)

-------------------------------------------------------------------------------
(* Properties *)

(***************************************************************************)
(* A block with a heap that waits for processing is in the queue, unless   *)
(* execInsn() is just walking over its heaps and the heap is still ahead,  *)
(* or insert() is about to report the change to updateState().             *)
(***************************************************************************)
PendingIsScheduled ==
  \A b \in Block : \A i \in Pending(cont[b]) :
     \/ b \in todo
     \/ b = block /\ insnIdx = 1 /\ pc # "getNext" /\ heapIdx <= i
     \/ b = ins.dst /\ ins.pc \in {"pack", "done"} /\ ins.changed

(***************************************************************************)
(* The index walks over a copy, localState_, and looks for the marks in    *)
(* the original.  A heap that is skipped has really been processed: "for   *)
(* this particular symbolic heap, we already know the result and the       *)
(* result is already included in the resulting state, skip it".            *)
(***************************************************************************)
SkippedIsProcessed ==
  AtHeap /\ insnIdx = 1 =>
     /\ heapIdx \in DOMAIN cont[block].done
     /\ cont[block].done[heapIdx] => CurHeap \in processed[block]

(***************************************************************************)
(* pruneOrigin() never meets an unprocessed heap, where it would trap      *)
(* ("SymExecEngine::pruneOrigin() has failed"): calls, joins and updates   *)
(* of other blocks may come between the marks and the pruning.             *)
(***************************************************************************)
PruneNeverFails ==
  pc = "insn" /\ insnIdx = 1 /\ heapIdx > Len(localState)
     => Pending(cont[block]) = {}

(***************************************************************************)
(* The state of a block that a loop starts with never holds a heap twice:  *)
(* mode 3 "skips the isomorphism check when considered redundant", and it  *)
(* is not redundant where a loop comes back.                               *)
(***************************************************************************)
LoopEntryIsChecked ==
  \A b \in Block : ins.pc # "pack" /\ IsLoopEntry(b) =>
     \A i, j \in 1..Len(cont[b].heaps) :
        cont[b].heaps[i] = cont[b].heaps[j] => i = j

(***************************************************************************)
(* The computation ends: joins, pruning and the reordering of heaps and    *)
(* blocks cannot make it process the same heaps for ever.                  *)
(***************************************************************************)
Termination == <>(pc = "done")

===============================================================================
