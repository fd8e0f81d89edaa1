---------------------------- MODULE BlockScheduler ----------------------------
(***************************************************************************)
(* BlockScheduler (symstate.cc): which basic block is analyzed next.       *)
(* d->todo is a set, d->sched the queue that orders it; schedule() keeps   *)
(* one entry per block, getNext() takes one block out.                     *)
(***************************************************************************)
EXTENDS ControlFlow, SequencesExt

VARIABLES
  todo,   \* d->todo, the blocks that wait to be analyzed
  sched   \* d->sched: a FIFO queue (kind 0) or a stack, top at the end (1, 2)

(* rotate(first, middle, end): the element at middle becomes the first one. *)
RotateFrom(s, first, middle) ==
  SubSeq(s, 1, first - 1) \o SubSeq(s, middle, Len(s))
                          \o SubSeq(s, first, middle - 1)

(* Mutant: the block is queued once more. *)
Prioritize_PushAgain(queue, bb) == Append(queue, bb)

(* The queue after schedule() was asked for a block that waits already. *)
Prioritize(queue, bb) ==
  LET idx == CHOOSE i \in 1..Len(queue) : queue[i] = bb
  IN  IF idx = Len(queue) THEN queue
                          ELSE RotateFrom(queue, idx, Len(queue))

(* BlockScheduler::schedule() *)
Schedule(bb) ==
  /\ todo' = todo \cup {bb}
  /\ \/ /\ bb \notin todo
        /\ sched' = IF conf.schedKind < 3 THEN Append(sched, bb) ELSE sched
     \/ /\ bb \in todo
        /\ sched' = IF conf.schedKind = 2 THEN Prioritize(sched, bb) ELSE sched

(***************************************************************************)
(* BlockScheduler::getNext() with cntPending[bb] heaps pending in block    *)
(* bb: the load-driven scheduler (kind 3) takes a block with the fewest    *)
(* pending heaps, ties being broken by the addresses of the blocks.        *)
(***************************************************************************)
GetNextBlock(bb, cntPending) ==
  /\ todo # {}
  /\ todo' = todo \ {bb}
  /\ \/ /\ conf.schedKind = 0
        /\ bb = Head(sched)
        /\ sched' = Tail(sched)
     \/ /\ conf.schedKind \in {1, 2}
        /\ bb = Last(sched)
        /\ sched' = Front(sched)
     \/ /\ conf.schedKind = 3
        /\ bb \in todo
        /\ \A other \in todo : cntPending[bb] <= cntPending[other]
        /\ UNCHANGED sched

InitScheduler == todo = {} /\ sched = <<>>

schedulerVars == <<prog, conf, todo, sched>>

(***************************************************************************)
(* The queue holds each waiting block exactly once, whichever of the       *)
(* reorderings schedule() did before.  getNext() and schedule() trap on a  *)
(* mismatch ("BlockScheduler malfunction", "detected inconsistency").      *)
(***************************************************************************)
QueueMatchesTodo ==
  conf.schedKind < 3 =>
     /\ todo = {sched[i] : i \in 1..Len(sched)}
     /\ \A i, j \in 1..Len(sched) : sched[i] = sched[j] => i = j

(***************************************************************************)
(* SE_BLOCK_SCHEDULER_KIND 2 is to "move already scheduled blocks to front *)
(* of queue" (config.h): the block is the next one that getNext() takes.   *)
(***************************************************************************)
RescheduledIsNext ==
  [][\A bb \in todo : conf.schedKind = 2 /\ Schedule(bb) => Last(sched') = bb]_schedulerVars

===============================================================================
