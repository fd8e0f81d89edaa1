------------------------------- MODULE SymState -------------------------------
(***************************************************************************)
(* The containers of symbolic heaps (symstate.hh, symstate.cc): a          *)
(* SymStateMarked per basic block (SymStateMap), and the SymStateWithJoin  *)
(* that joinCallResults() fills, whose marks and anyHit nobody reads.      *)
(*                                                                         *)
(* A call of insert() is several steps: InsertBegin looks for a heap to    *)
(* join with, PackStep is one turn of the loop in packState(), PackDone    *)
(* leaves packState(), InsertReturn hands the result to the caller.  The   *)
(* code is single-threaded: a client does nothing else in between.         *)
(*                                                                         *)
(* arrived and processed are history variables.  They record what insert() *)
(* was given and what the client has marked as done, and nothing reads     *)
(* them but the properties.                                                *)
(***************************************************************************)
EXTENDS ControlFlow, SymJoin, SequencesExt

CONSTANTS
  CallResults,  \* the key of the container used by joinCallResults()
  ClientKeys,   \* the containers that the client below uses, and
  MaxHeaps      \* its bound on their size

ASSUME SymStateAssumption == /\ CallResults \notin Block
                             /\ ClientKeys \subseteq Block \cup {CallResults}
                             /\ MaxHeaps \in Nat

VARIABLES
  cont,       \* d->cont: the containers
  ins,        \* the local variables of insert() and packState()
  arrived,    \* history: the heaps given to insert(), per container
  processed   \* history: the heaps that were marked as done, per container

svars == <<cont, ins, arrived, processed>>

Key == Block \cup {CallResults}

(* heaps and done are two vectors that every operation has to keep in step. *)
State == [heaps : Seq(Heap), done : Seq(BOOLEAN), cntPending : Int,
          anyHit : BOOLEAN]

Insertion == [pc : {"idle", "pack", "done"}, dst : Key, allowThreeWay : BOOLEAN,
              idxNew : Nat, idxOld : Nat, size : Nat, changed : BOOLEAN]

-------------------------------------------------------------------------------
(* The protected operations of SymStateMarked. *)

EmptyState ==
  [heaps |-> <<>>, done |-> <<>>, cntPending |-> 0, anyHit |-> FALSE]

(* push_back() on both vectors; a new heap waits for processing. *)
InsertNew(st, sh) ==
  [st EXCEPT !.heaps = Append(@, sh), !.done = Append(@, FALSE),
             !.cntPending = @ + 1]

(* Mutant: nothing is erased. *)
EraseExisting_KeepsHeap(st, nth) == st

EraseExisting(st, nth) ==
  [st EXCEPT !.heaps = RemoveAt(@, nth), !.done = RemoveAt(@, nth),
             !.cntPending = IF st.done[nth] THEN @ ELSE @ - 1]

(* Mutant: the mark of the heap that was replaced survives. *)
SwapExisting_KeepsMark(st, nth, sh) == [st EXCEPT !.heaps[nth] = sh]

(* A processed heap that has been generalized waits for processing again. *)
SwapExisting(st, nth, sh) ==
  [st EXCEPT !.heaps[nth] = sh, !.done[nth] = FALSE,
             !.cntPending = IF st.done[nth] THEN @ + 1 ELSE @]

(* rotate(begin, begin + nth, end) *)
RotateToFront(seq, nth) == SubSeq(seq, nth, Len(seq)) \o SubSeq(seq, 1, nth - 1)

(* Mutant: SymStateMarked does not override rotateExisting(). *)
RotateExisting_HeapsOnly(st, nth) ==
  [st EXCEPT !.heaps = RotateToFront(@, nth)]

(* rotateExisting(0, nth) *)
RotateExisting(st, nth) ==
  [st EXCEPT !.heaps = RotateToFront(@, nth), !.done = RotateToFront(@, nth)]

(* Mutant: the heap is counted but not marked. *)
MarkDone_NoMark(st, nth) == [st EXCEPT !.cntPending = @ - 1]

(* setDone() *)
MarkDone(st, nth) ==
  [st EXCEPT !.done[nth] = TRUE,
             !.cntPending = IF st.done[nth] THEN @ ELSE @ - 1]

(* SymStateMarked::clear() does not touch BlockState::anyHit. *)
ClearState(st) ==
  [st EXCEPT !.heaps = <<>>, !.done = <<>>, !.cntPending = 0]

(* SymStateMarked::swap() and operator=: all marks are reinitialized. *)
ImportHeaps(st, heaps) ==
  [st EXCEPT !.heaps = heaps, !.done = [i \in 1..Len(heaps) |-> FALSE],
             !.cntPending = Len(heaps)]

Pending(st) == {i \in 1..Len(st.done) : ~st.done[i]}

-------------------------------------------------------------------------------
(* SymStateMap::insert() and SymStateWithJoin::insert(). *)

(* A block entered by one edge that only decides where to go next is not   *)
(* even checked for isomorphism.                                           *)
BypassesChecks(key) ==
  /\ key \in Block
  /\ conf.joinMode > 2
  /\ InboundCnt(key) = 1
  /\ IsTrivial(key)

JoinRequested(allowThreeWay) ==
  /\ conf.joinMode >= 0
  /\ conf.joinMode < 2 \/ allowThreeWay

(* The loops over a state take a successful join unless it would replace a *)
(* heap although that is forbidden.                                        *)
Accepts(status) ==
  status # JS_FAIL /\ ~(conf.forbidReplace /\ status = JS_USE_SH2)

(* Mutant: the loop stops one heap too early. *)
Joinable_OffByOne(st, sh, allowThreeWay) ==
  {i \in 1..(Len(st.heaps) - 1) :
      Accepts(JoinStatus(st.heaps[i], sh, allowThreeWay))}

Joinable(st, sh, allowThreeWay) ==
  {i \in 1..Len(st.heaps) :
      Accepts(JoinStatus(st.heaps[i], sh, allowThreeWay))}

(* The end of SymStateMap::insert(): the size did not grow. *)
NoteHit(st, size) == IF Len(st.heaps) <= size THEN [st EXCEPT !.anyHit = TRUE]
                                              ELSE st

(* Mutant: a state that did not grow counts as unchanged. *)
Return_GrowthOnly(dst, st, size, changed) ==
  /\ cont' = [cont EXCEPT ![dst] = NoteHit(st, size)]
  /\ ins' = [ins EXCEPT !.pc = "done", !.dst = dst,
                        !.changed = Len(st.heaps) > size]

Return(dst, st, size, changed) ==
  /\ cont' = [cont EXCEPT ![dst] = NoteHit(st, size)]
  /\ ins' = [ins EXCEPT !.pc = "done", !.dst = dst, !.changed = changed]

(* SymHeapUnion::insert(): isomorphism only. *)
UnionInsert(dst, sh) ==
  LET st   == cont[dst]
      size == Len(st.heaps)
  IN  \/ /\ \A i \in 1..size : st.heaps[i] # sh
         /\ Return(dst, InsertNew(st, sh), size, TRUE)
      \/ \E i \in 1..size :
            /\ st.heaps[i] = sh
            /\ \A j \in 1..(i - 1) : st.heaps[j] # sh
            /\ Return(dst, IF conf.ordering > 1 THEN RotateExisting(st, i) ELSE st,
                      size, FALSE)

(* The heap is joined with the first one that can be joined with it. *)
JoinInsert(dst, sh, allowThreeWay) ==
  LET st       == cont[dst]
      size     == Len(st.heaps)
      joinable == Joinable(st, sh, allowThreeWay)
  IN  \/ /\ joinable = {}
         /\ Return(dst, InsertNew(st, sh), size, TRUE)
      \/ \E i \in joinable :
            LET status == JoinStatus(st.heaps[i], sh, allowThreeWay) IN
            /\ \A j \in joinable : i <= j
            /\ \/ /\ status \in {JS_USE_ANY, JS_USE_SH1}
                  /\ Return(dst,
                            IF conf.ordering > 0 THEN RotateExisting(st, i) ELSE st,
                            size, FALSE)
               \/ /\ status \in {JS_USE_SH2, JS_THREE_WAY}
                  /\ cont' = [cont EXCEPT ![dst] =
                        SwapExisting(st, i, IF status = JS_USE_SH2
                                            THEN sh
                                            ELSE JoinResult(st.heaps[i], sh))]
                  /\ ins' = [pc |-> "pack", dst |-> dst,
                             allowThreeWay |-> allowThreeWay,
                             idxNew |-> i, idxOld |-> 1,
                             size |-> size, changed |-> TRUE]

InsertBegin(dst, sh, allowThreeWay) ==
  /\ ins.pc = "idle"
  /\ arrived' = [arrived EXCEPT ![dst] = @ \cup {sh}]
  /\ \/ /\ BypassesChecks(dst)
        /\ Return(dst, InsertNew(cont[dst], sh), Len(cont[dst].heaps), TRUE)
     \/ /\ ~BypassesChecks(dst)
        /\ ~JoinRequested(allowThreeWay)
        /\ UnionInsert(dst, sh)
     \/ /\ ~BypassesChecks(dst)
        /\ JoinRequested(allowThreeWay)
        /\ JoinInsert(dst, sh, allowThreeWay)
  /\ UNCHANGED processed

(* packState() joins the heap at idxOld into the one at idxNew. *)
Merged(st, idxOld, idxNew, status) ==
  CASE status \in {JS_USE_ANY, JS_USE_SH2} -> st
    [] status = JS_USE_SH1   -> SwapExisting(st, idxNew, st.heaps[idxOld])
    [] status = JS_THREE_WAY ->
         SwapExisting(st, idxNew, JoinResult(st.heaps[idxOld], st.heaps[idxNew]))

(* One turn of the loop in packState(): the heap at idxOld is compared     *)
(* with the one just inserted, and given up if they can be joined.         *)
PackStep ==
  LET st     == cont[ins.dst]
      status == JoinStatus(st.heaps[ins.idxOld], st.heaps[ins.idxNew],
                           ins.allowThreeWay)
      joins  == ins.idxOld # ins.idxNew /\ Accepts(status)
  IN  /\ ins.pc = "pack"
      /\ ins.idxOld <= Len(st.heaps)
      /\ \/ /\ ~joins
            /\ ins' = [ins EXCEPT !.idxOld = @ + 1]
            /\ UNCHANGED cont
         \/ /\ joins
            /\ cont' = [cont EXCEPT ![ins.dst] =
                  EraseExisting(Merged(st, ins.idxOld, ins.idxNew, status), ins.idxOld)]
            /\ ins' = [ins EXCEPT !.idxNew = IF ins.idxOld < @ THEN @ - 1 ELSE @]
      /\ UNCHANGED <<arrived, processed>>

(* The end of packState(). *)
PackDone ==
  LET st == cont[ins.dst] IN
  /\ ins.pc = "pack"
  /\ ins.idxOld > Len(st.heaps)
  /\ Return(ins.dst,
            IF conf.ordering > 0 THEN RotateExisting(st, ins.idxNew) ELSE st,
            ins.size, TRUE)
  /\ UNCHANGED <<arrived, processed>>

(* The caller takes the result, ins.changed. *)
InsertReturn ==
  /\ ins.pc = "done"
  /\ ins' = [ins EXCEPT !.pc = "idle"]
  /\ UNCHANGED <<cont, arrived, processed>>

-------------------------------------------------------------------------------
(* What a client does with a container. *)

(* setDone(nth), on behalf of the heap sh that is going to be executed. *)
SetDone(key, nth, sh) ==
  /\ ins.pc = "idle"
  /\ nth \in 1..Len(cont[key].done)
  /\ cont' = [cont EXCEPT ![key] = MarkDone(@, nth)]
  /\ processed' = [processed EXCEPT ![key] = @ \cup {sh}]
  /\ UNCHANGED <<ins, arrived>>

(* The loop at the end of pruneOrigin() gives up on an unprocessed heap. *)
ClearIfDone(key) ==
  /\ ins.pc = "idle"
  /\ cont' = [cont EXCEPT ![key] = IF Pending(@) = {} THEN ClearState(@) ELSE @]
  /\ UNCHANGED <<ins, arrived, processed>>

(* A container starts a new life with the given heaps. *)
Import(key, heaps) ==
  /\ ins.pc = "idle"
  /\ cont' = [cont EXCEPT ![key] = ImportHeaps(@, heaps)]
  /\ arrived' = [arrived EXCEPT ![key] = {heaps[i] : i \in 1..Len(heaps)}]
  /\ processed' = [processed EXCEPT ![key] = {}]
  /\ UNCHANGED ins

-------------------------------------------------------------------------------
(* The containers under an arbitrary client. *)

IdleInsertion ==
  [pc |-> "idle", dst |-> CallResults, allowThreeWay |-> FALSE,
   idxNew |-> 0, idxOld |-> 0, size |-> 0, changed |-> FALSE]

InitSymState ==
  /\ cont = [k \in Key |-> EmptyState]
  /\ ins = IdleInsertion
  /\ arrived = [k \in Key |-> {}]
  /\ processed = [k \in Key |-> {}]

StateInit == InitControlFlow /\ InitSymState

ClientInsert ==
  \E key \in ClientKeys, sh \in Heap, allowThreeWay \in BOOLEAN :
     /\ Len(cont[key].heaps) < MaxHeaps
     /\ InsertBegin(key, sh, allowThreeWay)

ClientSetDone ==
  \E key \in ClientKeys : \E nth \in Pending(cont[key]) :
     SetDone(key, nth, cont[key].heaps[nth])

ClientClear == \E b \in ClientKeys \cap Block : ClearIfDone(b)

StateNext ==
  /\ \/ ClientInsert
     \/ PackStep
     \/ PackDone
     \/ InsertReturn
     \/ ClientSetDone
     \/ ClientClear
  /\ UNCHANGED <<prog, conf>>

stateVars == <<prog, conf, cont, ins, arrived, processed>>

(* Once insert() has been called it runs until it returns. *)
StateFairness == WF_stateVars((PackStep \/ PackDone) /\ UNCHANGED <<prog, conf>>)

StateSpec == StateInit /\ [][StateNext]_stateVars /\ StateFairness

-------------------------------------------------------------------------------
(* Properties *)

(* The containers hold heaps, never the result of a join that has failed,  *)
(* and the local variables of insert() and packState() are in their ranges. *)
StateTypeOK ==
  /\ cont \in [Key -> State]
  /\ ins \in Insertion
  /\ arrived \in [Key -> SUBSET Heap]
  /\ processed \in [Key -> SUBSET Heap]

(***************************************************************************)
(* A heap with the done_ mark is a heap that has been processed as it is,  *)
(* not one that a join has generalized since: execInsn() skips it.         *)
(***************************************************************************)
DoneIsProcessed ==
  \A k \in Key : \A i \in 1..Len(cont[k].heaps) :
     cont[k].done[i] => cont[k].heaps[i] \in processed[k]

CoveredBy(sh, heaps) == \E other \in heaps : <<other, sh>> \in Covers

PendingHeaps(st) == {st.heaps[i] : i \in Pending(st)}

(***************************************************************************)
(* No heap that was ever inserted gets lost: a heap that covers it has     *)
(* been processed or still waits for processing, whatever packState() has  *)
(* thrown away, pruneOrigin() has cleared or the bypass has let through.   *)
(***************************************************************************)
NothingLost ==
  \A k \in Key : \A sh \in arrived[k] :
     CoveredBy(sh, processed[k] \cup PendingHeaps(cont[k]))

(***************************************************************************)
(* Between two calls of insert() the state of a block holds no two         *)
(* isomorphic heaps, unless the bypass let them in: packState() skips what *)
(* it has compared with an earlier form of the new heap.                   *)
(***************************************************************************)
NoIsomorphicPair ==
  \A k \in Block : ins.pc # "pack" /\ ~BypassesChecks(k) =>
     \A i, j \in 1..Len(cont[k].heaps) :
        cont[k].heaps[i] = cont[k].heaps[j] => i = j

(***************************************************************************)
(* The loop in packState() ends although the state shrinks under it.       *)
(***************************************************************************)
PackTerminates == ins.pc = "pack" ~> ins.pc = "done"

===============================================================================
