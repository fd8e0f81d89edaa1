------------------------------- MODULE CallCache -------------------------------
(***************************************************************************)
(* The stack of pending calls (SymExec in symexec.cc), the cache of call   *)
(* contexts (symcall.cc) and the backtrace (symbt.cc).                     *)
(*                                                                         *)
(* A function is called with the part of the heap that it can reach; the   *)
(* rest, the call frame, is joined with its results.  A global variable    *)
(* that a function needs and nobody has touched yet is imported lazily     *)
(* from the frames below, which changes the entries (and the cache keys)   *)
(* of the contexts in between.                                             *)
(*                                                                         *)
(* A heap is the value of the one local variable of a function and of the  *)
(* global variables that are alive in it.  A value that is the name of a   *)
(* global variable is a pointer to it.                                     *)
(***************************************************************************)
EXTENDS Integers, Sequences, SequencesExt, FiniteSets, TLC

CONSTANTS
  Fnc,        \* functions
  GlVar,      \* global variables
  GlOrder,    \* the sequence of all global variables, ordered by their uid
  Plain,      \* values that are no pointers
  InitVal,    \* what a global variable is initialized to
  Unknown,    \* the value of an unresolved call
  Programs,   \* [main, code, enabled, ordering]
  MaxDepth,   \* SE_MAX_CALL_DEPTH
  MissThr     \* SE_CALL_CACHE_MISS_THR

ASSUME CallCacheAssumption ==
  /\ {InitVal, Unknown} \subseteq Plain
  /\ Plain \cap GlVar = {}
  /\ GlOrder \in Seq(GlVar) /\ GlVar = {GlOrder[i] : i \in 1..Len(GlOrder)}
  /\ MaxDepth \in Nat /\ MissThr \in Nat \ {0}

VARIABLES
  prog,       \* the program, SE_ENABLE_CALL_CACHE and stateLiveOrdering
  cache,      \* SymCallCache::Private::cache, a PerFncCache for each function
  ctx,        \* all call contexts ever created, in the order of creation
  ctxStack,   \* SymCallCache::Private::ctxStack, top at the end
  bt,         \* SymBackTrace, top at the end
  execStack,  \* SymExec::execStack_, top at the end
  results,    \* what execute() hands out
  complaints  \* the errors that were reported: "recursion", "depth"

vars == <<prog, cache, ctx, ctxStack, bt, execStack, results, complaints>>

Val == Plain \cup GlVar
PartialGl == UNION {[D -> Val] : D \in SUBSET GlVar}
Heap == [loc : Val, gl : PartialGl]

(***************************************************************************)
(* Instructions: "set" writes val to the global variable var, "get" reads  *)
(* it to the local variable, "addr" takes its address, "store" writes val  *)
(* through the pointer in the local variable, "any" makes it InitVal or    *)
(* Unknown, "if" jumps when it is val, "call" is local = fnc(local).       *)
(***************************************************************************)
Code(f) == prog.code[f]
IsDefined(f) == Code(f) # <<>>

(* The global variables in fnc.vars: those that the code of f names. *)
GlVarsOf(f) ==
  {Code(f)[i].var : i \in {j \in 1..Len(Code(f)) : Code(f)[j].op \in {"set", "get", "addr"}}}

NoCtx == 0
EmptyCache == [keys |-> <<>>, ctxs |-> <<>>, missCnt |-> 0]

IsAlive(gl, g) == g \in DOMAIN gl
Confine(gl, S) == [g \in DOMAIN gl \cap S |-> gl[g]]

-----------------------------------------------------------------------------
(* PerFncCache *)

(* PerFncCache::cacheHit() *)
CacheHit(missCnt) == IF missCnt > 0 THEN 0 ELSE missCnt - 1

ToFront(s, idx) == SubSeq(s, idx, Len(s)) \o SubSeq(s, 1, idx - 1)

(* Mutant: the contexts are not reordered together with the keys. *)
LookupCore_KeysOnly(pfc, sh) ==
  LET hits == {i \in 1..Len(pfc.keys) : pfc.keys[i] = sh}
      idx == CHOOSE i \in hits : \A j \in hits : i <= j
  IN  IF hits = {}
      THEN [idx |-> Len(pfc.keys) + 1,
            pfc |-> [keys |-> Append(pfc.keys, sh), ctxs |-> Append(pfc.ctxs, NoCtx),
                     missCnt |-> pfc.missCnt + 1]]
      ELSE IF prog.ordering > 1
      THEN [idx |-> 1, pfc |-> [pfc EXCEPT !.keys = ToFront(@, idx),
                                           !.missCnt = CacheHit(@)]]
      ELSE [idx |-> idx, pfc |-> [pfc EXCEPT !.missCnt = CacheHit(@)]]

(***************************************************************************)
(* PerFncCache::lookupCore(): the index of the first isomorphic key, which *)
(* goes to the front if live ordering is on; otherwise a new key without a *)
(* context.                                                                *)
(***************************************************************************)
LookupCore(pfc, sh) ==
  LET hits == {i \in 1..Len(pfc.keys) : pfc.keys[i] = sh}
      idx == CHOOSE i \in hits : \A j \in hits : i <= j
  IN  IF hits = {}
      THEN [idx |-> Len(pfc.keys) + 1,
            pfc |-> [keys |-> Append(pfc.keys, sh), ctxs |-> Append(pfc.ctxs, NoCtx),
                     missCnt |-> pfc.missCnt + 1]]
      ELSE IF prog.ordering > 1
      THEN [idx |-> 1, pfc |-> [keys |-> ToFront(pfc.keys, idx),
                                ctxs |-> ToFront(pfc.ctxs, idx),
                                missCnt |-> CacheHit(pfc.missCnt)]]
      ELSE [idx |-> idx, pfc |-> [pfc EXCEPT !.missCnt = CacheHit(@)]]

(* PerFncCache::updateCacheEntry(): an update counts as a miss. *)
UpdateCacheEntry(pfc, of, by) ==
  LET found == LookupCore(pfc, of)
  IN  IF ~prog.enabled THEN pfc
      ELSE [found.pfc EXCEPT !.keys[found.idx] = by, !.missCnt = pfc.missCnt + 1]

(* SymCallCtx::inUse() *)
InUse(c) == ~c.flushed

-----------------------------------------------------------------------------
(* Import of global variables *)

(* importGlVar(): the topmost frame with the variable alive, or the bottom. *)
ImportFrom(g) ==
  LET alive == {i \in 2..Len(ctxStack) : IsAlive(ctx[ctxStack[i]].frame, g)}
  IN  IF alive = {} THEN 1 ELSE CHOOSE i \in alive : \A j \in alive : j <= i

(* pullGlVar() *)
PullGlVar(gl, g) == IF IsAlive(gl, g) THEN gl[g] ELSE InitVal

(* pushGlVar(): a variable that is alive stays as it is. *)
PushGlVar(heap, g, val) ==
  IF IsAlive(heap.gl, g) THEN heap ELSE [heap EXCEPT !.gl = @ @@ (g :> val)]

(***************************************************************************)
(* One level of the upward loop of importGlVar(): c is the context, st the *)
(* caches and contexts so far.                                             *)
(***************************************************************************)
ImportLevel(st, c, g, val) ==
  LET src == st.ctx[c].entry
      dst == PushGlVar(src, g, val)
      f == st.ctx[c].fnc
  IN  [st EXCEPT !.ctx[c].entry = dst,
                 !.cache[f] = UpdateCacheEntry(@, src, dst)]

(* The loop, from the given frame up to the top. *)
ImportLevels(st, g, val, from) ==
  LET upTo[i \in 0..Len(ctxStack)] ==
        IF i = 0 THEN st
        ELSE IF i < from THEN upTo[i - 1]
        ELSE ImportLevel(upTo[i - 1], ctxStack[i], g, val)
  IN  upTo[Len(ctxStack)]

(* SymCallCache::Private::importGlVar() *)
ImportGlVar(st, g) ==
  LET from == ImportFrom(g)
      val == PullGlVar(ctx[ctxStack[from]].frame, g)
  IN  IF ctxStack = <<>>
      THEN [st EXCEPT !.entry.gl = @ @@ (g :> InitVal)]
      ELSE [ImportLevels(st, g, val, from) EXCEPT !.entry = PushGlVar(@, g, val)]

(***************************************************************************)
(* SymCallCache::Private::resolveHeapCut(): the import of what f names and *)
(* is not alive when the call is made, in the order of the uids.           *)
(***************************************************************************)
ResolveHeapCut(heap, f) ==
  LET imported[i \in 0..Len(GlOrder)] ==
        IF i = 0 THEN [cache |-> cache, ctx |-> ctx, entry |-> heap]
        ELSE IF GlOrder[i] \in GlVarsOf(f) /\ ~IsAlive(heap.gl, GlOrder[i])
        THEN ImportGlVar(imported[i - 1], GlOrder[i])
        ELSE imported[i - 1]
  IN  imported[Len(GlOrder)]

(* splitHeapByCVars(): what f names and what its argument points to. *)
CutOf(heap, f) == GlVarsOf(f) \cup ({heap.loc} \cap GlVar)

-----------------------------------------------------------------------------
(* Lookup of a call context, and the way back *)

(***************************************************************************)
(* SymCallCache::getCallCtx() up to the decision whether the context is    *)
(* new (NoCtx), ready to be used, or pending: the state after the imports, *)
(* the entry, the frame and the place in the cache.                        *)
(***************************************************************************)
PrepareCall(heap, f) ==
  LET st == ResolveHeapCut(heap, f)
      cut == CutOf(st.entry, f)
      entry == [st.entry EXCEPT !.gl = Confine(@, cut)]
      look == LookupCore(st.cache[f], entry)
      pfc == IF prog.enabled THEN look.pfc ELSE st.cache[f]
  IN  [fnc |-> f, entry |-> entry, frame |-> Confine(st.entry.gl, GlVar \ cut),
       cache |-> [st.cache EXCEPT ![f] = pfc], ctx |-> st.ctx, idx |-> look.idx,
       found |-> IF prog.enabled THEN pfc.ctxs[look.idx] ELSE NoCtx]

(* Mutant: the caller's view of a global variable wins. *)
JoinHeapsWithCare_Frame(heap, frame) == [heap EXCEPT !.gl = frame @@ @]

(* joinHeapsWithCare(): the global variables of the result win. *)
JoinHeapsWithCare(heap, frame) == [heap EXCEPT !.gl = @ @@ frame]

(* flushCallResults(): the results as the caller likes them. *)
FlushedResults(c) == {JoinHeapsWithCare(r, c.frame) : r \in c.results}

(* Mutant: a pending context does not protect the cache of its function. *)
Invalidate_Pending(f, ctxs) == cache[f].missCnt >= MissThr

(***************************************************************************)
(* SymCallCtx::invalidate(): is the cache of f thrown away?  Not as long   *)
(* as one of its contexts is in use (PerFncCache::inUse()).                *)
(***************************************************************************)
Invalidate(f, ctxs) ==
  /\ cache[f].missCnt >= MissThr
  /\ \A i \in 1..Len(cache[f].ctxs) : ~InUse(ctxs[cache[f].ctxs[i]])

Top == Last(execStack)
TopFnc == ctx[Top.ctx].fnc
At(item) == Code(TopFnc)[item.pc]
AtCall(item) == item.pc <= Len(Code(TopFnc)) /\ At(item).op = "call"

(* The engine on top with item replaced by other ones. *)
Replace(stack, item, new) ==
  [stack EXCEPT ![Len(stack)].work = (@ \ {item}) \cup new]

(***************************************************************************)
(* The items that the engine may take next: execBlock() takes all heaps    *)
(* through an instruction before it goes on.                               *)
(***************************************************************************)
Ready == {item \in Top.work : \A other \in Top.work : item.pc <= other.pc}

Items(pc, heaps) == {[pc |-> pc, heap |-> h] : h \in heaps}

(* Mutant: nobody leaves the backtrace. *)
PopCall_Keep == bt

(* SymBackTrace::pushCall() and popCall() *)
PushCall(f) == Append(bt, f)
PopCall == Front(bt)

-----------------------------------------------------------------------------
(* SymExec *)

InitCallCache ==
  /\ prog \in Programs
  /\ cache = [f \in Fnc |-> EmptyCache]
  /\ ctx = <<>> /\ ctxStack = <<>> /\ bt = <<>> /\ execStack = <<>>
  /\ results = {} /\ complaints = {}

(***************************************************************************)
(* getCallCtx() finds no context and makes one, enterCall() starts an      *)
(* engine for it.  site is the item of the caller that waits.              *)
(***************************************************************************)
EnterCall(p, site) ==
  LET c == Len(p.ctx) + 1
  IN  /\ p.found = NoCtx
      /\ ctx' = Append(p.ctx, [fnc |-> p.fnc, entry |-> p.entry, frame |-> p.frame,
                               results |-> {}, computed |-> FALSE, flushed |-> FALSE,
                               deleted |-> FALSE])
      /\ cache' = IF prog.enabled THEN [p.cache EXCEPT ![p.fnc].ctxs[p.idx] = c]
                                  ELSE p.cache
      /\ ctxStack' = Append(ctxStack, c)
      /\ bt' = PushCall(p.fnc)
      /\ execStack' = Append(execStack, [ctx |-> c, site |-> site,
                                         work |-> Items(1, {p.entry})])
      /\ UNCHANGED <<prog, results, complaints>>

RootItem == [pc |-> 0, heap |-> [loc |-> InitVal, gl |-> <<>>]]

(* execFnc(): the call of the root function *)
RootCall == ctx = <<>> /\ EnterCall(PrepareCall(RootItem.heap, prog.main), RootItem)

(***************************************************************************)
(* What a run of the engine on top does with one heap at an instruction    *)
(* other than a call.                                                      *)
(***************************************************************************)
Successors(item) ==
  LET i == At(item)
      h == item.heap
      pc == item.pc + 1
  IN  CASE i.op = "set"   -> Items(pc, {[h EXCEPT !.gl[i.var] = i.val]})
        [] i.op = "get"   -> Items(pc, {[h EXCEPT !.loc = h.gl[i.var]]})
        [] i.op = "addr"  -> Items(pc, {[h EXCEPT !.loc = i.var]})
        [] i.op = "any"   -> Items(pc, {[h EXCEPT !.loc = v] : v \in {InitVal, Unknown}})
        [] i.op = "store" -> Items(pc, IF h.loc \in GlVar
                                       THEN {[h EXCEPT !.gl[h.loc] = i.val]} ELSE {})
        [] i.op = "if"    -> Items(IF h.loc = i.val THEN i.to ELSE pc, {h})

ExecInsn ==
  execStack # <<>> /\ \E item \in Ready :
     /\ item.pc <= Len(Code(TopFnc)) /\ ~AtCall(item)
     /\ execStack' = Replace(execStack, item, Successors(item))
     /\ UNCHANGED <<prog, cache, ctx, ctxStack, bt, results, complaints>>

(* A return inserts the heap into the raw results of the context. *)
ExecReturn ==
  execStack # <<>> /\ \E item \in Ready :
     /\ item.pc > Len(Code(TopFnc))
     /\ ctx' = [ctx EXCEPT ![Top.ctx].results = @ \cup {item.heap}]
     /\ execStack' = Replace(execStack, item, {})
     /\ UNCHANGED <<prog, cache, ctxStack, bt, results, complaints>>

(* resolveCallInsn() fails: the call returns an unknown value. *)
CallUnresolved(item) ==
  LET tooDeep == Len(bt) > MaxDepth
  IN  /\ tooDeep \/ ~IsDefined(At(item).fnc)
      /\ execStack' = Replace(execStack, item,
                              Items(item.pc + 1, {[item.heap EXCEPT !.loc = Unknown]}))
      /\ complaints' = complaints \cup (IF tooDeep THEN {"depth"} ELSE {})
      /\ UNCHANGED <<prog, cache, ctx, ctxStack, bt, results>>

(* getCallCtx(): "result not computed yet", "result not flushed yet" *)
NotReady(c) == ~c.computed \/ ~c.flushed

(***************************************************************************)
(* getCallCtx() meets a context that is not ready: a recursive call.  The  *)
(* caller is woken up with no results.                                     *)
(***************************************************************************)
CallRefused(item, p) ==
  /\ p.found # NoCtx /\ NotReady(p.ctx[p.found])
  /\ cache' = p.cache /\ ctx' = p.ctx
  /\ bt' = PushCall(p.fnc)
  /\ execStack' = Replace(execStack, item, {})
  /\ complaints' = complaints \cup {"recursion"}
  /\ UNCHANGED <<prog, ctxStack, results>>

(* A cache hit: the results are flushed at once. *)
CallOptimizedOut(item, p) ==
  LET c == [p.ctx[p.found] EXCEPT !.frame = p.frame]
  IN  /\ p.found # NoCtx /\ ~NotReady(p.ctx[p.found])
      /\ cache' = p.cache
      /\ ctx' = [p.ctx EXCEPT ![p.found] = c]
      /\ execStack' = Replace(execStack, item, Items(item.pc + 1, FlushedResults(c)))
      /\ UNCHANGED <<prog, ctxStack, bt, results, complaints>>

(* execFnc(): the engine on top asks for a call. *)
ExecCall ==
  execStack # <<>> /\ \E item \in Ready :
     /\ AtCall(item)
     /\ \/ CallUnresolved(item)
        \/ /\ Len(bt) <= MaxDepth /\ IsDefined(At(item).fnc)
           /\ LET p == PrepareCall(item.heap, At(item).fnc)
              IN  \/ CallRefused(item, p)
                  \/ CallOptimizedOut(item, p)
                  \/ EnterCall(p, item)

(***************************************************************************)
(* execFnc(): the engine on top is done.  flushCallResults() leaves the    *)
(* context stack and the backtrace and wakes the caller up, which is at    *)
(* the call with the heap that the results replace; invalidate() may throw *)
(* the cache of the function away with all its contexts.                   *)
(***************************************************************************)
CallDone ==
  LET c == Top.ctx
      f == ctx[c].fnc
      out == FlushedResults(ctx[c])
      done == [ctx EXCEPT ![c].computed = TRUE, ![c].flushed = TRUE]
      dead == {cache[f].ctxs[i] : i \in 1..Len(cache[f].ctxs)}
      below == Front(execStack)
  IN  /\ execStack # <<>> /\ Top.work = {}
      /\ ctxStack' = Front(ctxStack)
      /\ bt' = PopCall
      /\ \/ /\ Invalidate(f, done)
            /\ cache' = [cache EXCEPT ![f] = EmptyCache]
            /\ ctx' = [i \in 1..Len(ctx) |-> [done[i] EXCEPT !.deleted = @ \/ i \in dead]]
         \/ /\ ~Invalidate(f, done)
            /\ ctx' = done /\ UNCHANGED cache
      /\ \/ /\ below = <<>>
            /\ results' = out /\ execStack' = <<>>
         \/ /\ below # <<>>
            /\ execStack' = Replace(below, Top.site, Items(Top.site.pc + 1, out))
            /\ UNCHANGED results
      /\ UNCHANGED <<prog, complaints>>

Finished == ctx # <<>> /\ execStack = <<>>

(* execute() has returned. *)
Idle == Finished /\ UNCHANGED vars

NextCall == RootCall \/ ExecInsn \/ ExecReturn \/ ExecCall \/ CallDone \/ Idle

CallSpec == InitCallCache /\ [][NextCall]_vars

-----------------------------------------------------------------------------

Context == [fnc : Fnc, entry : Heap, frame : PartialGl, results : SUBSET Heap,
            computed : BOOLEAN, flushed : BOOLEAN, deleted : BOOLEAN]

(***************************************************************************)
(* huni_ and ctxMap_ stay in step: the key at an index is the entry of the *)
(* context at that index, although imports rewrite both one after the      *)
(* other and look the key up by its old value, and lookups reorder both.   *)
(***************************************************************************)
KeysAreEntries ==
  \A f \in Fnc :
     /\ Len(cache[f].keys) = Len(cache[f].ctxs)
     /\ \A i \in 1..Len(cache[f].ctxs) :
           /\ ~ctx[cache[f].ctxs[i]].deleted
           /\ ctx[cache[f].ctxs[i]].fnc = f
           /\ ctx[cache[f].ctxs[i]].entry = cache[f].keys[i]

(***************************************************************************)
(* The same unless a call has been cut off before: then a context may have *)
(* been left with fewer imports than another one of the same entry makes,  *)
(* and the other one's import finds the wrong key.                         *)
(***************************************************************************)
KeyMatchesEntry == complaints = {} => KeysAreEntries

(***************************************************************************)
(* The contexts that are in use are those on the context stack, which are  *)
(* those of the engines: a cache is never thrown away with a context that  *)
(* somebody below still waits for.                                         *)
(***************************************************************************)
PendingIsOnStack ==
  /\ ctxStack = [i \in 1..Len(execStack) |-> execStack[i].ctx]
  /\ \A i \in 1..Len(ctxStack) : ~ctx[ctxStack[i]].deleted
  /\ {c \in 1..Len(ctx) : InUse(ctx[c])}
        = {ctxStack[i] : i \in 1..Len(ctxStack)}

(***************************************************************************)
(* "The called function already appears on the given backtrace, so that we *)
(* can get the source backtrace by removing it from there" (symcall.cc):   *)
(* the backtrace is the list of the functions of the pending calls.        *)
(***************************************************************************)
BacktraceIsTrue == bt = [i \in 1..Len(ctxStack) |-> ctx[ctxStack[i]].fnc]

(* The same unless a recursive call was refused before. *)
BacktraceInStep == "recursion" \notin complaints => BacktraceIsTrue

(***************************************************************************)
(* A cache that is "completely disabled (saves a lot of memory)"           *)
(* (config.h) keeps no context once its results have been flushed.         *)
(***************************************************************************)
DisabledKeepsNothing ==
  ~prog.enabled => \A c \in 1..Len(ctx) : InUse(ctx[c]) \/ ctx[c].deleted

===============================================================================
