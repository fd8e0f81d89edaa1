---------------------------- MODULE CallCacheProofs ----------------------------
(***************************************************************************)
(* Proofs about CallCache, for every program, every set of variables and   *)
(* every limit: the stacks of SymExec, SymCallCache and SymBackTrace stay  *)
(* in step, and no context is thrown away while somebody waits for it.     *)
(***************************************************************************)
EXTENDS CallCache, SequenceTheorems, WellFoundedInduction, TLAPS

-------------------------------------------------------------------------------
(* Induction *)

(* A set of numbers has a least element: the numbers are well-founded. *)
LEMMA LeastNumber ==
  ASSUME NEW T \in SUBSET Nat, T # {}
  PROVE  \E n \in T : \A m \in T : n <= m
<1> DEFINE R == OpToRel(<, Nat)
<1>1. IsWellFoundedOn(R, Nat)
  BY NatLessThanWellFounded, Zenon
<1>2. \A m, n \in Nat : m < n => <<m, n>> \in R
  BY DEF OpToRel
<1> HIDE DEF R
<1>3. PICK n \in T : \A m \in T : ~(<<m, n>> \in R)
  BY <1>1, WFMin
<1>4. n \in Nat /\ \A m \in T : m \in Nat /\ ~(m < n)
  BY <1>2, <1>3
<1> QED
  BY <1>4

LEMMA Induction ==
  ASSUME NEW S, 0 \in S, \A n \in Nat : n \in S => n + 1 \in S
  PROVE  Nat \subseteq S
<1> SUFFICES ASSUME Nat \ S # {} PROVE FALSE
  OBVIOUS
<1>1. PICK n \in Nat \ S : \A m \in Nat \ S : n <= m
  BY LeastNumber
<1>2. n # 0 /\ n - 1 \in Nat
  BY <1>1
<1>3. n - 1 \in S
  BY <1>1, <1>2
<1> QED
  BY <1>1, <1>2, <1>3

-------------------------------------------------------------------------------
(* What the import of global variables leaves alone. *)

Fields == {"fnc", "entry", "frame", "results", "computed", "flushed", "deleted"}

(* A sequence of records with the fields of a context. *)
IsCtxs(s) == \E S : s \in Seq(S) /\ \A c \in S : DOMAIN c = Fields

(* The contexts are the old ones, up to their entries, frames and results. *)
Kept(new, old) ==
  /\ IsCtxs(new)
  /\ Len(new) = Len(old)
  /\ \A c \in 1..Len(old) : /\ new[c].fnc = old[c].fnc
                            /\ new[c].flushed = old[c].flushed
                            /\ new[c].deleted = old[c].deleted

(* What importGlVar() works on: the caches, the contexts and the heap. *)
Imports(st) == DOMAIN st = {"cache", "ctx", "entry"} /\ Kept(st.ctx, ctx)

LEMMA CtxsFacts ==
  ASSUME NEW s, IsCtxs(s)
  PROVE  /\ Len(s) \in Nat /\ DOMAIN s = 1..Len(s)
         /\ \A c \in 1..Len(s) : DOMAIN s[c] = Fields
<1>1. PICK S : s \in Seq(S) /\ \A c \in S : DOMAIN c = Fields
  BY DEF IsCtxs
<1> QED
  BY <1>1, LenProperties, ElementOfSeq

(* One context is replaced by one that differs in other fields only. *)
LEMMA ExceptKeeps ==
  ASSUME NEW s, NEW old, Kept(s, old), NEW c, NEW r,
         c \in 1..Len(s) =>
            /\ DOMAIN r = Fields /\ r.fnc = s[c].fnc
            /\ r.flushed = s[c].flushed /\ r.deleted = s[c].deleted
  PROVE  Kept([s EXCEPT ![c] = r], old)
<1> DEFINE new == [s EXCEPT ![c] = r]
<1>1. PICK S : s \in Seq(S) /\ \A x \in S : DOMAIN x = Fields
  BY DEF Kept, IsCtxs
<1>2. Len(s) \in Nat /\ DOMAIN s = 1..Len(s)
  BY <1>1, LenProperties
<1>3. CASE c \in 1..Len(s)
  <2>1. new \in Seq(S \cup {r}) /\ Len(new) = Len(s)
    BY <1>1, <1>2, <1>3
  <2>2. \A i \in 1..Len(s) : new[i] = IF i = c THEN r ELSE s[i]
    BY <1>2
  <2>3. \A x \in S \cup {r} : DOMAIN x = Fields
    BY <1>1, <1>3
  <2> HIDE DEF new
  <2>4. IsCtxs(new)
    BY <2>1, <2>3 DEF IsCtxs
  <2> QED
    BY <1>3, <2>1, <2>2, <2>4 DEF Kept, new
<1>4. CASE c \notin 1..Len(s)
  <2>1. new = s
    BY <1>1, <1>2, <1>4
  <2> QED
    BY <2>1
<1> QED
  BY <1>3, <1>4

LEMMA ImportLevelKeeps ==
  ASSUME NEW st, Imports(st), NEW c, NEW g, NEW val
  PROVE  Imports(ImportLevel(st, c, g, val))
<1> DEFINE dst == PushGlVar(st.ctx[c].entry, g, val)
           r == [st.ctx[c] EXCEPT !.entry = dst]
           new == ImportLevel(st, c, g, val)
<1>1. DOMAIN new = {"cache", "ctx", "entry"} /\ new.ctx = [st.ctx EXCEPT ![c] = r]
  BY DEF Imports, ImportLevel
<1>2. IsCtxs(st.ctx)
  BY DEF Imports, Kept
<1>3. c \in 1..Len(st.ctx) => /\ DOMAIN r = Fields /\ r.fnc = st.ctx[c].fnc
                              /\ r.flushed = st.ctx[c].flushed /\ r.deleted = st.ctx[c].deleted
  BY <1>2, CtxsFacts DEF Fields
<1> HIDE DEF r, new
<1>4. Kept([st.ctx EXCEPT ![c] = r], ctx)
  BY <1>3, ExceptKeeps DEF Imports
<1> QED
  BY <1>1, <1>4 DEF Imports, new

(* The function that the definition of ImportLevels asks for, up to m. *)
IsUpTo(u, m, st, g, val, from) ==
  u = [i \in 0..m |-> IF i = 0 THEN st
                      ELSE IF i < from THEN u[i - 1]
                      ELSE ImportLevel(u[i - 1], ctxStack[i], g, val)]

LEMMA UpToExists ==
  ASSUME NEW st, NEW g, NEW val, NEW from, NEW n \in Nat
  PROVE  \E u : IsUpTo(u, n, st, g, val, from)
<1> DEFINE Next1(i, s) == IF i < from THEN s ELSE ImportLevel(s, ctxStack[i], g, val)
           S == {m \in Nat : \E u : IsUpTo(u, m, st, g, val, from)}
<1>1. 0 \in S
  <2> DEFINE u == [i \in 0..0 |-> st]
  <2>1. u = [i \in 0..0 |-> IF i = 0 THEN st ELSE IF i < from THEN u[i - 1]
                            ELSE ImportLevel(u[i - 1], ctxStack[i], g, val)]
    OBVIOUS
  <2> QED
    BY <2>1 DEF IsUpTo
<1>2. ASSUME NEW m \in Nat, m \in S PROVE m + 1 \in S
  <2>1. PICK u : IsUpTo(u, m, st, g, val, from)
    BY <1>2
  <2> DEFINE h == [i \in 0..(m + 1) |-> IF i = m + 1 THEN Next1(m + 1, u[m]) ELSE u[i]]
             k == [i \in 0..(m + 1) |-> IF i = 0 THEN st ELSE Next1(i, h[i - 1])]
  <2>2. \A i \in 0..m : u[i] = IF i = 0 THEN st ELSE Next1(i, u[i - 1])
    BY <2>1 DEF IsUpTo
  <2> HIDE DEF Next1
  <2>3. ASSUME NEW i \in 0..(m + 1) PROVE h[i] = k[i]
    <3>1. CASE i = 0
      BY <2>2, <3>1
    <3>2. CASE i = m + 1
      BY <3>2
    <3>3. CASE i # 0 /\ i # m + 1
      <4>1. i \in 0..m /\ i - 1 \in 0..m /\ i - 1 # m + 1 /\ i - 1 \in 0..(m + 1)
        BY <3>3
      <4>2. h[i] = u[i] /\ h[i - 1] = u[i - 1]
        BY <4>1, <3>3
      <4> QED
        BY <2>2, <3>3, <4>1, <4>2
    <3> QED
      BY <3>1, <3>2, <3>3
  <2>4. h = k
    BY <2>3
  <2>5. IsUpTo(h, m + 1, st, g, val, from)
    <3> HIDE DEF h
    <3> QED
      BY <2>4 DEF IsUpTo, Next1
  <2> QED
    BY <2>5
<1> HIDE DEF S
<1>3. Nat \subseteq S
  BY <1>1, <1>2, Induction
<1> QED
  BY <1>3 DEF S

(* The contexts keep what matters here through the upward loop. *)
LEMMA ImportLevelsKeeps ==
  ASSUME NEW st, Imports(st), NEW g, NEW val, NEW from, Len(ctxStack) \in Nat
  PROVE  Imports(ImportLevels(st, g, val, from))
<1> DEFINE n == Len(ctxStack)
           upTo == CHOOSE u : u = [i \in 0..n |->
                      IF i = 0 THEN st
                      ELSE IF i < from THEN u[i - 1]
                      ELSE ImportLevel(u[i - 1], ctxStack[i], g, val)]
<1>1. IsUpTo(upTo, n, st, g, val, from)
  <2>1. PICK u : IsUpTo(u, n, st, g, val, from)
    BY UpToExists
  <2> QED
    BY <2>1, Zenon DEF IsUpTo
<1>2. ImportLevels(st, g, val, from) = upTo[n]
  BY DEF ImportLevels
<1> HIDE DEF upTo
<1>3. \A i \in 0..n : upTo[i] = IF i = 0 THEN st
                               ELSE IF i < from THEN upTo[i - 1]
                               ELSE ImportLevel(upTo[i - 1], ctxStack[i], g, val)
  BY <1>1 DEF IsUpTo
<1> DEFINE S == {i \in Nat : i <= n => Imports(upTo[i])}
<1>4. 0 \in S
  BY <1>3
<1>5. ASSUME NEW i \in Nat, i \in S PROVE i + 1 \in S
  <2> SUFFICES ASSUME i + 1 <= n PROVE Imports(upTo[i + 1])
    OBVIOUS
  <2>1. i + 1 \in 0..n /\ (i + 1) - 1 = i /\ i + 1 # 0 /\ i <= n
    OBVIOUS
  <2>2. Imports(upTo[i])
    BY <1>5, <2>1
  <2>3. upTo[i + 1] = upTo[i] \/ upTo[i + 1] = ImportLevel(upTo[i], ctxStack[i + 1], g, val)
    BY <1>3, <2>1
  <2>4. Imports(ImportLevel(upTo[i], ctxStack[i + 1], g, val))
    BY <2>2, ImportLevelKeeps
  <2> QED
    BY <2>2, <2>3, <2>4
<1> HIDE DEF S
<1>6. Nat \subseteq S
  BY <1>4, <1>5, Induction
<1> QED
  BY <1>2, <1>6 DEF S

LEMMA ImportGlVarKeeps ==
  ASSUME NEW st, Imports(st), NEW g, Len(ctxStack) \in Nat
  PROVE  Imports(ImportGlVar(st, g))
<1> DEFINE from == ImportFrom(g)
           val == PullGlVar(ctx[ctxStack[from]].frame, g)
           levels == ImportLevels(st, g, val, from)
<1>1. Imports(levels)
  BY ImportLevelsKeeps
<1> HIDE DEF levels
<1>2. ASSUME NEW s, Imports(s), NEW e PROVE Imports([s EXCEPT !.entry = e])
  BY <1>2 DEF Imports
<1>3. CASE ctxStack = <<>>
  <2> DEFINE e == [st.entry EXCEPT !.gl = @ @@ (g :> InitVal)]
  <2>1. ImportGlVar(st, g) = [st EXCEPT !.entry = e]
    BY <1>3, Zenon DEF ImportGlVar
  <2> HIDE DEF e
  <2> QED
    BY <1>2, <2>1, ZenonT(40)
<1>4. CASE ctxStack # <<>>
  <2>1. ImportGlVar(st, g) = [levels EXCEPT !.entry = PushGlVar(levels.entry, g, val)]
    BY <1>4 DEF ImportGlVar, levels
  <2> QED
    BY <1>1, <1>2, <2>1
<1> QED
  BY <1>3, <1>4

(* One turn of the loop over the variables that f names. *)
ImportTurn(i, st, heap, f) ==
  IF GlOrder[i] \in GlVarsOf(f) /\ ~IsAlive(heap.gl, GlOrder[i])
  THEN ImportGlVar(st, GlOrder[i]) ELSE st

(* The function that the definition of ResolveHeapCut asks for, up to m. *)
IsImported(u, m, heap, f) ==
  u = [i \in 0..m |-> IF i = 0 THEN [cache |-> cache, ctx |-> ctx, entry |-> heap]
                      ELSE ImportTurn(i, u[i - 1], heap, f)]

LEMMA ImportedExists ==
  ASSUME NEW heap, NEW f, NEW n \in Nat
  PROVE  \E u : IsImported(u, n, heap, f)
<1> DEFINE st == [cache |-> cache, ctx |-> ctx, entry |-> heap]
           S == {m \in Nat : \E u : IsImported(u, m, heap, f)}
<1>1. 0 \in S
  <2> DEFINE u == [i \in 0..0 |-> st]
  <2>1. u = [i \in 0..0 |-> IF i = 0 THEN st ELSE ImportTurn(i, u[i - 1], heap, f)]
    OBVIOUS
  <2> QED
    BY <2>1 DEF IsImported
<1>2. ASSUME NEW m \in Nat, m \in S PROVE m + 1 \in S
  <2>1. PICK u : IsImported(u, m, heap, f)
    BY <1>2
  <2> DEFINE h == [i \in 0..(m + 1) |->
                     IF i = m + 1 THEN ImportTurn(m + 1, u[m], heap, f) ELSE u[i]]
             k == [i \in 0..(m + 1) |-> IF i = 0 THEN st ELSE ImportTurn(i, h[i - 1], heap, f)]
  <2>2. \A i \in 0..m : u[i] = IF i = 0 THEN st ELSE ImportTurn(i, u[i - 1], heap, f)
    BY <2>1 DEF IsImported
  <2>3. ASSUME NEW i \in 0..(m + 1) PROVE h[i] = k[i]
    <3>1. CASE i = 0
      BY <2>2, <3>1
    <3>2. CASE i = m + 1
      BY <3>2
    <3>3. CASE i # 0 /\ i # m + 1
      <4>1. i \in 0..m /\ i - 1 \in 0..m /\ i - 1 # m + 1 /\ i - 1 \in 0..(m + 1)
        BY <3>3
      <4>2. h[i] = u[i] /\ h[i - 1] = u[i - 1]
        BY <4>1, <3>3
      <4> QED
        BY <2>2, <3>3, <4>1, <4>2
    <3> QED
      BY <3>1, <3>2, <3>3
  <2>4. h = k
    BY <2>3
  <2>5. IsImported(h, m + 1, heap, f)
    <3> HIDE DEF h
    <3> QED
      BY <2>4 DEF IsImported
  <2> QED
    BY <2>5
<1> HIDE DEF S
<1>3. Nat \subseteq S
  BY <1>1, <1>2, Induction
<1> QED
  BY <1>3 DEF S

LEMMA ResolveHeapCutKeeps ==
  ASSUME IsCtxs(ctx), Len(ctxStack) \in Nat, NEW heap, NEW f
  PROVE  Imports(ResolveHeapCut(heap, f))
<1> DEFINE n == Len(GlOrder)
           st == [cache |-> cache, ctx |-> ctx, entry |-> heap]
           imported == CHOOSE u : u = [i \in 0..n |->
              IF i = 0 THEN st
              ELSE IF GlOrder[i] \in GlVarsOf(f) /\ ~IsAlive(heap.gl, GlOrder[i])
              THEN ImportGlVar(u[i - 1], GlOrder[i])
              ELSE u[i - 1]]
<1>1. n \in Nat
  BY CallCacheAssumption, LenProperties
<1>2. IsImported(imported, n, heap, f)
  <2>1. PICK u : IsImported(u, n, heap, f)
    BY <1>1, ImportedExists
  <2> QED
    BY <2>1, Zenon DEF IsImported, ImportTurn
<1>3. ResolveHeapCut(heap, f) = imported[n]
  BY DEF ResolveHeapCut
<1> HIDE DEF imported
<1>4. \A i \in 0..n : imported[i] = IF i = 0 THEN st ELSE ImportTurn(i, imported[i - 1], heap, f)
  BY <1>2 DEF IsImported
<1> DEFINE S == {i \in Nat : i <= n => Imports(imported[i])}
<1>5. 0 \in S
  <2>1. Imports(st)
    BY DEF Imports, Kept
  <2> QED
    BY <1>1, <1>4, <2>1
<1>6. ASSUME NEW i \in Nat, i \in S PROVE i + 1 \in S
  <2> SUFFICES ASSUME i + 1 <= n PROVE Imports(imported[i + 1])
    OBVIOUS
  <2>1. i + 1 \in 0..n /\ (i + 1) - 1 = i /\ i + 1 # 0 /\ i <= n
    BY <1>1
  <2>2. Imports(imported[i])
    BY <1>6, <2>1
  <2>3. imported[i + 1] = ImportTurn(i + 1, imported[i], heap, f)
    BY <1>4, <2>1
  <2>4. Imports(ImportGlVar(imported[i], GlOrder[i + 1]))
    BY <2>2, ImportGlVarKeeps
  <2> QED
    BY <2>2, <2>3, <2>4 DEF ImportTurn
<1> HIDE DEF S
<1>7. Nat \subseteq S
  BY <1>5, <1>6, Induction
<1> QED
  BY <1>1, <1>3, <1>7 DEF S

(* Up to the decision of getCallCtx() the contexts keep what matters here. *)
LEMMA PrepareCallKeeps ==
  ASSUME IsCtxs(ctx), Len(ctxStack) \in Nat, NEW heap, NEW f
  PROVE  Kept(PrepareCall(heap, f).ctx, ctx) /\ PrepareCall(heap, f).fnc = f
<1>1. Imports(ResolveHeapCut(heap, f))
  BY ResolveHeapCutKeeps
<1>2. PrepareCall(heap, f).ctx = ResolveHeapCut(heap, f).ctx /\ PrepareCall(heap, f).fnc = f
  BY DEF PrepareCall
<1> QED
  BY <1>1, <1>2 DEF Imports

-------------------------------------------------------------------------------
(* The stacks *)

(* A sequence of records with the fields of an engine. *)
IsEngines(s) == \E S : s \in Seq(S) /\ \A e \in S : DOMAIN e = {"ctx", "site", "work"}

(***************************************************************************)
(* The inductive invariant.  What is added to the two properties is that   *)
(* no context is on the stack twice: when flushCallResults() takes the top *)
(* away, its context is in use nowhere else.                               *)
(***************************************************************************)
StackInv ==
  /\ IsCtxs(ctx)
  /\ IsEngines(execStack)
  /\ \A i, j \in 1..Len(ctxStack) : ctxStack[i] = ctxStack[j] => i = j
  /\ PendingIsOnStack
  /\ BacktraceInStep

LEMMA EnginesFacts ==
  ASSUME NEW s, IsEngines(s)
  PROVE  /\ Len(s) \in Nat /\ DOMAIN s = 1..Len(s)
         /\ \A i \in 1..Len(s) : DOMAIN s[i] = {"ctx", "site", "work"}
         /\ s # <<>> => Len(s) > 0
<1>1. PICK S : s \in Seq(S) /\ \A e \in S : DOMAIN e = {"ctx", "site", "work"}
  BY DEF IsEngines
<1>2. s # <<>> => Len(s) # 0
  BY <1>1, EmptySeq
<1> QED
  BY <1>1, <1>2, LenProperties, ElementOfSeq

(* The context stack is a sequence as long as the stack of engines. *)
LEMMA StackFacts ==
  ASSUME StackInv
  PROVE  /\ ctxStack \in Seq(1..Len(ctx)) /\ Len(ctxStack) = Len(execStack)
         /\ Len(ctx) \in Nat /\ Len(execStack) \in Nat
         /\ \A i \in 1..Len(execStack) : ctxStack[i] = execStack[i].ctx
<1> DEFINE n == Len(execStack)
<1>1. n \in Nat /\ Len(ctx) \in Nat
  BY EnginesFacts, CtxsFacts DEF StackInv
<1>2. ctxStack = [i \in 1..n |-> execStack[i].ctx]
  BY DEF StackInv, PendingIsOnStack
<1>3. Len(ctxStack) = n
  BY <1>1, <1>2
<1>4. \A i \in 1..n : ctxStack[i] \in 1..Len(ctx)
  BY <1>3 DEF StackInv, PendingIsOnStack
<1>5. ctxStack \in [1..n -> 1..Len(ctx)]
  BY <1>2, <1>4
<1> QED
  BY <1>1, <1>2, <1>3, <1>5

(* The engine on top has a new work list. *)
LEMMA ReplaceFacts ==
  ASSUME NEW s, IsEngines(s), s # <<>>, NEW item, NEW new
  PROVE  /\ IsEngines(Replace(s, item, new)) /\ Len(Replace(s, item, new)) = Len(s)
         /\ \A i \in 1..Len(s) : Replace(s, item, new)[i].ctx = s[i].ctx
<1> DEFINE n == Len(s)
           e == [s[n] EXCEPT !.work = (@ \ {item}) \cup new]
           t == [s EXCEPT ![n] = e]
<1>1. PICK S : s \in Seq(S) /\ \A x \in S : DOMAIN x = {"ctx", "site", "work"}
  BY DEF IsEngines
<1>2. n \in Nat /\ n > 0 /\ DOMAIN s = 1..n /\ DOMAIN s[n] = {"ctx", "site", "work"}
  BY EnginesFacts
<1>3. DOMAIN e = {"ctx", "site", "work"} /\ e.ctx = s[n].ctx
  BY <1>2
<1>4. Replace(s, item, new) = t
  BY DEF Replace
<1> HIDE DEF e
<1>5. t \in Seq(S \cup {e}) /\ Len(t) = n /\ \A i \in 1..n : t[i] = IF i = n THEN e ELSE s[i]
  BY <1>1, <1>2
<1>6. \A x \in S \cup {e} : DOMAIN x = {"ctx", "site", "work"}
  BY <1>1, <1>3
<1> HIDE DEF t
<1>7. IsEngines(t)
  BY <1>5, <1>6 DEF IsEngines
<1> QED
  BY <1>3, <1>4, <1>5, <1>7

(* Nobody enters or leaves the stacks. *)
LEMMA StacksStay ==
  ASSUME StackInv, Kept(ctx', ctx), ctxStack' = ctxStack,
         IsEngines(execStack'), Len(execStack') = Len(execStack),
         \A i \in 1..Len(execStack) : execStack'[i].ctx = execStack[i].ctx,
         \/ bt' = bt /\ complaints \subseteq complaints'
         \/ "recursion" \in complaints'
  PROVE  StackInv'
<1>1. IsCtxs(ctx') /\ Len(ctx') = Len(ctx)
  BY DEF Kept
<1>2. ctxStack \in Seq(1..Len(ctx)) /\ Len(ctxStack) = Len(execStack) /\ Len(ctxStack) \in Nat
  BY StackFacts
<1>3. \A i \in 1..Len(ctxStack) : ctxStack[i] \in 1..Len(ctx)
  BY <1>2, ElementOfSeq
<1>4. ctxStack' = [i \in 1..Len(execStack') |-> execStack'[i].ctx]
  BY DEF StackInv, PendingIsOnStack
<1>5. \A i \in 1..Len(ctxStack') : ~ctx'[ctxStack'[i]].deleted
  BY <1>3 DEF StackInv, PendingIsOnStack, Kept
<1>6. \A c \in 1..Len(ctx) : InUse(ctx'[c]) <=> InUse(ctx[c])
  BY DEF Kept, InUse
<1>7. {c \in 1..Len(ctx') : InUse(ctx'[c])} = {ctxStack'[i] : i \in 1..Len(ctxStack')}
  BY <1>1, <1>6 DEF StackInv, PendingIsOnStack
<1>8. PendingIsOnStack'
  BY <1>4, <1>5, <1>7 DEF PendingIsOnStack
<1>9. BacktraceInStep'
  <2> SUFFICES ASSUME "recursion" \notin complaints'
               PROVE  bt' = [i \in 1..Len(ctxStack) |-> ctx'[ctxStack[i]].fnc]
    BY DEF BacktraceInStep, BacktraceIsTrue
  <2>1. bt' = [i \in 1..Len(ctxStack) |-> ctx[ctxStack[i]].fnc]
    BY DEF StackInv, BacktraceInStep, BacktraceIsTrue
  <2>2. \A i \in 1..Len(ctxStack) : ctx'[ctxStack[i]].fnc = ctx[ctxStack[i]].fnc
    BY <1>3 DEF Kept
  <2> QED
    BY <2>1, <2>2
<1> QED
  BY <1>1, <1>8, <1>9 DEF StackInv

LEMMA SameCtxs == ASSUME IsCtxs(ctx) PROVE Kept(ctx, ctx)
BY DEF Kept

(* The steps of the engine on top, and calls without a new context. *)
LEMMA StepKeepsStacks ==
  ASSUME StackInv, execStack # <<>>, NEW item, NEW new,
         execStack' = Replace(execStack, item, new), ctxStack' = ctxStack,
         Kept(ctx', ctx),
         \/ bt' = bt /\ complaints \subseteq complaints'
         \/ "recursion" \in complaints'
  PROVE  StackInv'
<1>1. /\ IsEngines(execStack') /\ Len(execStack') = Len(execStack)
      /\ \A i \in 1..Len(execStack) : execStack'[i].ctx = execStack[i].ctx
  BY ReplaceFacts DEF StackInv
<1> QED
  BY <1>1, StacksStay

LEMMA ExecKeepsStacks ==
  ASSUME StackInv, ExecInsn \/ ExecReturn
  PROVE  StackInv'
<1>1. IsCtxs(ctx) /\ execStack # <<>>
  BY DEF StackInv, ExecInsn, ExecReturn
<1>2. CASE ExecInsn
  <2>1. PICK item \in Ready : execStack' = Replace(execStack, item, Successors(item))
                              /\ UNCHANGED <<prog, cache, ctx, ctxStack, bt, results, complaints>>
    BY <1>2 DEF ExecInsn
  <2>2. Kept(ctx', ctx)
    BY <1>1, <2>1, SameCtxs
  <2> QED
    BY <1>1, <2>1, <2>2, StepKeepsStacks
<1>3. CASE ExecReturn
  <2>1. PICK item \in Ready : /\ ctx' = [ctx EXCEPT ![Top.ctx].results = @ \cup {item.heap}]
                              /\ execStack' = Replace(execStack, item, {})
                              /\ UNCHANGED <<prog, cache, ctxStack, bt, results, complaints>>
    BY <1>3 DEF ExecReturn
  <2> DEFINE c == Top.ctx
             r == [ctx[c] EXCEPT !.results = @ \cup {item.heap}]
  <2>2. ctx' = [ctx EXCEPT ![c] = r]
    BY <2>1
  <2>3. c \in 1..Len(ctx) =>
            /\ DOMAIN r = Fields /\ r.fnc = ctx[c].fnc
            /\ r.flushed = ctx[c].flushed /\ r.deleted = ctx[c].deleted
    BY <1>1, CtxsFacts DEF Fields
  <2> HIDE DEF c, r
  <2>4. Kept(ctx', ctx)
    BY <1>1, <2>2, <2>3, SameCtxs, ExceptKeeps
  <2>5. PICK none : none = {}
    OBVIOUS
  <2> QED
    BY <1>1, <2>1, <2>4, <2>5, StepKeepsStacks
<1> QED
  BY <1>2, <1>3

(* getCallCtx() has found a context, or the call is not resolved. *)
LEMMA OldCtxKeepsStacks ==
  ASSUME StackInv, execStack # <<>>, NEW item, NEW f,
         \/ CallUnresolved(item)
         \/ CallRefused(item, PrepareCall(item.heap, f))
         \/ CallOptimizedOut(item, PrepareCall(item.heap, f))
  PROVE  StackInv'
<1> DEFINE p == PrepareCall(item.heap, f)
<1>1. IsCtxs(ctx) /\ Len(ctxStack) \in Nat
  BY StackFacts DEF StackInv
<1>2. Kept(p.ctx, ctx)
  BY <1>1, PrepareCallKeeps
<1> HIDE DEF p
<1>3. CASE CallUnresolved(item)
  <2>1. /\ execStack' = Replace(execStack, item,
                           Items(item.pc + 1, {[item.heap EXCEPT !.loc = Unknown]}))
        /\ ctx' = ctx /\ ctxStack' = ctxStack /\ bt' = bt /\ complaints \subseteq complaints'
    BY <1>3 DEF CallUnresolved
  <2>2. Kept(ctx', ctx)
    BY <1>1, <2>1, SameCtxs
  <2> QED
    BY <2>1, <2>2, StepKeepsStacks
<1>4. CASE CallRefused(item, p)
  <2>1. /\ execStack' = Replace(execStack, item, {})
        /\ ctx' = p.ctx /\ ctxStack' = ctxStack /\ "recursion" \in complaints'
    BY <1>4 DEF CallRefused
  <2>2. PICK none : none = {}
    OBVIOUS
  <2> QED
    BY <1>2, <2>1, <2>2, StepKeepsStacks
<1>5. CASE CallOptimizedOut(item, p)
  <2> DEFINE r == [p.ctx[p.found] EXCEPT !.frame = p.frame]
  <2>1. /\ execStack' = Replace(execStack, item, Items(item.pc + 1, FlushedResults(r)))
        /\ ctx' = [p.ctx EXCEPT ![p.found] = r] /\ ctxStack' = ctxStack
        /\ bt' = bt /\ complaints' = complaints
    BY <1>5 DEF CallOptimizedOut
  <2>2. IsCtxs(p.ctx)
    BY <1>2 DEF Kept
  <2>3. p.found \in 1..Len(p.ctx) =>
            /\ DOMAIN r = Fields /\ r.fnc = p.ctx[p.found].fnc
            /\ r.flushed = p.ctx[p.found].flushed /\ r.deleted = p.ctx[p.found].deleted
    BY <2>2, CtxsFacts DEF Fields
  <2> HIDE DEF r
  <2>4. Kept(ctx', ctx)
    BY <1>2, <2>1, <2>3, ExceptKeeps
  <2> QED
    BY <2>1, <2>4, StepKeepsStacks
<1> QED
  BY <1>3, <1>4, <1>5 DEF p

(* A new context and an engine for it *)
LEMMA EnterCallKeepsStacks ==
  ASSUME StackInv, NEW heap, NEW f, NEW site, EnterCall(PrepareCall(heap, f), site)
  PROVE  StackInv'
<1> DEFINE p == PrepareCall(heap, f)
           n == Len(ctx)
           d == Len(execStack)
           r == [fnc |-> p.fnc, entry |-> p.entry, frame |-> p.frame, results |-> {},
                 computed |-> FALSE, flushed |-> FALSE, deleted |-> FALSE]
           e == [ctx |-> n + 1, site |-> site, work |-> Items(1, {p.entry})]
<1>1. /\ IsCtxs(ctx) /\ ctxStack \in Seq(1..n) /\ Len(ctxStack) = d /\ n \in Nat /\ d \in Nat
      /\ IsEngines(execStack) /\ \A i \in 1..d : ctxStack[i] = execStack[i].ctx
  BY StackFacts DEF StackInv
<1>2. Kept(p.ctx, ctx)
  BY <1>1, PrepareCallKeeps
<1>3. Len(p.ctx) = n
  BY <1>2 DEF Kept
<1>4. /\ ctx' = Append(p.ctx, r) /\ ctxStack' = Append(ctxStack, n + 1)
      /\ bt' = Append(bt, p.fnc) /\ execStack' = Append(execStack, e)
      /\ complaints' = complaints
  BY <1>3 DEF EnterCall, PushCall
<1>5. /\ DOMAIN r = Fields /\ r.fnc = p.fnc /\ r.flushed = FALSE /\ r.deleted = FALSE
      /\ DOMAIN e = {"ctx", "site", "work"} /\ e.ctx = n + 1
  BY DEF Fields
<1> HIDE DEF r, e, p
<1>6. /\ IsCtxs(ctx') /\ Len(ctx') = n + 1 /\ ctx'[n + 1] = r
      /\ \A c \in 1..n : ctx'[c] = p.ctx[c]
  <2>1. PICK S : p.ctx \in Seq(S) /\ \A c \in S : DOMAIN c = Fields
    BY <1>2 DEF Kept, IsCtxs
  <2>2. Append(p.ctx, r) \in Seq(S \cup {r}) /\ \A c \in S \cup {r} : DOMAIN c = Fields
    BY <1>5, <2>1
  <2>3. IsCtxs(Append(p.ctx, r))
    BY <2>2 DEF IsCtxs
  <2>4. /\ Len(Append(p.ctx, r)) = n + 1 /\ Append(p.ctx, r)[n + 1] = r
        /\ \A c \in 1..n : Append(p.ctx, r)[c] = p.ctx[c]
    BY <1>3, <2>1, AppendProperties
  <2> QED
    BY <1>4, <2>3, <2>4
<1>7. /\ IsEngines(execStack') /\ Len(execStack') = d + 1 /\ execStack'[d + 1] = e
      /\ \A i \in 1..d : execStack'[i] = execStack[i]
  <2>1. PICK S : execStack \in Seq(S) /\ \A x \in S : DOMAIN x = {"ctx", "site", "work"}
    BY <1>1 DEF IsEngines
  <2>2. Append(execStack, e) \in Seq(S \cup {e})
        /\ \A x \in S \cup {e} : DOMAIN x = {"ctx", "site", "work"}
    BY <1>5, <2>1
  <2>3. IsEngines(Append(execStack, e))
    BY <2>2 DEF IsEngines
  <2>4. /\ Len(Append(execStack, e)) = d + 1 /\ Append(execStack, e)[d + 1] = e
        /\ \A i \in 1..d : Append(execStack, e)[i] = execStack[i]
    BY <2>1, AppendProperties
  <2> QED
    BY <1>4, <2>3, <2>4
<1>8. /\ ctxStack' \in Seq(1..(n + 1)) /\ Len(ctxStack') = d + 1 /\ ctxStack'[d + 1] = n + 1
      /\ \A i \in 1..d : ctxStack'[i] = ctxStack[i] /\ ctxStack[i] \in 1..n
      /\ DOMAIN ctxStack' = 1..(d + 1)
  BY <1>1, <1>4
<1>9. \A c \in 1..n : /\ ctx'[c].fnc = ctx[c].fnc
                      /\ ctx'[c].flushed = ctx[c].flushed /\ ctx'[c].deleted = ctx[c].deleted
  BY <1>2, <1>6 DEF Kept
<1>10. \A i, j \in 1..Len(ctxStack') : ctxStack'[i] = ctxStack'[j] => i = j
  <2> SUFFICES ASSUME NEW i \in 1..(d + 1), NEW j \in 1..(d + 1), ctxStack'[i] = ctxStack'[j]
               PROVE  i = j
    BY <1>8
  <2>1. \A k \in 1..(d + 1) : k = d + 1 \/ k \in 1..d
    BY <1>1
  <2>2. \A k \in 1..d : ctxStack'[k] # n + 1
    BY <1>1, <1>8, SMTT(40)
  <2>3. CASE i \in 1..d /\ j \in 1..d
    <3>1. ctxStack[i] = ctxStack[j]
      BY <1>8, <2>3
    <3> QED
      BY <1>1, <2>3, <3>1 DEF StackInv
  <2>4. CASE i = d + 1 \/ j = d + 1
    BY <1>8, <2>1, <2>2, <2>4
  <2> QED
    BY <2>1, <2>3, <2>4
<1>11. PendingIsOnStack'
  <2>1. \A i \in 1..(d + 1) : ctxStack'[i] = execStack'[i].ctx
    <3>1. ASSUME NEW i \in 1..d PROVE ctxStack'[i] = execStack'[i].ctx
      BY <1>1, <1>7, <1>8, Zenon
    <3>2. ctxStack'[d + 1] = execStack'[d + 1].ctx
      BY <1>5, <1>7, <1>8, Zenon
    <3>3. \A i \in 1..(d + 1) : i = d + 1 \/ i \in 1..d
      BY <1>1
    <3> QED
      BY <3>1, <3>2, <3>3, Zenon
  <2>2. ctxStack' = [i \in 1..Len(execStack') |-> execStack'[i].ctx]
    BY <1>7, <1>8, <2>1
  <2>3. \A i \in 1..Len(ctxStack') : ~ctx'[ctxStack'[i]].deleted
    BY <1>1, <1>5, <1>6, <1>8, <1>9 DEF StackInv, PendingIsOnStack
  <2>4. \A c \in 1..n : InUse(ctx'[c]) <=> \E i \in 1..d : c = ctxStack[i]
    BY <1>1, <1>9 DEF StackInv, PendingIsOnStack, InUse
  <2>5. InUse(ctx'[n + 1])
    BY <1>5, <1>6 DEF InUse
  <2>6. \A c \in 1..(n + 1) : InUse(ctx'[c]) <=> \E i \in 1..(d + 1) : c = ctxStack'[i]
    <3> SUFFICES ASSUME NEW c \in 1..(n + 1)
                 PROVE  InUse(ctx'[c]) <=> \E i \in 1..(d + 1) : c = ctxStack'[i]
      OBVIOUS
    <3>1. CASE c = n + 1
      BY <1>1, <1>8, <2>5, <3>1
    <3>2. CASE c \in 1..n
      <4>1. ASSUME NEW i \in 1..d, c = ctxStack[i]
            PROVE  \E j \in 1..(d + 1) : c = ctxStack'[j]
        <5>1. i \in 1..(d + 1) /\ c = ctxStack'[i]
          BY <1>1, <1>8, <4>1
        <5> QED
          BY <5>1
      <4>2. ASSUME NEW j \in 1..(d + 1), c = ctxStack'[j]
            PROVE  \E i \in 1..d : c = ctxStack[i]
        <5>1. j # d + 1
          BY <1>1, <1>8, <3>2, <4>2
        <5>2. j \in 1..d
          BY <1>1, <5>1
        <5> QED
          BY <1>8, <4>2, <5>2
      <4> QED
        BY <2>4, <3>2, <4>1, <4>2
    <3> QED
      BY <1>1, <3>1, <3>2
  <2>7. {c \in 1..Len(ctx') : InUse(ctx'[c])} = {ctxStack'[i] : i \in 1..Len(ctxStack')}
    <3>1. \A i \in 1..(d + 1) : ctxStack'[i] \in 1..(n + 1)
      BY <1>8, ElementOfSeq
    <3> QED
      BY <1>6, <1>8, <2>6, <3>1
  <2> QED
    BY <2>2, <2>3, <2>7 DEF PendingIsOnStack
<1>12. BacktraceInStep'
  <2> SUFFICES ASSUME "recursion" \notin complaints
               PROVE  bt' = [i \in 1..Len(ctxStack') |-> ctx'[ctxStack'[i]].fnc]
    BY <1>4 DEF BacktraceInStep, BacktraceIsTrue
  <2> DEFINE g == [i \in 1..d |-> ctx[ctxStack[i]].fnc]
             h == [i \in 1..(d + 1) |-> ctx'[ctxStack'[i]].fnc]
  <2>1. bt = g
    BY <1>1 DEF StackInv, BacktraceInStep, BacktraceIsTrue
  <2>2. /\ h[d + 1] = p.fnc /\ \A i \in 1..d : h[i] = g[i]
    BY <1>1, <1>5, <1>6, <1>8, <1>9
  <2> DEFINE S == {h[i] : i \in 1..(d + 1)}
  <2>3. g \in Seq(S) /\ h \in Seq(S) /\ Len(g) = d /\ Len(h) = d + 1 /\ p.fnc \in S
    <3>1. /\ DOMAIN g = 1..d /\ g = [i \in 1..d |-> g[i]]
          /\ DOMAIN h = 1..(d + 1) /\ h = [i \in 1..(d + 1) |-> h[i]]
      OBVIOUS
    <3>2. \A i \in 1..(d + 1) : h[i] \in S
      OBVIOUS
    <3> HIDE DEF g, h, S
    <3>3. \A i \in 1..d : i \in 1..(d + 1)
      BY <1>1
    <3>4. d + 1 \in 1..(d + 1)
      BY <1>1
    <3>5. p.fnc \in S /\ \A i \in 1..d : g[i] \in S
      BY <2>2, <3>2, <3>3, <3>4
    <3>6. g \in [1..d -> S]
      BY <3>1, <3>5
    <3>7. h \in [1..(d + 1) -> S]
      BY <3>1, <3>2
    <3>8. d + 1 \in Nat
      BY <1>1
    <3>9. g \in Seq(S) /\ h \in Seq(S)
      BY <1>1, <3>6, <3>7, <3>8, IsASeq, SMTT(40)
    <3> QED
      BY <1>1, <3>1, <3>5, <3>8, <3>9, LenProperties
  <2> HIDE DEF g, h, S
  <2>4. Append(g, p.fnc) = h
    BY <1>1, <2>2, <2>3
  <2> QED
    BY <1>4, <1>8, <2>1, <2>4 DEF h
<1> QED
  BY <1>6, <1>7, <1>10, <1>11, <1>12 DEF StackInv

(* Front() and Last() *)
LEMMA FrontFacts ==
  ASSUME NEW S, NEW s \in Seq(S), s # <<>>
  PROVE  /\ Front(s) \in Seq(S) /\ Len(Front(s)) = Len(s) - 1 /\ Len(s) \in Nat \ {0}
         /\ \A i \in 1..(Len(s) - 1) : Front(s)[i] = s[i]
         /\ Last(s) = s[Len(s)]
<1> DEFINE n == Len(s) - 1
<1>1. Len(s) \in Nat \ {0}
  BY EmptySeq, LenProperties
<1>2. 1 \in Int /\ n \in Int /\ \A i \in 1..n : s[i] \in S
  BY <1>1, ElementOfSeq
<1>3. /\ SubSeq(s, 1, n) \in Seq(S) /\ Len(SubSeq(s, 1, n)) = IF 1 <= n THEN n - 1 + 1 ELSE 0
      /\ \A i \in 1..(n - 1 + 1) : SubSeq(s, 1, n)[i] = s[1 + i - 1]
  BY <1>2, SubSeqProperties
<1>4. Len(SubSeq(s, 1, n)) = n /\ \A i \in 1..n : SubSeq(s, 1, n)[i] = s[i]
  <2>1. n \in Nat /\ n - 1 + 1 = n /\ \A i \in 1..n : 1 + i - 1 = i
    BY <1>1
  <2> HIDE DEF n
  <2>2. Len(SubSeq(s, 1, n)) = n
    BY <1>3, <2>1
  <2>3. \A i \in 1..n : SubSeq(s, 1, n)[i] = s[i]
    BY <1>3, <2>1
  <2> QED
    BY <2>2, <2>3
<1>5. Front(s) = SubSeq(s, 1, n) /\ Last(s) = s[Len(s)]
  BY DEF Front, Last
<1> QED
  BY <1>1, <1>3, <1>4, <1>5

(* The engine on top has left, and its context is no longer in use. *)
LEMMA LeaveKeepsStacks ==
  ASSUME StackInv, execStack # <<>>,
         IsCtxs(ctx'), Len(ctx') = Len(ctx),
         \A c \in 1..Len(ctx) : ctx'[c].fnc = ctx[c].fnc,
         ~InUse(ctx'[ctxStack[Len(ctxStack)]]),
         \A c \in 1..Len(ctx) : c # ctxStack[Len(ctxStack)] => (InUse(ctx'[c]) <=> InUse(ctx[c])),
         \A c \in 1..Len(ctx) : InUse(ctx'[c]) /\ ctx'[c].deleted => ctx[c].deleted,
         ctxStack' = Front(ctxStack), bt' = Front(bt), complaints' = complaints,
         IsEngines(execStack'), Len(execStack') = Len(execStack) - 1,
         \A i \in 1..(Len(execStack) - 1) : execStack'[i].ctx = execStack[i].ctx
  PROVE  StackInv'
<1> DEFINE n == Len(ctx)
           d == Len(execStack)
<1>1. /\ ctxStack \in Seq(1..n) /\ Len(ctxStack) = d /\ n \in Nat /\ d \in Nat /\ d > 0
      /\ \A i \in 1..d : ctxStack[i] = execStack[i].ctx
  BY StackFacts, EnginesFacts DEF StackInv
<1>2. ctxStack # <<>>
  BY <1>1
<1>3. /\ ctxStack' \in Seq(1..n) /\ Len(ctxStack') = d - 1
      /\ \A i \in 1..(d - 1) : ctxStack'[i] = ctxStack[i]
  BY <1>1, <1>2, FrontFacts
<1>4. DOMAIN ctxStack' = 1..(d - 1) /\ \A i \in 1..d : ctxStack[i] \in 1..n
  BY <1>1, <1>3, LenProperties, ElementOfSeq
<1>5. \A i \in 1..(d - 1) : i \in 1..d /\ i # d
  BY <1>1
<1>6. d \in 1..d
  BY <1>1
<1>7. \A i, j \in 1..d : ctxStack[i] = ctxStack[j] => i = j
  BY <1>1 DEF StackInv
<1>8. \A i, j \in 1..Len(ctxStack') : ctxStack'[i] = ctxStack'[j] => i = j
  BY <1>3, <1>5, <1>7
<1>9. \A c \in 1..n : InUse(ctx'[c]) <=> \E i \in 1..(d - 1) : c = ctxStack'[i]
  <2> SUFFICES ASSUME NEW c \in 1..n
               PROVE  InUse(ctx'[c]) <=> \E i \in 1..(d - 1) : c = ctxStack'[i]
    OBVIOUS
  <2>1. InUse(ctx[c]) <=> \E i \in 1..d : c = ctxStack[i]
    BY <1>1 DEF StackInv, PendingIsOnStack
  <2>2. CASE c = ctxStack[d]
    <3>1. ~InUse(ctx'[c])
      BY <1>1, <2>2
    <3>2. \A i \in 1..(d - 1) : c # ctxStack'[i]
      BY <1>3, <1>5, <1>6, <1>7, <2>2
    <3> QED
      BY <3>1, <3>2
  <2>3. CASE c # ctxStack[d]
    <3>1. InUse(ctx'[c]) <=> InUse(ctx[c])
      BY <1>1, <2>3
    <3>2. ASSUME NEW i \in 1..d, c = ctxStack[i]
          PROVE  \E j \in 1..(d - 1) : c = ctxStack'[j]
      <4>1. i \in 1..(d - 1)
        BY <1>1, <2>3, <3>2
      <4> QED
        BY <1>3, <3>2, <4>1
    <3>3. ASSUME NEW j \in 1..(d - 1), c = ctxStack'[j]
          PROVE  \E i \in 1..d : c = ctxStack[i]
      BY <1>3, <1>5, <3>3
    <3> QED
      BY <2>1, <3>1, <3>2, <3>3
  <2> QED
    BY <2>2, <2>3
<1>10. PendingIsOnStack'
  <2>1. \A i \in 1..(d - 1) : ctxStack'[i] = execStack'[i].ctx
    BY <1>1, <1>3, <1>5
  <2>2. ctxStack' = [i \in 1..(d - 1) |-> execStack'[i].ctx]
    <3>1. ctxStack' = [i \in 1..(d - 1) |-> ctxStack'[i]]
      BY <1>3, <1>4, LenProperties
    <3> QED
      BY <2>1, <3>1
  <2>3. \A i \in 1..(d - 1) : ctxStack'[i] \in 1..n /\ InUse(ctx'[ctxStack'[i]])
    BY <1>3, <1>4, <1>5, <1>9
  <2>4. \A i \in 1..(d - 1) : ~ctx[ctxStack[i]].deleted
    BY <1>1, <1>5 DEF StackInv, PendingIsOnStack
  <2>5. \A i \in 1..(d - 1) : ~ctx'[ctxStack'[i]].deleted
    BY <1>3, <2>3, <2>4
  <2>6. {c \in 1..n : InUse(ctx'[c])} = {ctxStack'[i] : i \in 1..(d - 1)}
    <3> DEFINE A == {c \in 1..n : InUse(ctx'[c])}
               B == {ctxStack'[i] : i \in 1..(d - 1)}
    <3>1. ASSUME NEW c \in A PROVE c \in B
      BY <1>9
    <3>2. ASSUME NEW i \in 1..(d - 1) PROVE ctxStack'[i] \in A
      BY <2>3
    <3> QED
      BY <3>1, <3>2
  <2> QED
    BY <1>3, <2>2, <2>5, <2>6 DEF PendingIsOnStack
<1>11. BacktraceInStep'
  <2> SUFFICES ASSUME "recursion" \notin complaints
               PROVE  bt' = [i \in 1..(d - 1) |-> ctx'[ctxStack'[i]].fnc]
    BY <1>3 DEF BacktraceInStep, BacktraceIsTrue
  <2> DEFINE S == {ctx[ctxStack[i]].fnc : i \in 1..d}
  <2>1. bt = [i \in 1..d |-> ctx[ctxStack[i]].fnc]
    BY <1>1 DEF StackInv, BacktraceInStep, BacktraceIsTrue
  <2>2. \A i \in 1..d : ctx[ctxStack[i]].fnc \in S
    OBVIOUS
  <2> HIDE DEF S
  <2>3. bt \in Seq(S) /\ Len(bt) = d
    BY <1>1, <2>1, <2>2
  <2>4. bt # <<>>
    BY <1>1, <2>3
  <2>5. bt' \in Seq(S) /\ Len(bt') = d - 1 /\ \A i \in 1..(d - 1) : bt'[i] = bt[i]
    BY <2>3, <2>4, FrontFacts
  <2>6. bt' = [i \in 1..(d - 1) |-> bt'[i]]
    BY <2>5, LenProperties
  <2>7. \A i \in 1..(d - 1) : bt'[i] = ctx'[ctxStack'[i]].fnc
    <3> SUFFICES ASSUME NEW i \in 1..(d - 1) PROVE bt'[i] = ctx'[ctxStack'[i]].fnc
      OBVIOUS
    <3>1. i \in 1..d /\ ctxStack'[i] = ctxStack[i] /\ ctxStack[i] \in 1..n
      BY <1>3, <1>4, <1>5
    <3>2. bt'[i] = bt[i] /\ bt[i] = ctx[ctxStack[i]].fnc
      BY <2>1, <2>5, <3>1
    <3> QED
      BY <3>1, <3>2
  <2> QED
    BY <2>6, <2>7
<1> QED
  BY <1>8, <1>10, <1>11 DEF StackInv

(* What CallDone does to the contexts, with or without invalidate(). *)
LEMMA CallDoneCtxs ==
  ASSUME StackInv, CallDone
  PROVE  /\ IsCtxs(ctx') /\ Len(ctx') = Len(ctx)
         /\ \A c \in 1..Len(ctx) : ctx'[c].fnc = ctx[c].fnc
         /\ ~InUse(ctx'[ctxStack[Len(ctxStack)]])
         /\ \A c \in 1..Len(ctx) :
               c # ctxStack[Len(ctxStack)] => (InUse(ctx'[c]) <=> InUse(ctx[c]))
         /\ \A c \in 1..Len(ctx) : InUse(ctx'[c]) /\ ctx'[c].deleted => ctx[c].deleted
<1> DEFINE n == Len(ctx)
           d == Len(execStack)
           c0 == Top.ctx
           f == ctx[c0].fnc
           done == [ctx EXCEPT ![c0].computed = TRUE, ![c0].flushed = TRUE]
           dead == {cache[f].ctxs[i] : i \in 1..Len(cache[f].ctxs)}
           r == [ctx[c0] EXCEPT !.computed = TRUE, !.flushed = TRUE]
           marked == [i \in 1..n |-> [done[i] EXCEPT !.deleted = @ \/ i \in dead]]
<1>1. execStack # <<>> /\ ((Invalidate(f, done) /\ ctx' = marked) \/ ctx' = done)
  BY DEF CallDone
<1>2. /\ ctxStack \in Seq(1..n) /\ Len(ctxStack) = d /\ n \in Nat /\ d \in Nat /\ d > 0
      /\ \A i \in 1..d : ctxStack[i] = execStack[i].ctx
  BY <1>1, StackFacts, EnginesFacts DEF StackInv
<1>3. c0 = ctxStack[d] /\ c0 \in 1..n
  <2>1. Top = execStack[d]
    BY DEF Top, Last
  <2>2. d \in 1..d
    BY <1>2
  <2> QED
    BY <1>2, <2>1, <2>2, ElementOfSeq
<1>4. PICK S : ctx \in Seq(S) /\ \A x \in S : DOMAIN x = Fields
  BY DEF StackInv, IsCtxs
<1>5. DOMAIN ctx = 1..n /\ \A i \in 1..n : DOMAIN ctx[i] = Fields
  BY CtxsFacts DEF StackInv
<1>6. DOMAIN r = Fields /\ r.fnc = ctx[c0].fnc /\ r.flushed = TRUE /\ r.deleted = ctx[c0].deleted
  <2> HIDE DEF c0
  <2> QED
    BY <1>3, <1>5 DEF Fields
<1>7. done = [ctx EXCEPT ![c0] = r]
  <2> HIDE DEF c0
  <2> QED
    BY <1>3, <1>5
<1> HIDE DEF r, c0
<1>8. done \in Seq(S \cup {r}) /\ Len(done) = n /\ DOMAIN done = 1..n
      /\ \A i \in 1..n : done[i] = IF i = c0 THEN r ELSE ctx[i]
  <2> HIDE DEF done
  <2>1. ctx \in Seq(S \cup {r}) /\ r \in S \cup {r}
    BY <1>4
  <2> QED
    BY <1>3, <1>7, <2>1, ExceptSeq, LenProperties
<1> HIDE DEF done
<1>9. IsCtxs(done)
  <2>1. \A x \in S \cup {r} : DOMAIN x = Fields
    BY <1>4, <1>6
  <2> QED
    BY <1>8, <2>1 DEF IsCtxs
<1>10. \A i \in 1..n : /\ DOMAIN done[i] = Fields /\ done[i].fnc = ctx[i].fnc
                       /\ done[i].deleted = ctx[i].deleted
                       /\ i # c0 => (InUse(done[i]) <=> InUse(ctx[i]))
  BY <1>5, <1>6, <1>8 DEF InUse
<1>11. ~InUse(done[c0])
  BY <1>3, <1>6, <1>8 DEF InUse
<1>12. CASE ctx' = done
  BY <1>2, <1>3, <1>8, <1>9, <1>10, <1>11, <1>12
<1>13. CASE Invalidate(f, done) /\ ctx' = marked
  <2> HIDE DEF dead
  <2>1. /\ DOMAIN ctx' = 1..n
        /\ \A i \in 1..n : ctx'[i] = [done[i] EXCEPT !.deleted = @ \/ i \in dead]
    BY <1>13
  <2>2. \A i \in 1..n : /\ DOMAIN ctx'[i] = Fields /\ ctx'[i].fnc = done[i].fnc
                        /\ ctx'[i].flushed = done[i].flushed
                        /\ ctx'[i].deleted = (done[i].deleted \/ i \in dead)
    BY <1>10, <2>1 DEF Fields
  <2>3. \A i \in 1..n : InUse(done[i]) => i \notin dead
    BY <1>13 DEF Invalidate, dead
  <2>4. \A i \in 1..n : InUse(ctx'[i]) <=> InUse(done[i])
    BY <2>2 DEF InUse
  <2>5. IsCtxs(ctx') /\ Len(ctx') = n
    <3> DEFINE T == {ctx'[i] : i \in 1..n}
    <3>1. \A i \in 1..n : ctx'[i] \in T
      OBVIOUS
    <3>2. \A x \in T : DOMAIN x = Fields
      BY <2>2
    <3>3. ctx' = [i \in 1..n |-> ctx'[i]]
      BY <1>13
    <3> HIDE DEF T, marked
    <3>4. ctx' \in Seq(T) /\ Len(ctx') = n
      BY <1>2, <3>1, <3>3
    <3> QED
      BY <3>2, <3>4 DEF IsCtxs
  <2>6. \A i \in 1..n : InUse(ctx'[i]) /\ ctx'[i].deleted => ctx[i].deleted
    BY <1>10, <2>2, <2>3, <2>4
  <2> QED
    BY <1>2, <1>3, <1>10, <1>11, <2>2, <2>4, <2>5, <2>6
<1> QED
  BY <1>1, <1>12, <1>13

(* The engine on top is done. *)
LEMMA CallDoneKeepsStacks ==
  ASSUME StackInv, CallDone
  PROVE  StackInv'
<1> DEFINE d == Len(execStack)
           below == Front(execStack)
           out == FlushedResults(ctx[Top.ctx])
           new == Items(Top.site.pc + 1, out)
<1>1. /\ execStack # <<>> /\ ctxStack' = Front(ctxStack) /\ bt' = Front(bt)
      /\ complaints' = complaints
      /\ \/ below = <<>> /\ execStack' = <<>>
         \/ below # <<>> /\ execStack' = Replace(below, Top.site, new)
  BY DEF CallDone, PopCall
<1>2. PICK S : execStack \in Seq(S) /\ \A e \in S : DOMAIN e = {"ctx", "site", "work"}
  BY DEF StackInv, IsEngines
<1>3. below \in Seq(S) /\ Len(below) = d - 1 /\ \A i \in 1..(d - 1) : below[i] = execStack[i]
  BY <1>1, <1>2, FrontFacts
<1>4. IsEngines(below)
  BY <1>2, <1>3 DEF IsEngines
<1> HIDE DEF below, new
<1>5. /\ IsEngines(execStack') /\ Len(execStack') = d - 1
      /\ \A i \in 1..(d - 1) : execStack'[i].ctx = execStack[i].ctx
  <2>1. CASE below = <<>> /\ execStack' = <<>>
    BY <1>3, <1>4, <2>1
  <2>2. CASE below # <<>> /\ execStack' = Replace(below, Top.site, new)
    BY <1>3, <1>4, <2>2, ReplaceFacts
  <2> QED
    BY <1>1, <2>1, <2>2
<1> QED
  BY <1>1, <1>5, CallDoneCtxs, LeaveKeepsStacks

-------------------------------------------------------------------------------
(* The theorems *)

LEMMA StackInvInit == InitCallCache => StackInv
<1> SUFFICES ASSUME InitCallCache PROVE StackInv
  OBVIOUS
<1>1. ctx = <<>> /\ ctxStack = <<>> /\ bt = <<>> /\ execStack = <<>>
  BY DEF InitCallCache
<1>2. PICK none : none = {}
  OBVIOUS
<1>3. <<>> \in Seq(none) /\ Len(<<>>) = 0
  BY EmptySeq
<1>4. IsCtxs(ctx) /\ IsEngines(execStack)
  <2>1. \E S : <<>> \in Seq(S) /\ \A x \in S : DOMAIN x = Fields
    BY <1>2, <1>3
  <2>2. \E S : <<>> \in Seq(S) /\ \A x \in S : DOMAIN x = {"ctx", "site", "work"}
    BY <1>2, <1>3
  <2>3. IsCtxs(<<>>)
    BY <2>1, Zenon DEF IsCtxs
  <2>4. IsEngines(<<>>)
    BY <2>2, Zenon DEF IsEngines
  <2> QED
    BY <1>1, <2>3, <2>4
<1>5. PendingIsOnStack
  BY <1>1 DEF PendingIsOnStack
<1>6. BacktraceInStep
  BY <1>1 DEF BacktraceInStep, BacktraceIsTrue
<1> QED
  BY <1>1, <1>3, <1>4, <1>5, <1>6 DEF StackInv

LEMMA StackInvStep == StackInv /\ [NextCall]_vars => StackInv'
<1> SUFFICES ASSUME StackInv, [NextCall]_vars PROVE StackInv'
  OBVIOUS
<1>1. CASE RootCall
  BY <1>1, EnterCallKeepsStacks DEF RootCall
<1>2. CASE ExecInsn \/ ExecReturn
  BY <1>2, ExecKeepsStacks
<1>3. CASE ExecCall
  <2>1. PICK item \in Ready :
           \/ CallUnresolved(item)
           \/ CallRefused(item, PrepareCall(item.heap, At(item).fnc))
           \/ CallOptimizedOut(item, PrepareCall(item.heap, At(item).fnc))
           \/ EnterCall(PrepareCall(item.heap, At(item).fnc), item)
    BY <1>3 DEF ExecCall
  <2>2. execStack # <<>>
    BY <1>3 DEF ExecCall
  <2> QED
    BY <2>1, <2>2, OldCtxKeepsStacks, EnterCallKeepsStacks
<1>4. CASE CallDone
  BY <1>4, CallDoneKeepsStacks
<1>5. CASE UNCHANGED vars
  <2>1. /\ ctx' = ctx /\ ctxStack' = ctxStack /\ bt' = bt /\ execStack' = execStack
        /\ complaints' = complaints
    BY <1>5 DEF vars
  <2> QED
    BY <2>1, StacksStay, SameCtxs DEF StackInv
<1> QED
  BY <1>1, <1>2, <1>3, <1>4, <1>5 DEF NextCall, Idle

LEMMA StackInvAlways == CallSpec => []StackInv
BY StackInvInit, StackInvStep, PTL DEF CallSpec

(***************************************************************************)
(* For every program, however calls hit the cache, are refused, are cut    *)
(* off or start engines: the contexts that are in use are exactly those of *)
(* the engines on execStack_, in their order, and none of them has been    *)
(* thrown away by invalidate() (symcall.cc): flushCallResults() always     *)
(* wakes up a caller whose context is still there.                         *)
(***************************************************************************)
THEOREM ContextsOutliveCalls == CallSpec => []PendingIsOnStack
<1>1. StackInv => PendingIsOnStack
  BY DEF StackInv
<1> QED
  BY <1>1, StackInvAlways, PTL

(***************************************************************************)
(* Until the first recursive call is refused, the backtrace (SymBackTrace) *)
(* lists exactly the functions of the pending calls, which is what         *)
(* getCallCtx() takes for granted when it removes the called function from *)
(* it.                                                                     *)
(***************************************************************************)
THEOREM BacktraceListsCalls == CallSpec => []BacktraceInStep
<1>1. StackInv => BacktraceInStep
  BY DEF StackInv
<1> QED
  BY <1>1, StackInvAlways, PTL

===============================================================================
