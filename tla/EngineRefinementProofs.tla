------------------------ MODULE EngineRefinementProofs ------------------------
(***************************************************************************)
(* SymExecEngine implements WorkSet, proved for every function, option,    *)
(* set of heaps and monotone transfer function: the bookkeeping of the     *)
(* engine is correct.  Its result covers every path through the function:  *)
(* WorkSet is sound, and paths of any length stay within what the executed *)
(* places cover.                                                           *)
(***************************************************************************)
EXTENDS EngineRefinement, PathSemantics, SymExecEngineProofs, WellFoundedInduction

-------------------------------------------------------------------------------
(* The abstract program: places, the order on them, and what leads where. *)

Succ == [p \in Place |-> IF IsPlace(p) THEN Successors(p) ELSE {}]
Yields == [p \in Place |-> IF IsPlace(p) THEN Yield(p) ELSE {}]

LEMMA PlaceFacts ==
  ASSUME NEW p \in Place
  PROVE  /\ p[1] \in Block /\ p[2] \in 1..MaxLen /\ p[3] \in Heap
         /\ p = <<p[1], p[2], p[3]>> /\ p[2] \in Nat /\ p[2] > 0
BY MaxLenAssumption DEF Place

LEMMA IsPlaceFacts ==
  ASSUME prog \in Programs, NEW b \in Block, NEW i \in 1..Len(Insns(b)), NEW sh \in Heap
  PROVE  <<b, i, sh>> \in Place /\ IsPlace(<<b, i, sh>>)
<1>1. Len(Insns(b)) \in Nat /\ Len(Insns(b)) <= MaxLen /\ MaxLen \in Nat
  BY InsnFacts, MaxLenAssumption DEF Insns
<1> QED
  BY <1>1 DEF Place, IsPlace

LEMMA FirstIsPlace ==
  ASSUME prog \in Programs, NEW b \in Block, NEW sh \in Heap
  PROVE  <<b, 1, sh>> \in Place /\ IsPlace(<<b, 1, sh>>)
<1>1. 1 \in 1..Len(Insns(b))
  BY InsnFacts
<1> QED
  BY <1>1, IsPlaceFacts

(* To cover is a preorder on the places as it is on the heaps. *)
LEMMA PlacesAreOrdered == Abs!AboveIsPreorder
<1>1. PlaceCovers \subseteq Place \X Place
  BY DEF PlaceCovers
<1>2. ASSUME NEW x \in Place PROVE <<x, x>> \in PlaceCovers
  BY PlaceFacts, SymJoinAssumption DEF PlaceCovers
<1>3. ASSUME NEW x \in Place, NEW y \in Place, <<x, y>> \in PlaceCovers,
             NEW z \in Place, <<y, z>> \in PlaceCovers
      PROVE  <<x, z>> \in PlaceCovers
  <2>1. /\ x[3] \in Heap /\ y[3] \in Heap /\ z[3] \in Heap
        /\ x[1] = y[1] /\ x[2] = y[2] /\ <<x[3], y[3]>> \in Covers
        /\ y[1] = z[1] /\ y[2] = z[2] /\ <<y[3], z[3]>> \in Covers
    BY <1>3, PlaceFacts DEF PlaceCovers
  <2>2. <<x[3], z[3]>> \in Covers
    BY <2>1, SymJoinAssumption
  <2> QED
    BY <2>1, <2>2 DEF PlaceCovers
<1> QED
  BY <1>1, <1>2, <1>3 DEF Abs!AboveIsPreorder

LEMMA CoversPlace ==
  ASSUME NEW b, NEW i, NEW a, NEW h, <<b, i, a>> \in Place, <<b, i, h>> \in Place
  PROVE  <<<<b, i, a>>, <<b, i, h>>>> \in PlaceCovers <=> <<a, h>> \in Covers
BY DEF PlaceCovers

LEMMA PostElements ==
  ASSUME NEW f \in Fn, NEW sh \in Heap
  PROVE  Elements(Post[f][sh]) \subseteq Heap
BY PostType DEF Elements

(* What the instruction at a place leads to, one kind of instruction at a time. *)
LEMMA SuccessorsFacts ==
  ASSUME prog \in Programs, NEW b \in Block, NEW i \in 1..Len(Insns(b)), NEW sh \in Heap
  PROVE  LET insn == Insns(b)[i]
             to == Successors(<<b, i, sh>>)
         IN  /\ insn.code # "cmp" /\ sh \in ExitHeap => to = {}
             /\ insn.code \in {"op", "call"} /\ sh \notin ExitHeap =>
                   to = {<<b, i + 1, s>> : s \in Elements(Post[insn.fns[1]][sh])}
             /\ insn.code = "cmp" => to = {<<b, i + 1, sh>>}
             /\ insn.code = "jmp" /\ sh \notin ExitHeap => to = {<<insn.targets[1], 1, sh>>}
             /\ insn.code = "cond" /\ sh \notin ExitHeap =>
                   to = {<<insn.targets[1], 1, s>> : s \in Elements(Post[insn.fns[1]][sh])}
                        \cup {<<insn.targets[2], 1, s>> : s \in Elements(Post[insn.fns[2]][sh])}
             /\ insn.code \in {"ret", "abort"} => to = {}
<1> DEFINE insn == Insns(b)[i]
           p == <<b, i, sh>>
<1>1. /\ p[1] = b /\ p[2] = i /\ p[3] = sh /\ InsnAt(p) = insn
      /\ Exited(p) <=> sh \in ExitHeap /\ insn.code # "cmp"
  BY DEF InsnAt, Exited
<1> HIDE DEF insn, p
<1>2. Exited(p) => Successors(p) = {}
  BY DEF Successors
<1>3. insn.code \in {"ret", "abort"} => Successors(p) = {}
  BY <1>1 DEF Successors
<1>4. insn.code \in {"op", "call"} /\ ~Exited(p) =>
         Successors(p) = {<<b, i + 1, s>> : s \in Elements(Post[insn.fns[1]][sh])}
  BY <1>1 DEF Successors
<1>5. insn.code = "cmp" /\ ~Exited(p) => Successors(p) = {<<b, i + 1, sh>>}
  BY <1>1 DEF Successors
<1>6. insn.code = "jmp" /\ ~Exited(p) => Successors(p) = {<<insn.targets[1], 1, sh>>}
  BY <1>1 DEF Successors
<1>7. insn.code = "cond" /\ ~Exited(p) =>
         Successors(p) = {<<insn.targets[1], 1, s>> : s \in Elements(Post[insn.fns[1]][sh])}
                         \cup {<<insn.targets[2], 1, s>> : s \in Elements(Post[insn.fns[2]][sh])}
  <2> DEFINE Out(t) == {<<insn.targets[t], 1, s>> : s \in Elements(Post[insn.fns[t]][sh])}
  <2>1. insn.code = "cond" /\ ~Exited(p) => Successors(p) = UNION {Out(t) : t \in {1, 2}}
    BY <1>1 DEF Successors
  <2>2. UNION {Out(t) : t \in {1, 2}} = Out(1) \cup Out(2)
    <3> HIDE DEF Out
    <3> QED
      OBVIOUS
  <2> QED
    BY <2>1, <2>2
<1> QED
  BY <1>1, <1>2, <1>3, <1>4, <1>5, <1>6, <1>7 DEF insn, p

LEMMA CodeFacts ==
  ASSUME prog \in Programs, NEW b \in Block, NEW i \in 1..Len(Insns(b))
  PROVE  Insns(b)[i].code \in {"op", "call", "cmp", "jmp", "cond", "ret", "abort"}
<1>1. Insns(b) \in Seq(Insn)
  BY ControlFlowAssumption DEF WellFormedBlock, Insns
<1>2. Insns(b)[i] \in Insn
  BY <1>1
<1> QED
  BY <1>2 DEF Insn, TermCodes

LEMMA SuccessorsType ==
  ASSUME prog \in Programs, NEW b \in Block, NEW i \in 1..Len(Insns(b)), NEW sh \in Heap
  PROVE  /\ Successors(<<b, i, sh>>) \subseteq Place
         /\ \A t \in Successors(<<b, i, sh>>) : IsPlace(t)
<1> DEFINE insn == Insns(b)[i]
           to == Successors(<<b, i, sh>>)
<1>1. insn.code \in {"op", "call", "cmp", "jmp", "cond", "ret", "abort"}
  BY CodeFacts
<1>2. /\ insn.code \in TermCodes <=> i = Len(Insns(b))
      /\ insn.code \in {"op", "call", "ret"} => insn.fns[1] \in Fn
      /\ insn.code = "jmp" => insn.targets[1] \in Block
      /\ insn.code = "cond" => /\ insn.fns[1] \in Fn /\ insn.fns[2] \in Fn
                               /\ insn.targets[1] \in Block /\ insn.targets[2] \in Block
  BY InsnFacts
<1>3. insn.code \in {"op", "call", "cmp"} => i + 1 \in 1..Len(Insns(b))
  BY <1>2, InsnFacts DEF TermCodes
<1>4. insn.code \in {"op", "call", "cmp"} => \A s \in Heap : <<b, i + 1, s>> \in Place /\ IsPlace(<<b, i + 1, s>>)
  BY <1>3, IsPlaceFacts
<1>5. CASE insn.code # "cmp" /\ sh \in ExitHeap
  BY <1>5, SuccessorsFacts
<1>6. CASE insn.code \in {"op", "call"} /\ sh \notin ExitHeap
  <2>1. to = {<<b, i + 1, s>> : s \in Elements(Post[insn.fns[1]][sh])}
    BY <1>6, SuccessorsFacts
  <2>2. Elements(Post[insn.fns[1]][sh]) \subseteq Heap
    BY <1>6, <1>2, PostElements
  <2> QED
    BY <2>1, <2>2, <1>4, <1>6
<1>7. CASE insn.code = "cmp"
  BY <1>7, <1>4, SuccessorsFacts
<1>8. CASE insn.code = "jmp" /\ sh \notin ExitHeap
  BY <1>8, <1>2, FirstIsPlace, SuccessorsFacts
<1>9. CASE insn.code = "cond" /\ sh \notin ExitHeap
  <2> DEFINE A == Elements(Post[insn.fns[1]][sh])
             B == Elements(Post[insn.fns[2]][sh])
  <2>1. to = {<<insn.targets[1], 1, s>> : s \in A} \cup {<<insn.targets[2], 1, s>> : s \in B}
    BY <1>9, SuccessorsFacts
  <2>2. A \subseteq Heap /\ B \subseteq Heap
    BY <1>9, <1>2, PostElements
  <2>3. \A s \in Heap : \A t \in {1, 2} :
           <<insn.targets[t], 1, s>> \in Place /\ IsPlace(<<insn.targets[t], 1, s>>)
    BY <1>9, <1>2, FirstIsPlace
  <2> QED
    BY <2>1, <2>2, <2>3
<1>10. CASE insn.code \in {"ret", "abort"}
  BY <1>10, SuccessorsFacts
<1> QED
  BY <1>1, <1>5, <1>6, <1>7, <1>8, <1>9, <1>10

LEMMA YieldType ==
  ASSUME prog \in Programs, conf \in Conf, NEW b \in Block, NEW i \in 1..Len(Insns(b)),
         NEW sh \in Heap
  PROVE  Yield(<<b, i, sh>>) \subseteq Heap
<1> DEFINE insn == Insns(b)[i]
<1>1. \A s \in ExitHeap : s \in Heap /\ Destroy[s] \in Heap
  BY EngineAssumption, SymJoinAssumption
<1>2. SetExit[sh] \in ExitHeap
  BY EngineAssumption
<1>3. insn.code = "ret" => Elements(Post[insn.fns[1]][sh]) \subseteq Heap
  BY InsnFacts, PostElements
<1> QED
  BY <1>1, <1>2, <1>3 DEF Yield, Exited, InsnAt

LEMMA FlowTypes ==
  ASSUME prog \in Programs, conf \in Conf
  PROVE  Succ \in [Place -> SUBSET Place] /\ Yields \in [Place -> SUBSET Heap]
<1>1. ASSUME NEW p \in Place, IsPlace(p)
      PROVE  Successors(p) \subseteq Place /\ Yield(p) \subseteq Heap
  <2>1. p[1] \in Block /\ p[2] \in Nat /\ p[2] > 0 /\ p[3] \in Heap /\ p = <<p[1], p[2], p[3]>>
    BY PlaceFacts
  <2>2. p[2] \in 1..Len(Insns(p[1]))
    BY <1>1, <2>1, InsnFacts DEF IsPlace
  <2> HIDE DEF Place
  <2> QED
    BY <2>1, <2>2, SuccessorsType, YieldType
<1> QED
  BY <1>1 DEF Succ, Yields

(* What an instruction does to a heap covers what it does to a covered one. *)
LEMMA SuccessorsMonotone ==
  ASSUME prog \in Programs, NEW b \in Block, NEW i \in 1..Len(Insns(b)),
         NEW a \in Heap, NEW h \in Heap, <<a, h>> \in Covers,
         NEW t \in Successors(<<b, i, h>>)
  PROVE  \E s \in Successors(<<b, i, a>>) : <<s, t>> \in PlaceCovers
<1> DEFINE insn == Insns(b)[i]
           from(x) == Successors(<<b, i, x>>)
<1>1. insn.code \in {"op", "call", "cmp", "jmp", "cond", "ret", "abort"}
  BY CodeFacts
<1>2. /\ insn.code \in {"op", "call", "ret"} => insn.fns[1] \in Fn
      /\ insn.code = "cond" => insn.fns[1] \in Fn /\ insn.fns[2] \in Fn
  BY InsnFacts
<1>3. a \in ExitHeap <=> h \in ExitHeap
  BY SymJoinAssumption
<1>4. from(a) \subseteq Place /\ from(h) \subseteq Place
  BY SuccessorsType
<1>5. ASSUME NEW f \in Fn, NEW u \in Elements(Post[f][h])
      PROVE  \E v \in Elements(Post[f][a]) : <<v, u>> \in Covers
  BY PostIsMonotone DEF CoveredBy
<1>6. ASSUME NEW d, NEW k, NEW u, NEW v, t = <<d, k, u>>, <<d, k, v>> \in from(a),
             <<v, u>> \in Covers
      PROVE  \E s \in from(a) : <<s, t>> \in PlaceCovers
  <2>1. <<<<d, k, v>>, <<d, k, u>>>> \in PlaceCovers
    BY <1>4, <1>6, CoversPlace
  <2> QED
    BY <1>6, <2>1
<1>7. CASE insn.code # "cmp" /\ h \in ExitHeap
  BY <1>7, SuccessorsFacts
<1>8. CASE insn.code \in {"op", "call"} /\ h \notin ExitHeap
  <2>1. /\ from(a) = {<<b, i + 1, s>> : s \in Elements(Post[insn.fns[1]][a])}
        /\ from(h) = {<<b, i + 1, s>> : s \in Elements(Post[insn.fns[1]][h])}
    BY <1>3, <1>8, SuccessorsFacts
  <2>2. PICK u \in Elements(Post[insn.fns[1]][h]) : t = <<b, i + 1, u>>
    BY <2>1
  <2>3. PICK v \in Elements(Post[insn.fns[1]][a]) : <<v, u>> \in Covers
    BY <1>2, <1>5, <1>8
  <2>4. <<b, i + 1, v>> \in from(a)
    BY <2>1
  <2> QED
    BY <2>2, <2>3, <2>4, <1>6
<1>9. CASE insn.code = "cmp"
  <2>1. from(a) = {<<b, i + 1, a>>} /\ from(h) = {<<b, i + 1, h>>}
    BY <1>9, SuccessorsFacts
  <2> QED
    BY <2>1, <1>6
<1>10. CASE insn.code = "jmp" /\ h \notin ExitHeap
  <2>1. from(a) = {<<insn.targets[1], 1, a>>} /\ from(h) = {<<insn.targets[1], 1, h>>}
    BY <1>3, <1>10, SuccessorsFacts
  <2> QED
    BY <2>1, <1>6
<1>11. CASE insn.code = "cond" /\ h \notin ExitHeap
  <2> DEFINE all(x) == {<<insn.targets[1], 1, s>> : s \in Elements(Post[insn.fns[1]][x])}
                 \cup {<<insn.targets[2], 1, s>> : s \in Elements(Post[insn.fns[2]][x])}
  <2>1. from(a) = all(a) /\ from(h) = all(h)
    BY <1>3, <1>11, SuccessorsFacts
  <2>2. PICK n \in {1, 2} : t \in {<<insn.targets[n], 1, s>> : s \in Elements(Post[insn.fns[n]][h])}
    BY <2>1
  <2>3. PICK u \in Elements(Post[insn.fns[n]][h]) : t = <<insn.targets[n], 1, u>>
    BY <2>2
  <2>4. PICK v \in Elements(Post[insn.fns[n]][a]) : <<v, u>> \in Covers
    BY <1>2, <1>5, <1>11
  <2>5. <<insn.targets[n], 1, v>> \in from(a)
    BY <2>1
  <2> QED
    BY <2>3, <2>4, <2>5, <1>6
<1>12. CASE insn.code \in {"ret", "abort"}
  BY <1>12, SuccessorsFacts
<1> QED
  BY <1>1, <1>7, <1>8, <1>9, <1>10, <1>11, <1>12

LEMMA FlowIsMonotone ==
  ASSUME prog \in Programs, NEW x \in Place, NEW y \in Place, <<x, y>> \in PlaceCovers,
         NEW t \in Succ[y]
  PROVE  \E s \in Succ[x] : <<s, t>> \in PlaceCovers
<1>1. /\ x[1] \in Block /\ x[3] \in Heap /\ y[3] \in Heap /\ x[2] \in Nat /\ x[2] > 0
      /\ x = <<x[1], x[2], x[3]>> /\ y = <<y[1], y[2], y[3]>>
  BY PlaceFacts
<1>2. x[1] = y[1] /\ x[2] = y[2] /\ <<x[3], y[3]>> \in Covers
  BY DEF PlaceCovers
<1>3. IsPlace(y) /\ t \in Successors(y) /\ Succ[x] = IF IsPlace(x) THEN Successors(x) ELSE {}
  BY DEF Succ
<1>4. IsPlace(x) /\ x[2] \in 1..Len(Insns(x[1]))
  BY <1>1, <1>2, <1>3, InsnFacts DEF IsPlace
<1>5. t \in Successors(<<x[1], x[2], y[3]>>)
  BY <1>1, <1>2, <1>3
<1>6. \E s \in Successors(<<x[1], x[2], x[3]>>) : <<s, t>> \in PlaceCovers
  BY <1>1, <1>2, <1>4, <1>5, SuccessorsMonotone
<1> QED
  BY <1>1, <1>3, <1>4, <1>6

(* The function under analysis and the options do not change. *)
LEMMA FlowIsFixed ==
  ASSUME prog' = prog, conf' = conf
  PROVE  Succ' = Succ /\ Yields' = Yields
BY DEF Succ, Yields, IsPlace, Successors, Yield, Exited, InsnAt, Insns

-------------------------------------------------------------------------------
(* Steps of the engine as steps of WorkSet. *)

Fixed == /\ prog \in Programs /\ conf \in Conf
         /\ prog' = prog /\ conf' = conf /\ entry' = entry

LEMMA FixedFacts ==
  ASSUME Fixed
  PROVE  /\ Succ \in [Place -> SUBSET Place] /\ Yields \in [Place -> SUBSET Heap]
         /\ Succ' = Succ /\ Yields' = Yields
         /\ <<prog.entry, 1, entry>>' = <<prog.entry, 1, entry>>
BY FlowTypes, FlowIsFixed DEF Fixed

LEMMA PlaceCoversItself ==
  ASSUME NEW x \in Place
  PROVE  <<x, x>> \in PlaceCovers
BY PlacesAreOrdered DEF Abs!AboveIsPreorder

(* The place x is executed and nothing else happens. *)
LEMMA ExecuteStep ==
  ASSUME Fixed, Waiting \subseteq Place, Waiting' \subseteq Place, NEW x \in Waiting,
         executed' = executed \cup {x},
         Elements(results') = Elements(results) \cup Yields[x],
         Waiting \subseteq Waiting' \cup executed', Succ[x] \subseteq Waiting',
         Waiting' \subseteq Waiting \cup Succ[x]
  PROVE  Abs!Execute
<1>1. /\ Succ' = Succ /\ Yields' = Yields
      /\ <<prog.entry, 1, entry>>' = <<prog.entry, 1, entry>>
  BY FixedFacts
<1>2. Succ[x] \subseteq Place /\ x \in Place
  BY FixedFacts
<1> DEFINE before == (Waiting \ {x}) \cup Succ[x]
<1>3. ASSUME NEW p \in before
      PROVE  \E q \in Waiting' \cup executed' : <<q, p>> \in PlaceCovers
  <2>1. p \in Place /\ p \in Waiting' \cup executed'
    BY <1>2
  <2> QED
    BY <2>1, PlaceCoversItself
<1>4. ASSUME NEW q \in Waiting'
      PROVE  \E p \in before \cup executed' : <<q, p>> \in PlaceCovers
  <2>1. q \in Place /\ q \in before \cup executed'
    OBVIOUS
  <2> QED
    BY <2>1, PlaceCoversItself
<1>5. Abs!Replaced(before)
  BY <1>1, <1>3, <1>4 DEF Abs!Replaced, Abs!Keeps, Abs!Stems, Abs!Covered, Succ, Yields
<1>6. Elements(results)' = Elements(results) \cup Yields[x]
  BY DEF Elements
<1> QED
  BY <1>5, <1>6 DEF Abs!Execute, Succ, Yields

(* Nothing is executed; what waits is replaced. *)
LEMMA RearrangeStep ==
  ASSUME Fixed, Waiting' \subseteq Place, executed' = executed, results' = results,
         \A p \in Waiting : \E q \in Waiting' \cup executed : <<q, p>> \in PlaceCovers,
         \A q \in Waiting' : \E p \in Waiting \cup executed : <<q, p>> \in PlaceCovers
  PROVE  Abs!Rearrange
<1>1. /\ Succ' = Succ /\ Yields' = Yields
      /\ <<prog.entry, 1, entry>>' = <<prog.entry, 1, entry>>
  BY FixedFacts
<1>2. Abs!Replaced(Waiting)
  BY <1>1 DEF Abs!Replaced, Abs!Keeps, Abs!Stems, Abs!Covered, Succ, Yields
<1>3. Elements(results)' = Elements(results)
  BY DEF Elements
<1> QED
  BY <1>2, <1>3 DEF Abs!Rearrange

(* What waits does not change. *)
LEMMA StutterStep ==
  ASSUME Fixed, Waiting' = Waiting, executed' = executed, results' = results
  PROVE  UNCHANGED Abs!wvars
<1>1. /\ Succ' = Succ /\ Yields' = Yields
      /\ <<prog.entry, 1, entry>>' = <<prog.entry, 1, entry>>
  BY FixedFacts
<1>2. Elements(results)' = Elements(results)
  BY DEF Elements
<1> QED
  BY <1>1, <1>2 DEF Abs!wvars, Succ, Yields

LEMMA InitRefines == HistInit => Abs!WorkInit
<1> SUFFICES ASSUME HistInit PROVE Abs!WorkInit
  OBVIOUS
<1>1. /\ prog \in Programs /\ conf \in Conf /\ entry \in Heap /\ prog.entry \in Block
      /\ results = <<>> /\ executed = {} /\ pc = "getNext"
  BY ControlFlowAssumption, EngineAssumption DEF HistInit, Init, InitControlFlow
<1>2. Abs!Flow
  BY <1>1, FlowTypes, FirstIsPlace DEF Abs!Flow, Succ, Yields
<1>3. Abs!Monotone
  BY <1>1, FlowIsMonotone DEF Abs!Monotone, Abs!Covered, Succ
<1>4. \A b \in Block : PendingHeaps(cont[b]) = IF b = prog.entry THEN {entry} ELSE {}
  <2> TAKE b \in Block
  <2>1. cont[b] = IF b = prog.entry THEN InsertNew(EmptyState, entry) ELSE EmptyState
    BY DEF HistInit, Init, Key
  <2>2. PendingHeaps(EmptyState) = {}
    BY DEF PendingHeaps, Pending, EmptyState
  <2>3. PendingHeaps(InsertNew(EmptyState, entry)) = {entry}
    BY <1>1 DEF PendingHeaps, Pending, EmptyState, InsertNew
  <2> QED
    BY <2>1, <2>2, <2>3
<1>5. Waiting = {<<prog.entry, 1, entry>>}
  BY <1>1, <1>4 DEF Waiting, BlockPlaces, Busy
<1>6. Elements(results) = {}
  BY <1>1 DEF Elements
<1> QED
  BY <1>1, <1>2, <1>3, <1>5, <1>6 DEF Abs!WorkInit

-------------------------------------------------------------------------------
(* The parts of Waiting, as functions of the variables they depend on. *)

BlocksOf(c) == UNION {{<<b, 1, sh>> : sh \in PendingHeaps(c[b])} : b \in Block}

LocalOf(p, b, i, h, heaps) ==
  IF i = 1 THEN {} ELSE {<<b, i, heaps[j]>> : j \in (IF p = "emit" THEN h + 1 ELSE h)..Len(heaps)}

CollectedOf(p, code, h, heaps, next, res, joined) ==
  CASE p = "join" -> Elements(res) \cup Elements(joined)
    [] p = "insn" /\ code = "cmp" -> {heaps[j] : j \in 1..(h - 1)}
    [] OTHER -> Elements(next)

NextOf(b, i, heaps) == {<<b, i + 1, sh>> : sh \in heaps}

EmitOf(updates) == {<<e.dst, 1, e.heap>> : e \in Elements(updates)}

CallOf(p, b, i, h, heaps) == IF p = "wait" THEN {<<b, i, heaps[h - 1]>>} ELSE {}

InHands == LocalOf(pc, block, insnIdx, heapIdx, localState)
           \cup NextOf(block, insnIdx, CollectedOf(pc, CurInsn.code, heapIdx, localState,
                          nextLocalState, callResults, cont[CallResults].heaps))
           \cup EmitOf(emit)
           \cup CallOf(pc, block, insnIdx, heapIdx, localState)

LEMMA BusyIsRunning == ASSUME EngineTypeOK PROVE Busy <=> Running
BY DEF EngineTypeOK, Busy, Running

LEMMA ConsumedAtCall ==
  ASSUME EngineInv, pc = "wait"
  PROVE  /\ Consumed = {<<block, insnIdx, localState[heapIdx - 1]>>}
         /\ heapIdx - 1 \in 1..Len(localState)
<1>1. heapIdx \in Nat /\ heapIdx > 1 /\ heapIdx <= Len(localState) + 1 /\ Len(localState) \in Nat
  BY DEF EngineInv, EngineTypeOK, ControlInv, Running
<1>2. {j \in 1..Len(localState) : pc = "wait" /\ j = heapIdx - 1} = {heapIdx - 1}
  BY <1>1
<1> QED
  BY <1>1, <1>2 DEF Consumed, AtHeap

LEMMA ConsumedAtCallState ==
  pc = "wait" /\ EngineInv => Consumed = {<<block, insnIdx, localState[heapIdx - 1]>>}
BY ConsumedAtCall

LEMMA WaitingIs == EngineInv => Waiting = BlocksOf(cont) \cup (IF Running THEN InHands ELSE {})
<1> SUFFICES ASSUME EngineInv
             PROVE  Waiting = BlocksOf(cont) \cup (IF Running THEN InHands ELSE {})
  OBVIOUS
<1>1. Busy <=> Running
  BY BusyIsRunning DEF EngineInv
<1>2. CallPlace = CallOf(pc, block, insnIdx, heapIdx, localState)
  BY ConsumedAtCall DEF CallOf, CallPlace
<1>3. Collected = CollectedOf(pc, CurInsn.code, heapIdx, localState,
                          nextLocalState, callResults, cont[CallResults].heaps)
  BY DEF Collected, CollectedOf
<1>4. LocalPlaces = LocalOf(pc, block, insnIdx, heapIdx, localState)
  BY DEF LocalRest, LocalOf, LocalPlaces
<1>5. /\ BlockPlaces = BlocksOf(cont) /\ NextPlaces = NextOf(block, insnIdx, Collected)
      /\ UpdatePlaces = EmitOf(emit)
  BY DEF BlocksOf, NextOf, EmitOf, BlockPlaces, NextPlaces, UpdatePlaces
<1> QED
  BY <1>1, <1>2, <1>3, <1>4, <1>5 DEF InHands, Waiting

LEMMA WaitingThen ==
  ASSUME EngineInv'
  PROVE  Waiting' = BlocksOf(cont') \cup
            (IF Running' THEN
               LocalOf(pc', block', insnIdx', heapIdx', localState')
               \cup NextOf(block', insnIdx', CollectedOf(pc', CurInsn'.code, heapIdx', localState',
                          nextLocalState', callResults', cont'[CallResults].heaps))
               \cup EmitOf(emit')
               \cup CallOf(pc', block', insnIdx', heapIdx', localState')
             ELSE {})
<1>1. (EngineInv => Waiting = BlocksOf(cont) \cup (IF Running THEN InHands ELSE {}))'
  BY WaitingIs, PTL
<1>2. Waiting' = BlocksOf(cont)' \cup (IF Running' THEN InHands' ELSE {})
  BY <1>1
<1>3. BlocksOf(cont)' = BlocksOf(cont')
  BY DEF BlocksOf, PendingHeaps, Pending
<1>4. LocalOf(pc, block, insnIdx, heapIdx, localState)' = LocalOf(pc', block', insnIdx', heapIdx', localState')
  BY DEF LocalOf
<1>5. CallOf(pc, block, insnIdx, heapIdx, localState)' = CallOf(pc', block', insnIdx', heapIdx', localState')
  BY DEF CallOf
<1>6. EmitOf(emit)' = EmitOf(emit')
  BY DEF EmitOf, Elements
<1>7. NextOf(block, insnIdx, CollectedOf(pc, CurInsn.code, heapIdx, localState,
                          nextLocalState, callResults, cont[CallResults].heaps))'
      = NextOf(block', insnIdx', CollectedOf(pc', CurInsn'.code, heapIdx', localState',
                          nextLocalState', callResults', cont'[CallResults].heaps))
  BY DEF NextOf, CollectedOf, Elements
<1> QED
  BY <1>2, <1>3, <1>4, <1>5, <1>6, <1>7 DEF InHands

(* What waits are places: run() collects heaps for an instruction that is there. *)
LEMMA WaitingType == EngineInv => Waiting \subseteq Place
<1> SUFFICES ASSUME EngineInv PROVE Waiting \subseteq Place
  OBVIOUS
<1>1. prog \in Programs /\ block \in Block /\ StateInv
  BY DEF EngineInv, EngineTypeOK
<1>2. BlocksOf(cont) \subseteq Place
  <2> SUFFICES ASSUME NEW b \in Block, NEW sh \in PendingHeaps(cont[b])
               PROVE  <<b, 1, sh>> \in Place
    BY DEF BlocksOf
  <2>1. sh \in Heap
    BY <1>1, ContFacts, PendingHeapsType DEF Key
  <2> QED
    BY <1>1, <2>1, FirstIsPlace
<1>3. ASSUME Running PROVE InHands \subseteq Place
  <2>1. /\ insnIdx \in 1..Len(Insns(block)) /\ Len(Insns(block)) \in Nat
        /\ CurInsn.code \in TermCodes <=> insnIdx = Len(Insns(block))
    BY <1>1, <1>3, CurInsnFacts, InsnFacts
  <2>2. /\ localState \in Seq(Heap) /\ nextLocalState \in Seq(Heap) /\ callResults \in Seq(Heap)
        /\ emit \in Seq(Update) /\ heapIdx \in Nat /\ heapIdx > 0
        /\ heapIdx <= Len(localState) + 1
    BY <1>3 DEF EngineInv, EngineTypeOK, ControlInv
  <2>3. LocalOf(pc, block, insnIdx, heapIdx, localState) \subseteq Place
    <3> SUFFICES ASSUME NEW j \in heapIdx..Len(localState)
                 PROVE  <<block, insnIdx, localState[j]>> \in Place
      BY <2>2 DEF LocalOf
    <3>1. localState[j] \in Heap
      BY <2>2
    <3> QED
      BY <1>1, <2>1, <3>1, IsPlaceFacts
  <2>4. CallOf(pc, block, insnIdx, heapIdx, localState) \subseteq Place
    <3>1. pc = "wait" => localState[heapIdx - 1] \in Heap
      BY <2>2, ConsumedAtCall
    <3> QED
      BY <1>1, <2>1, <3>1, IsPlaceFacts DEF CallOf
  <2>5. EmitOf(emit) \subseteq Place
    <3> SUFFICES ASSUME NEW i \in 1..Len(emit)
                 PROVE  <<emit[i].dst, 1, emit[i].heap>> \in Place
      BY DEF EmitOf, Elements
    <3>1. emit[i] \in Update
      BY <2>2
    <3>2. emit[i].dst \in Block /\ emit[i].heap \in Heap
      BY <3>1 DEF Update
    <3> QED
      BY <1>1, <3>2, FirstIsPlace
  <2> DEFINE heaps == CollectedOf(pc, CurInsn.code, heapIdx, localState, nextLocalState,
                                  callResults, cont[CallResults].heaps)
  <2>6. heaps \subseteq Heap
    <3>1. cont[CallResults].heaps \in Seq(Heap)
      BY <1>1, ContFacts DEF Key
    <3>2. /\ Elements(nextLocalState) \subseteq Heap /\ Elements(callResults) \subseteq Heap
          /\ Elements(cont[CallResults].heaps) \subseteq Heap
      BY <2>2, <3>1 DEF Elements
    <3>3. {localState[j] : j \in 1..(heapIdx - 1)} \subseteq Heap
      BY <2>2
    <3> QED
      BY <3>2, <3>3 DEF CollectedOf
  <2>7. heaps = {} \/ CurInsn.code \notin TermCodes
    <3> SUFFICES ASSUME CurInsn.code \in TermCodes PROVE heaps = {}
      OBVIOUS
    <3>1. pc # "join" /\ CurInsn.code # "cmp" /\ nextLocalState = <<>>
      BY <1>3 DEF EngineInv, ControlInv, TermCodes
    <3>2. heaps = Elements(nextLocalState)
      BY <3>1 DEF CollectedOf
    <3> QED
      BY <3>1, <3>2 DEF Elements
  <2>8. NextOf(block, insnIdx, heaps) \subseteq Place
    <3>1. CASE heaps = {}
      BY <3>1 DEF NextOf
    <3>2. CASE CurInsn.code \notin TermCodes
      <4>1. insnIdx + 1 \in 1..Len(Insns(block))
        BY <2>1, <3>2
      <4>2. \A sh \in Heap : <<block, insnIdx + 1, sh>> \in Place
        BY <1>1, <4>1, IsPlaceFacts
      <4> HIDE DEF heaps
      <4> QED
        BY <2>6, <4>2 DEF NextOf
    <3> QED
      BY <2>7, <3>1, <3>2
  <2> QED
    BY <2>3, <2>4, <2>5, <2>8 DEF InHands
<1> QED
  BY <1>2, <1>3, WaitingIs

LEMMA WaitingTypeThen == EngineInv' => Waiting' \subseteq Place
<1>1. (EngineInv => Waiting \subseteq Place)'
  BY WaitingType, PTL
<1> QED
  BY <1>1

-------------------------------------------------------------------------------
(* The history. *)

(***************************************************************************)
(* A heap that carries the mark was executed in front of its block, or its *)
(* call is on the way; one that passed a comparison in front was executed  *)
(* there too or is still in the hands of run().                            *)
(***************************************************************************)
RefInv ==
  /\ executed \subseteq Place
  /\ \A b \in Block : \A sh \in processed[b] :
        /\ <<b, 1, sh>> \in executed \cup CallPlace
        /\ FirstInsn(b).code = "cmp" => <<b, 2, sh>> \in executed \cup Waiting

LEMMA NothingConsumed ==
  ASSUME pc # "wait", ~AtHeap
  PROVE  Consumed = {}
BY DEF Consumed

LEMMA ConsumedAtHeap ==
  ASSUME EngineInv, AtHeap
  PROVE  Consumed = IF /\ ~(insnIdx = 1 /\ cont[block].done[heapIdx])
                       /\ CurInsn.code = "call" => CurHeap \in ExitHeap
                    THEN {<<block, insnIdx, CurHeap>>} ELSE {}
<1>1. heapIdx \in 1..Len(localState) /\ pc # "wait"
  BY DEF EngineInv, EngineTypeOK, AtHeap
<1> QED
  BY <1>1 DEF Consumed, CurHeap

(* The step marks heaps only if it executes them or starts their calls. *)
LEMMA RefInvStep ==
  ASSUME EngineInv, EngineInv', RefInv, prog' = prog,
         executed' \subseteq Place, executed \subseteq executed',
         CallPlace \subseteq executed' \cup CallPlace',
         \A p \in Waiting : p[2] = 2 /\ FirstInsn(p[1]).code = "cmp" => p \in executed' \cup Waiting',
         \A b \in Block : \A sh \in processed'[b] \ processed[b] :
            /\ <<b, 1, sh>> \in executed' \cup CallPlace'
            /\ FirstInsn(b).code = "cmp" => <<b, 2, sh>> \in executed' \cup Waiting'
  PROVE  RefInv'
<1>1. ASSUME NEW b \in Block, NEW sh \in processed'[b]
      PROVE  /\ <<b, 1, sh>> \in executed' \cup CallPlace'
             /\ FirstInsn(b).code = "cmp" => <<b, 2, sh>> \in executed' \cup Waiting'
  <2>1. CASE sh \in processed[b]
    <3>1. /\ <<b, 1, sh>> \in executed \cup CallPlace
          /\ FirstInsn(b).code = "cmp" => <<b, 2, sh>> \in executed \cup Waiting
      BY <2>1 DEF RefInv
    <3> DEFINE p == <<b, 2, sh>>
    <3>2. p[1] = b /\ p[2] = 2
      OBVIOUS
    <3> HIDE DEF p
    <3> QED
      BY <3>1, <3>2 DEF p
  <2> QED
    BY <2>1
<1>2. \A b : FirstInsn(b)' = FirstInsn(b)
  BY DEF FirstInsn, Insns
<1> QED
  BY <1>1, <1>2 DEF RefInv

-------------------------------------------------------------------------------
(* What a step that executes a place, or that leaves alone what waits, has to show. *)

LEMMA ExecuteKeepsHistory ==
  ASSUME EngineInv, EngineInv', RefInv, Fixed, NEW x \in Waiting,
         executed' = executed \cup {x},
         Elements(results') = Elements(results) \cup Yields[x],
         Waiting \subseteq Waiting' \cup {x}, Succ[x] \subseteq Waiting',
         Waiting' \subseteq Waiting \cup Succ[x], CallPlace \subseteq {x},
         \A b \in Block : \A sh \in processed'[b] \ processed[b] :
            /\ x = <<b, 1, sh>>
            /\ FirstInsn(b).code = "cmp" => <<b, 2, sh>> \in Succ[x]
  PROVE  RefInv' /\ Abs!Execute
<1>1. Waiting \subseteq Place /\ Waiting' \subseteq Place
  BY WaitingType, WaitingTypeThen
<1>2. Abs!Execute
  BY <1>1, ExecuteStep
<1>3. RefInv'
  <2>1. executed' \subseteq Place /\ executed \subseteq executed' /\ prog' = prog
    BY <1>1 DEF RefInv, Fixed
  <2>2. \A p \in Waiting : p \in executed' \cup Waiting'
    OBVIOUS
  <2>3. CallPlace \subseteq executed'
    OBVIOUS
  <2>4. ASSUME NEW b \in Block, NEW sh \in processed'[b] \ processed[b]
        PROVE  /\ <<b, 1, sh>> \in executed'
               /\ FirstInsn(b).code = "cmp" => <<b, 2, sh>> \in Waiting'
    OBVIOUS
  <2> QED
    BY <2>1, <2>2, <2>3, <2>4, RefInvStep
<1> QED
  BY <1>2, <1>3

LEMMA StutterKeepsHistory ==
  ASSUME EngineInv, EngineInv', RefInv, Fixed,
         executed' = executed, results' = results, Waiting' = Waiting,
         CallPlace \subseteq CallPlace',
         \A b \in Block : \A sh \in processed'[b] \ processed[b] :
            <<b, 1, sh>> \in CallPlace' /\ FirstInsn(b).code # "cmp"
  PROVE  RefInv' /\ UNCHANGED Abs!wvars
<1>1. UNCHANGED Abs!wvars
  BY StutterStep
<1>2. executed \subseteq Place /\ prog' = prog
  BY DEF RefInv, Fixed
<1> QED
  BY <1>1, <1>2, RefInvStep

LEMMA RearrangeKeepsHistory ==
  ASSUME EngineInv, EngineInv', RefInv, Fixed,
         executed' = executed, results' = results, pc # "wait",
         \A b \in Block : processed'[b] = processed[b],
         \A p \in Waiting : \/ p \in Waiting'
                            \/ /\ ~(p[2] = 2 /\ FirstInsn(p[1]).code = "cmp")
                               /\ \E q \in Waiting' \cup executed : <<q, p>> \in PlaceCovers,
         \A q \in Waiting' : \/ q \in Waiting \cup executed
                             \/ \E p \in Waiting \cup executed : <<q, p>> \in PlaceCovers
  PROVE  RefInv' /\ Abs!Rearrange
<1>1. Waiting \subseteq Place /\ Waiting' \subseteq Place
  BY WaitingType, WaitingTypeThen
<1>2. \A p \in Waiting : \E q \in Waiting' \cup executed : <<q, p>> \in PlaceCovers
  BY <1>1, PlaceCoversItself
<1>3. \A q \in Waiting' : \E p \in Waiting \cup executed : <<q, p>> \in PlaceCovers
  BY <1>1, PlaceCoversItself
<1>4. Abs!Rearrange
  BY <1>1, <1>2, <1>3, RearrangeStep
<1>5. executed \subseteq Place /\ prog' = prog
  BY DEF RefInv, Fixed
<1>6. CallPlace = {}
  BY DEF CallPlace
<1> QED
  BY <1>4, <1>5, <1>6, RefInvStep

-------------------------------------------------------------------------------
(* Elements of sequences *)

LEMMA ElementsAppend ==
  ASSUME NEW S, NEW s \in Seq(S), NEW e \in S
  PROVE  Elements(Append(s, e)) = Elements(s) \cup {e}
<1>1. /\ Len(Append(s, e)) = Len(s) + 1 /\ Len(s) \in Nat
      /\ \A i \in 1..Len(s) : Append(s, e)[i] = s[i]
      /\ Append(s, e)[Len(s) + 1] = e
  BY AppendFacts
<1>2. ASSUME NEW i \in 1..(Len(s) + 1) PROVE Append(s, e)[i] \in Elements(s) \cup {e}
  BY <1>1 DEF Elements
<1>3. ASSUME NEW i \in 1..Len(s) PROVE s[i] \in Elements(Append(s, e))
  BY <1>1 DEF Elements
<1>4. e \in Elements(Append(s, e))
  BY <1>1 DEF Elements
<1>5. Elements(Append(s, e)) \subseteq Elements(s) \cup {e}
  BY <1>1, <1>2 DEF Elements
<1>6. Elements(s) \subseteq Elements(Append(s, e))
  BY <1>3 DEF Elements
<1> QED
  BY <1>4, <1>5, <1>6

LEMMA ElementsConcat ==
  ASSUME NEW S, NEW s \in Seq(S), NEW t \in Seq(S)
  PROVE  Elements(s \o t) = Elements(s) \cup Elements(t)
<1>1. /\ Len(s \o t) = Len(s) + Len(t) /\ Len(s) \in Nat /\ Len(t) \in Nat
      /\ \A i \in 1..(Len(s) + Len(t)) :
            (s \o t)[i] = IF i <= Len(s) THEN s[i] ELSE t[i - Len(s)]
  BY ConcatProperties
<1>2. ASSUME NEW i \in 1..(Len(s) + Len(t)) PROVE (s \o t)[i] \in Elements(s) \cup Elements(t)
  <2>1. CASE i <= Len(s)
    BY <1>1, <2>1 DEF Elements
  <2>2. CASE i > Len(s)
    <3>1. i - Len(s) \in 1..Len(t) /\ (s \o t)[i] = t[i - Len(s)]
      BY <1>1, <2>2
    <3> QED
      BY <3>1 DEF Elements
  <2> QED
    BY <1>1, <2>1, <2>2
<1>3. ASSUME NEW i \in 1..Len(s) PROVE s[i] \in Elements(s \o t)
  <2>1. i \in 1..(Len(s) + Len(t)) /\ (s \o t)[i] = s[i]
    BY <1>1
  <2> QED
    BY <1>1, <2>1 DEF Elements
<1>4. ASSUME NEW i \in 1..Len(t) PROVE t[i] \in Elements(s \o t)
  <2>1. i + Len(s) \in 1..(Len(s) + Len(t)) /\ (s \o t)[i + Len(s)] = t[i]
    BY <1>1
  <2> QED
    BY <1>1, <2>1 DEF Elements
<1>5. Elements(s \o t) \subseteq Elements(s) \cup Elements(t)
  BY <1>1, <1>2 DEF Elements
<1>6. Elements(s) \subseteq Elements(s \o t) /\ Elements(t) \subseteq Elements(s \o t)
  BY <1>3, <1>4 DEF Elements
<1> QED
  BY <1>5, <1>6

LEMMA ElementsHeadTail ==
  ASSUME NEW S, NEW s \in Seq(S), s # <<>>
  PROVE  /\ Elements(s) = {s[1]} \cup Elements(Tail(s)) /\ Head(s) = s[1]
         /\ s[1] \in S
<1>1. /\ Len(s) \in Nat /\ Len(s) > 0 /\ Len(Tail(s)) = Len(s) - 1
      /\ \A i \in 1..(Len(s) - 1) : Tail(s)[i] = s[i + 1]
      /\ Head(s) = s[1] /\ s[1] \in S
  BY HeadTailProperties, EmptySeq, LenProperties
<1>2. ASSUME NEW i \in 1..Len(s) PROVE s[i] \in {s[1]} \cup Elements(Tail(s))
  <2>1. CASE i = 1
    BY <2>1
  <2>2. CASE i > 1
    <3>1. i - 1 \in 1..(Len(s) - 1) /\ Tail(s)[i - 1] = s[i]
      BY <1>1, <2>2
    <3> QED
      BY <1>1, <3>1 DEF Elements
  <2> QED
    BY <2>1, <2>2
<1>3. ASSUME NEW i \in 1..(Len(s) - 1) PROVE Tail(s)[i] \in Elements(s)
  <2>1. i + 1 \in 1..Len(s) /\ Tail(s)[i] = s[i + 1]
    BY <1>1
  <2> QED
    BY <2>1 DEF Elements
<1>4. s[1] \in Elements(s)
  BY <1>1 DEF Elements
<1>5. Elements(s) \subseteq {s[1]} \cup Elements(Tail(s))
  BY <1>2 DEF Elements
<1>6. Elements(Tail(s)) \subseteq Elements(s)
  BY <1>1, <1>3 DEF Elements
<1> QED
  BY <1>1, <1>4, <1>5, <1>6

LEMMA ElementsEmpty == Elements(<<>>) = {} /\ EmitOf(<<>>) = {}
BY DEF Elements, EmitOf

LEMMA EmitConcat ==
  ASSUME NEW s \in Seq(Update), NEW t \in Seq(Update)
  PROVE  EmitOf(s \o t) = EmitOf(s) \cup EmitOf(t)
<1>1. Elements(s \o t) = Elements(s) \cup Elements(t)
  BY ElementsConcat
<1> QED
  BY <1>1 DEF EmitOf

LEMMA EmitUpdates ==
  ASSUME NEW heaps \in Seq(Heap), NEW target \in Block
  PROVE  EmitOf(Updates(heaps, target)) = {<<target, 1, s>> : s \in Elements(heaps)}
<1> DEFINE u == Updates(heaps, target)
<1>1. Len(u) = Len(heaps) /\ \A i \in 1..Len(heaps) : u[i].dst = target /\ u[i].heap = heaps[i]
  BY DEF Updates
<1>2. Elements(u) = {u[i] : i \in 1..Len(heaps)}
  BY <1>1 DEF Elements
<1>3. EmitOf(u) = {<<u[i].dst, 1, u[i].heap>> : i \in 1..Len(heaps)}
  BY <1>2 DEF EmitOf
<1> QED
  BY <1>1, <1>3 DEF Elements

-------------------------------------------------------------------------------
(* The steps of execInsn() that take a heap. *)

LEMMA MarkDonePending ==
  ASSUME NEW st \in State, Len(st.heaps) = Len(st.done), NEW n \in 1..Len(st.heaps)
  PROVE  /\ PendingHeaps(MarkDone(st, n)) \subseteq PendingHeaps(st)
         /\ PendingHeaps(st) \subseteq PendingHeaps(MarkDone(st, n)) \cup {st.heaps[n]}
<1> DEFINE new == MarkDone(st, n)
<1>1. st.done \in Seq(BOOLEAN)
  BY StateFacts
<1>2. new.heaps = st.heaps /\ new.done = [st.done EXCEPT ![n] = TRUE]
  BY DEF MarkDone, State
<1>3. /\ Len(new.done) = Len(st.done) /\ new.done[n] = TRUE
      /\ \A i \in 1..Len(st.done) : i # n => new.done[i] = st.done[i]
  BY <1>1, <1>2, ExceptMark
<1> HIDE DEF new
<1>4. Pending(new) \subseteq Pending(st) /\ Pending(st) \subseteq Pending(new) \cup {n}
  BY <1>3 DEF Pending
<1> QED
  BY <1>2, <1>4 DEF PendingHeaps, new

LEMMA BlocksOfMember ==
  ASSUME NEW c, NEW p
  PROVE  p \in BlocksOf(c) <=> \E b \in Block : \E sh \in PendingHeaps(c[b]) : p = <<b, 1, sh>>
BY DEF BlocksOf

LEMMA SameInsn ==
  ASSUME prog' = prog, block' = block, insnIdx' = insnIdx
  PROVE  CurInsn' = CurInsn
BY DEF CurInsn, Insns

(* The heap was waiting, and it is the only one that no longer does. *)
LEMMA TakeEffect ==
  ASSUME EngineInv, Fixed, TakeHeap,
         pc' \in {"insn", "emit", "wait"},
         heapIdx' = IF pc' = "emit" THEN heapIdx ELSE heapIdx + 1
  PROVE  LET x == <<block, insnIdx, CurHeap>>
             now == BlocksOf(cont) \cup LocalOf(pc, block, insnIdx, heapIdx, localState)
             then == BlocksOf(cont') \cup LocalOf(pc', block', insnIdx', heapIdx', localState')
         IN  /\ x \in now /\ now \subseteq then \cup {x} /\ then \subseteq now
             /\ block' = block /\ insnIdx' = insnIdx /\ localState' = localState
             /\ CurInsn' = CurInsn
             /\ \A b \in Block : \A sh \in processed'[b] \ processed[b] : x = <<b, 1, sh>>
<1> DEFINE x == <<block, insnIdx, CurHeap>>
           localNow == LocalOf(pc, block, insnIdx, heapIdx, localState)
           localThen == LocalOf(pc', block', insnIdx', heapIdx', localState')
<1>1. /\ block' = block /\ insnIdx' = insnIdx /\ localState' = localState /\ pc = "insn"
      /\ heapIdx <= Len(localState) /\ prog' = prog
  BY DEF TakeHeap, AtHeap, Fixed
<1>2. CurInsn' = CurInsn
  BY <1>1, SameInsn
<1>3. /\ heapIdx \in Nat /\ heapIdx > 0 /\ Len(localState) \in Nat /\ block \in Block
      /\ insnIdx \in Nat /\ insnIdx > 0 /\ StateInv /\ Running
  BY <1>1 DEF EngineInv, EngineTypeOK, Running
<1>4. CASE insnIdx = 1
  <2>1. localState = cont[block].heaps
    BY <1>3, <1>4 DEF EngineInv, WalkInv
  <2>2. /\ cont' = [cont EXCEPT ![block] = MarkDone(cont[block], heapIdx)]
        /\ processed' = [processed EXCEPT ![block] = processed[block] \cup {CurHeap}]
        /\ ~cont[block].done[heapIdx]
    BY <1>4 DEF TakeHeap, SetDone
  <2>3. block \in Key /\ cont \in [Key -> State] /\ processed \in [Key -> SUBSET Heap]
    BY <1>3 DEF Key, StateInv, StateTypeOK
  <2>4. /\ cont[block] \in State /\ Len(cont[block].heaps) = Len(cont[block].done)
        /\ heapIdx \in 1..Len(cont[block].heaps)
    BY <1>1, <1>3, <2>1, <2>3, ContFacts
  <2>5. CurHeap = cont[block].heaps[heapIdx]
    BY <2>1 DEF CurHeap
  <2>6. CurHeap \in PendingHeaps(cont[block])
    BY <2>2, <2>4, <2>5 DEF PendingHeaps, Pending
  <2>7. /\ cont'[block] = MarkDone(cont[block], heapIdx)
        /\ \A b \in Block : b # block => cont'[b] = cont[b]
    BY <2>2, <2>3 DEF Key
  <2>8. /\ PendingHeaps(cont'[block]) \subseteq PendingHeaps(cont[block])
        /\ PendingHeaps(cont[block]) \subseteq PendingHeaps(cont'[block]) \cup {CurHeap}
    BY <2>4, <2>5, <2>7, MarkDonePending
  <2>9. \A b \in Block : /\ PendingHeaps(cont'[b]) \subseteq PendingHeaps(cont[b])
                         /\ b # block => PendingHeaps(cont'[b]) = PendingHeaps(cont[b])
    BY <2>7, <2>8
  <2>10. x \in BlocksOf(cont)
    BY <1>3, <1>4, <2>6, BlocksOfMember
  <2>11. BlocksOf(cont') \subseteq BlocksOf(cont)
    BY <2>9 DEF BlocksOf
  <2>12. BlocksOf(cont) \subseteq BlocksOf(cont') \cup {x}
    <3> SUFFICES ASSUME NEW b \in Block, NEW sh \in PendingHeaps(cont[b]), <<b, 1, sh>> # x
                 PROVE  <<b, 1, sh>> \in BlocksOf(cont')
      BY BlocksOfMember
    <3>1. sh \in PendingHeaps(cont'[b])
      BY <1>4, <2>8, <2>9
    <3> QED
      BY <3>1, BlocksOfMember
  <2>13. localNow = {} /\ localThen = {}
    BY <1>1, <1>4 DEF LocalOf
  <2>14. \A b \in Block : \A sh \in processed'[b] \ processed[b] : x = <<b, 1, sh>>
    BY <1>4, <2>2, <2>3 DEF Key
  <2> HIDE DEF x, localNow, localThen
  <2> QED
    BY <1>1, <1>2, <2>10, <2>11, <2>12, <2>13, <2>14 DEF x, localNow, localThen
<1>5. CASE insnIdx > 1
  <2>1. cont' = cont /\ processed' = processed
    BY <1>3, <1>5 DEF TakeHeap, svars
  <2>2. localNow = {<<block, insnIdx, localState[j]>> : j \in heapIdx..Len(localState)}
    BY <1>1, <1>5 DEF LocalOf
  <2>3. localThen = {<<block, insnIdx, localState[j]>> : j \in (heapIdx + 1)..Len(localState)}
    BY <1>1, <1>5 DEF LocalOf
  <2>4. x \in localNow
    BY <1>1, <1>3, <2>2 DEF CurHeap
  <2>5. localThen \subseteq localNow
    BY <1>3, <2>2, <2>3
  <2>6. localNow \subseteq localThen \cup {x}
    <3> SUFFICES ASSUME NEW j \in heapIdx..Len(localState)
                 PROVE  <<block, insnIdx, localState[j]>> \in localThen \cup {x}
      BY <2>2
    <3>1. j = heapIdx \/ j \in (heapIdx + 1)..Len(localState)
      BY <1>3
    <3> QED
      BY <2>3, <3>1 DEF CurHeap
  <2> HIDE DEF x, localNow, localThen
  <2> QED
    BY <1>1, <1>2, <2>1, <2>4, <2>5, <2>6 DEF x, localNow, localThen
<1> QED
  BY <1>3, <1>4, <1>5

(* What waits while execInsn() walks over the heaps. *)
LEMMA WaitingAtInsn ==
  ASSUME EngineInv, pc = "insn"
  PROVE  Waiting = BlocksOf(cont) \cup LocalOf(pc, block, insnIdx, heapIdx, localState)
                   \cup NextOf(block, insnIdx,
                          IF CurInsn.code = "cmp" THEN {localState[j] : j \in 1..(heapIdx - 1)}
                                                  ELSE Elements(nextLocalState))
<1>1. Running /\ emit = <<>>
  BY DEF Running, EngineInv, ControlInv
<1>2. EmitOf(emit) = {} /\ CallOf(pc, block, insnIdx, heapIdx, localState) = {}
  BY <1>1, ElementsEmpty DEF CallOf
<1>3. CollectedOf(pc, CurInsn.code, heapIdx, localState, nextLocalState, callResults,
                  cont[CallResults].heaps)
      = IF CurInsn.code = "cmp" THEN {localState[j] : j \in 1..(heapIdx - 1)}
                                ELSE Elements(nextLocalState)
  BY DEF CollectedOf
<1> QED
  BY <1>1, <1>2, <1>3, WaitingIs DEF InHands

(* What waits after a heap was taken. *)
LEMMA WaitingAfter ==
  ASSUME EngineInv', pc' \in {"insn", "emit", "wait"},
         block' = block, insnIdx' = insnIdx, localState' = localState, CurInsn' = CurInsn
  PROVE  Waiting' = BlocksOf(cont') \cup LocalOf(pc', block', insnIdx', heapIdx', localState')
                    \cup NextOf(block, insnIdx,
                           IF pc' = "insn" /\ CurInsn.code = "cmp"
                           THEN {localState[j] : j \in 1..(heapIdx' - 1)}
                           ELSE Elements(nextLocalState'))
                    \cup EmitOf(emit')
                    \cup CallOf(pc', block, insnIdx, heapIdx', localState)
<1>1. Running'
  BY DEF Running
<1>2. CollectedOf(pc', CurInsn'.code, heapIdx', localState', nextLocalState', callResults',
                  cont'[CallResults].heaps)
      = IF pc' = "insn" /\ CurInsn.code = "cmp" THEN {localState[j] : j \in 1..(heapIdx' - 1)}
                                                ELSE Elements(nextLocalState')
  BY DEF CollectedOf
<1> QED
  BY <1>1, <1>2, WaitingThen, ZenonT(40)

CollectedNow == IF CurInsn.code = "cmp" THEN {localState[j] : j \in 1..(heapIdx - 1)}
                                        ELSE Elements(nextLocalState)
CollectedThen == IF pc' = "insn" /\ CurInsn.code = "cmp"
                 THEN {localState[j] : j \in 1..(heapIdx' - 1)}
                 ELSE Elements(nextLocalState')
TheHeap == <<block, insnIdx, CurHeap>>

LEMMA TheHeapFacts ==
  ASSUME EngineInv, AtHeap
  PROVE  /\ CurHeap \in Heap /\ TheHeap \in Place
         /\ Succ[TheHeap] = Successors(TheHeap) /\ Yields[TheHeap] = Yield(TheHeap)
         /\ block \in Block /\ insnIdx \in 1..Len(Insns(block)) /\ prog \in Programs
         /\ CurInsn = Insns(block)[insnIdx]
         /\ Exited(TheHeap) <=> CurHeap \in ExitHeap /\ CurInsn.code # "cmp"
         /\ InsnAt(TheHeap) = CurInsn
<1>1. Running /\ prog \in Programs
  BY DEF Running, AtHeap, EngineInv, EngineTypeOK
<1>2. CurHeap \in Heap
  BY DEF EngineInv, EngineTypeOK, AtHeap, CurHeap
<1>3. block \in Block /\ insnIdx \in 1..Len(Insns(block))
  BY <1>1, CurInsnFacts
<1>4. TheHeap \in Place /\ IsPlace(TheHeap)
  BY <1>1, <1>2, <1>3, IsPlaceFacts DEF TheHeap
<1>5. Succ[TheHeap] = Successors(TheHeap) /\ Yields[TheHeap] = Yield(TheHeap)
  BY <1>4 DEF Succ, Yields
<1>6. TheHeap[1] = block /\ TheHeap[2] = insnIdx /\ TheHeap[3] = CurHeap
  BY DEF TheHeap
<1> QED
  BY <1>1, <1>2, <1>3, <1>4, <1>5, <1>6 DEF Exited, InsnAt, CurInsn

(* A step that executes the current heap: what it leads to is collected or emitted. *)
LEMMA TakeExecutes ==
  ASSUME EngineInv, EngineInv', RefInv, Fixed, TakeHeap, executed' = executed \cup Consumed,
         pc' \in {"insn", "emit"},
         heapIdx' = IF pc' = "emit" THEN heapIdx ELSE heapIdx + 1,
         CurInsn.code = "call" => CurHeap \in ExitHeap,
         Elements(results') = Elements(results) \cup Yields[TheHeap],
         NextOf(block, insnIdx, CollectedThen) \cup EmitOf(emit')
            = NextOf(block, insnIdx, CollectedNow) \cup Succ[TheHeap]
  PROVE  RefInv' /\ Abs!Execute
<1> DEFINE x == TheHeap
           now == BlocksOf(cont) \cup LocalOf(pc, block, insnIdx, heapIdx, localState)
           then == BlocksOf(cont') \cup LocalOf(pc', block', insnIdx', heapIdx', localState')
<1>1. AtHeap /\ pc = "insn" /\ ~(insnIdx = 1 /\ cont[block].done[heapIdx])
  BY DEF TakeHeap, AtHeap
<1>2. Consumed = {x}
  BY <1>1, ConsumedAtHeap DEF TheHeap
<1>3. /\ x \in now /\ now \subseteq then \cup {x} /\ then \subseteq now
      /\ block' = block /\ insnIdx' = insnIdx /\ localState' = localState
      /\ CurInsn' = CurInsn
      /\ \A b \in Block : \A sh \in processed'[b] \ processed[b] : x = <<b, 1, sh>>
  BY TakeEffect DEF TheHeap
<1> HIDE DEF now, then, x
<1>4. Waiting = now \cup NextOf(block, insnIdx, CollectedNow)
  BY <1>1, WaitingAtInsn DEF now, CollectedNow
<1>5. CallOf(pc', block, insnIdx, heapIdx', localState) = {}
  BY DEF CallOf
<1>6. Waiting' = then \cup NextOf(block, insnIdx, CollectedThen) \cup EmitOf(emit')
  BY <1>3, <1>5, WaitingAfter DEF then, CollectedThen
<1>7. CallPlace = {}
  BY <1>1 DEF CallPlace
<1>8. ASSUME NEW b \in Block, NEW sh \in processed'[b] \ processed[b],
             FirstInsn(b).code = "cmp"
      PROVE  <<b, 2, sh>> \in Succ[x]
  <2>1. x = <<b, 1, sh>>
    BY <1>3
  <2>2. block = b /\ insnIdx = 1 /\ CurHeap = sh
    BY <2>1 DEF x, TheHeap
  <2>3. CurInsn.code = "cmp"
    BY <1>8, <2>2 DEF CurInsn, FirstInsn
  <2>4. Succ[x] = Successors(<<block, insnIdx, CurHeap>>) /\ CurInsn = Insns(block)[insnIdx]
        /\ prog \in Programs /\ block \in Block /\ insnIdx \in 1..Len(Insns(block))
        /\ CurHeap \in Heap
    BY <1>1, TheHeapFacts DEF x, TheHeap
  <2>5. Succ[x] = {<<block, insnIdx + 1, CurHeap>>}
    BY <2>3, <2>4, SuccessorsFacts
  <2> QED
    BY <2>2, <2>5
<1>9. /\ x \in Waiting /\ Waiting \subseteq Waiting' \cup {x} /\ Succ[x] \subseteq Waiting'
      /\ Waiting' \subseteq Waiting \cup Succ[x]
  BY <1>3, <1>4, <1>6 DEF x
<1>10. executed' = executed \cup {x} /\ Elements(results') = Elements(results) \cup Yields[x]
  BY <1>2 DEF x
<1> QED
  BY <1>3, <1>7, <1>8, <1>9, <1>10, ExecuteKeepsHistory

LEMMA LookAheadCondRefines ==
  ASSUME EngineInv, EngineInv', RefInv, Fixed, LookAheadCond, executed' = executed \cup Consumed
  PROVE  RefInv' /\ Abs!Execute
<1>1. /\ TakeHeap /\ AtHeap /\ CurInsn.code = "cmp" /\ pc = "insn" /\ pc' = "insn"
      /\ heapIdx' = heapIdx + 1 /\ emit' = emit /\ results' = results
  BY DEF LookAheadCond, TakeHeap, AtHeap
<1>2. heapIdx \in Nat /\ heapIdx > 0 /\ heapIdx <= Len(localState) /\ emit = <<>>
  BY <1>1 DEF EngineInv, EngineTypeOK, ControlInv, AtHeap
<1>3. CollectedThen = CollectedNow \cup {CurHeap}
  BY <1>1, <1>2 DEF CollectedThen, CollectedNow, CurHeap
<1>4. Succ[TheHeap] = {<<block, insnIdx + 1, CurHeap>>}
  BY <1>1, TheHeapFacts, SuccessorsFacts DEF TheHeap
<1>5. EmitOf(emit') = {}
  BY <1>1, <1>2, ElementsEmpty
<1>6. NextOf(block, insnIdx, CollectedThen) = NextOf(block, insnIdx, CollectedNow) \cup Succ[TheHeap]
  BY <1>3, <1>4 DEF NextOf
<1>7. Yields[TheHeap] = {}
  BY <1>1, TheHeapFacts DEF Yield
<1> QED
  BY <1>1, <1>5, <1>6, <1>7, TakeExecutes

(* The instructions that yield results and lead nowhere. *)
LEMMA ResultRefines ==
  ASSUME EngineInv, EngineInv', RefInv, Fixed, executed' = executed \cup Consumed,
         HandleExitPoint \/ ExecReturn \/ ExecAbort
  PROVE  RefInv' /\ Abs!Execute
<1>1. /\ TakeHeap /\ AtHeap /\ pc = "insn" /\ pc' = "insn" /\ CurInsn.code # "cmp"
      /\ heapIdx' = heapIdx + 1 /\ emit' = emit /\ nextLocalState' = nextLocalState
  BY DEF HandleExitPoint, ExecReturn, ExecAbort, Executes, TakeHeap, AtHeap
<1>2. emit = <<>> /\ results \in Seq(Heap)
  BY <1>1 DEF EngineInv, EngineTypeOK, ControlInv
<1>3. CollectedThen = CollectedNow /\ EmitOf(emit') = {}
  BY <1>1, <1>2, ElementsEmpty DEF CollectedThen, CollectedNow
<1>4. /\ prog \in Programs /\ block \in Block /\ insnIdx \in 1..Len(Insns(block))
      /\ CurHeap \in Heap /\ CurInsn = Insns(block)[insnIdx]
      /\ Succ[TheHeap] = Successors(<<block, insnIdx, CurHeap>>)
      /\ Yields[TheHeap] = Yield(TheHeap) /\ InsnAt(TheHeap) = CurInsn
      /\ Exited(TheHeap) <=> CurHeap \in ExitHeap
      /\ TheHeap[3] = CurHeap
  BY <1>1, TheHeapFacts DEF TheHeap
<1>5. \A sh \in ExitHeap : sh \in Heap /\ Destroy[sh] \in Heap
  BY EngineAssumption, SymJoinAssumption
<1>6. SetExit[CurHeap] \in ExitHeap
  BY <1>4, EngineAssumption
<1>7. CASE HandleExitPoint
  <2>1. CurHeap \in ExitHeap /\ results' = Append(results, Destroy[CurHeap])
    BY <1>7 DEF HandleExitPoint
  <2>2. Succ[TheHeap] = {}
    BY <1>1, <1>4, <2>1, SuccessorsFacts
  <2>3. Yields[TheHeap] = {Destroy[CurHeap]}
    BY <1>4, <2>1 DEF Yield
  <2>4. Elements(results') = Elements(results) \cup {Destroy[CurHeap]}
    BY <1>2, <1>5, <2>1, ElementsAppend
  <2> QED
    BY <1>1, <1>3, <2>1, <2>2, <2>3, <2>4, TakeExecutes
<1>8. CASE ExecReturn
  <2>1. /\ CurHeap \notin ExitHeap /\ CurInsn.code = "ret"
        /\ results' = results \o Post[CurInsn.fns[1]][CurHeap]
    BY <1>8 DEF ExecReturn, Executes
  <2>2. Succ[TheHeap] = {}
    BY <1>4, <2>1, SuccessorsFacts, ZenonT(40)
  <2>3. Yields[TheHeap] = Elements(Post[CurInsn.fns[1]][CurHeap])
    BY <1>4, <2>1 DEF Yield
  <2>4. Post[CurInsn.fns[1]][CurHeap] \in Seq(Heap)
    BY <1>4, <2>1, InsnFacts, PostType
  <2>5. Elements(results') = Elements(results) \cup Elements(Post[CurInsn.fns[1]][CurHeap])
    BY <1>2, <2>1, <2>4, ElementsConcat
  <2> QED
    BY <1>1, <1>3, <2>1, <2>2, <2>3, <2>5, TakeExecutes
<1>9. CASE ExecAbort
  <2>1. /\ CurHeap \notin ExitHeap /\ CurInsn.code = "abort"
        /\ results' = IF conf.exitLeaks THEN Append(results, Destroy[SetExit[CurHeap]])
                                        ELSE results
    BY <1>9 DEF ExecAbort, Executes
  <2>2. Succ[TheHeap] = {}
    BY <1>4, <2>1, SuccessorsFacts
  <2>3. Yields[TheHeap] = IF conf.exitLeaks THEN {Destroy[SetExit[CurHeap]]} ELSE {}
    BY <1>4, <2>1 DEF Yield
  <2>4. Elements(Append(results, Destroy[SetExit[CurHeap]]))
        = Elements(results) \cup {Destroy[SetExit[CurHeap]]}
    BY <1>2, <1>5, <1>6, ElementsAppend
  <2>5. Elements(results') = Elements(results) \cup Yields[TheHeap]
    BY <2>1, <2>3, <2>4
  <2> QED
    BY <1>1, <1>3, <2>1, <2>2, <2>5, TakeExecutes
<1> QED
  BY <1>7, <1>8, <1>9

LEMMA NontermRefines ==
  ASSUME EngineInv, EngineInv', RefInv, Fixed, executed' = executed \cup Consumed,
         ExecNontermInsn
  PROVE  RefInv' /\ Abs!Execute
<1> DEFINE new == Post[CurInsn.fns[1]][CurHeap]
<1>1. /\ TakeHeap /\ AtHeap /\ pc = "insn" /\ pc' = "insn" /\ CurInsn.code = "op"
      /\ heapIdx' = heapIdx + 1 /\ emit' = emit /\ nextLocalState' = nextLocalState \o new
      /\ CurHeap \notin ExitHeap /\ results' = results
  BY DEF ExecNontermInsn, Executes, TakeHeap, AtHeap
<1>2. emit = <<>> /\ nextLocalState \in Seq(Heap)
  BY <1>1 DEF EngineInv, EngineTypeOK, ControlInv
<1>3. /\ prog \in Programs /\ block \in Block /\ insnIdx \in 1..Len(Insns(block))
      /\ CurHeap \in Heap /\ CurInsn = Insns(block)[insnIdx]
      /\ Succ[TheHeap] = Successors(<<block, insnIdx, CurHeap>>)
      /\ Yields[TheHeap] = Yield(TheHeap) /\ InsnAt(TheHeap) = CurInsn
      /\ ~Exited(TheHeap)
  BY <1>1, TheHeapFacts DEF TheHeap
<1>4. new \in Seq(Heap)
  BY <1>1, <1>3, InsnFacts, PostType
<1> HIDE DEF new
<1>5. Elements(nextLocalState') = Elements(nextLocalState) \cup Elements(new)
  BY <1>1, <1>2, <1>4, ElementsConcat
<1>6. CollectedThen = CollectedNow \cup Elements(new)
  BY <1>1, <1>5 DEF CollectedThen, CollectedNow
<1>7. Succ[TheHeap] = NextOf(block, insnIdx, Elements(new))
  BY <1>1, <1>3, SuccessorsFacts DEF NextOf, new
<1>8. NextOf(block, insnIdx, CollectedThen) = NextOf(block, insnIdx, CollectedNow) \cup Succ[TheHeap]
  BY <1>6, <1>7 DEF NextOf
<1>9. Yields[TheHeap] = {}
  BY <1>1, <1>3 DEF Yield
<1>10. EmitOf(emit') = {}
  BY <1>1, <1>2, ElementsEmpty
<1> QED
  BY <1>1, <1>8, <1>9, <1>10, TakeExecutes

LEMMA BranchRefines ==
  ASSUME EngineInv, EngineInv', RefInv, Fixed, executed' = executed \cup Consumed,
         ExecJump \/ ExecCondInsn
  PROVE  RefInv' /\ Abs!Execute
<1>1. /\ TakeHeap /\ AtHeap /\ pc = "insn" /\ pc' = "emit" /\ CurInsn.code \in {"jmp", "cond"}
      /\ heapIdx' = heapIdx /\ nextLocalState' = nextLocalState
      /\ CurHeap \notin ExitHeap /\ results' = results
  BY DEF ExecJump, ExecCondInsn, Executes, TakeHeap, AtHeap
<1>2. /\ prog \in Programs /\ block \in Block /\ insnIdx \in 1..Len(Insns(block))
      /\ CurHeap \in Heap /\ CurInsn = Insns(block)[insnIdx]
      /\ Succ[TheHeap] = Successors(<<block, insnIdx, CurHeap>>)
      /\ Yields[TheHeap] = Yield(TheHeap) /\ InsnAt(TheHeap) = CurInsn
      /\ ~Exited(TheHeap)
  BY <1>1, TheHeapFacts DEF TheHeap
<1>3. CollectedThen = CollectedNow
  BY <1>1 DEF CollectedThen, CollectedNow
<1>4. Yields[TheHeap] = {}
  BY <1>1, <1>2 DEF Yield
<1>5. EmitOf(emit') = Succ[TheHeap]
  <2>1. CASE ExecJump
    <3> DEFINE t == CurInsn.targets[1]
    <3>1. CurInsn.code = "jmp" /\ emit' = Updates(<<CurHeap>>, t)
      BY <2>1 DEF ExecJump, Executes
    <3>2. t \in Block /\ <<CurHeap>> \in Seq(Heap)
      BY <1>2, <3>1, InsnFacts
    <3>3. Elements(<<CurHeap>>) = {CurHeap}
      BY DEF Elements
    <3>4. Succ[TheHeap] = {<<t, 1, CurHeap>>}
      BY <1>1, <1>2, <3>1, SuccessorsFacts
    <3> HIDE DEF t
    <3>5. EmitOf(emit') = {<<t, 1, s>> : s \in Elements(<<CurHeap>>)}
      BY <3>1, <3>2, EmitUpdates
    <3> QED
      BY <3>3, <3>4, <3>5
  <2>2. CASE ExecCondInsn
    <3> DEFINE t1 == CurInsn.targets[1]
               t2 == CurInsn.targets[2]
               h1 == Post[CurInsn.fns[1]][CurHeap]
               h2 == Post[CurInsn.fns[2]][CurHeap]
    <3>1. CurInsn.code = "cond" /\ emit' = Updates(h1, t1) \o Updates(h2, t2)
      BY <2>2 DEF ExecCondInsn, Executes
    <3>7. t1 \in Block /\ t2 \in Block /\ CurInsn.fns[1] \in Fn /\ CurInsn.fns[2] \in Fn
      BY <1>2, <3>1, InsnFacts
    <3>2. h1 \in Seq(Heap) /\ h2 \in Seq(Heap)
      BY <1>2, <3>7, PostType
    <3>3. Succ[TheHeap] = {<<t1, 1, s>> : s \in Elements(h1)} \cup {<<t2, 1, s>> : s \in Elements(h2)}
      BY <1>1, <1>2, <3>1, SuccessorsFacts DEF CurInsn
    <3> HIDE DEF t1, t2, h1, h2
    <3>4. Updates(h1, t1) \in Seq(Update) /\ Updates(h2, t2) \in Seq(Update)
      BY <3>2, <3>7, UpdatesType
    <3>5. EmitOf(emit') = EmitOf(Updates(h1, t1)) \cup EmitOf(Updates(h2, t2))
      BY <3>1, <3>4, EmitConcat
    <3>6. /\ EmitOf(Updates(h1, t1)) = {<<t1, 1, s>> : s \in Elements(h1)}
          /\ EmitOf(Updates(h2, t2)) = {<<t2, 1, s>> : s \in Elements(h2)}
      BY <3>2, <3>7, EmitUpdates
    <3> QED
      BY <3>3, <3>5, <3>6
  <2> QED
    BY <2>1, <2>2
<1> QED
  BY <1>1, <1>3, <1>4, <1>5, TakeExecutes

-------------------------------------------------------------------------------
(* Steps that leave alone what waits. *)

LEMMA SuspendRefines ==
  ASSUME EngineInv, EngineInv', RefInv, Fixed, executed' = executed \cup Consumed,
         SuspendForCall
  PROVE  RefInv' /\ UNCHANGED Abs!wvars
<1> DEFINE x == <<block, insnIdx, CurHeap>>
           now == BlocksOf(cont) \cup LocalOf(pc, block, insnIdx, heapIdx, localState)
           then == BlocksOf(cont') \cup LocalOf(pc', block', insnIdx', heapIdx', localState')
<1>1. /\ TakeHeap /\ AtHeap /\ pc = "insn" /\ pc' = "wait" /\ CurInsn.code = "call"
      /\ heapIdx' = heapIdx + 1 /\ nextLocalState' = nextLocalState /\ emit' = emit
      /\ CurHeap \notin ExitHeap /\ results' = results
  BY DEF SuspendForCall, Executes, TakeHeap, AtHeap
<1>2. Consumed = {}
  BY <1>1, ConsumedAtHeap
<1>3. /\ x \in now /\ now \subseteq then \cup {x} /\ then \subseteq now
      /\ block' = block /\ insnIdx' = insnIdx /\ localState' = localState
      /\ CurInsn' = CurInsn
      /\ \A b \in Block : \A sh \in processed'[b] \ processed[b] : x = <<b, 1, sh>>
  BY <1>1, TakeEffect
<1>4. heapIdx \in Nat /\ emit = <<>> /\ (heapIdx + 1) - 1 = heapIdx
  BY <1>1 DEF EngineInv, EngineTypeOK, ControlInv
<1>5. CallOf(pc', block, insnIdx, heapIdx', localState) = {x}
  BY <1>1, <1>4 DEF CallOf, CurHeap
<1> DEFINE next == NextOf(block, insnIdx, Elements(nextLocalState))
<1>6. Waiting = now \cup next
  BY <1>1, WaitingAtInsn
<1>7. Waiting' = then \cup next \cup {x}
  <2>1. EmitOf(emit') = {}
    BY <1>1, <1>4, ElementsEmpty
  <2> QED
    BY <1>1, <1>3, <1>5, <2>1, WaitingAfter
<1>8. CallPlace' = {x}
  <2>1. (pc = "wait" /\ EngineInv => Consumed = {<<block, insnIdx, localState[heapIdx - 1]>>})'
    BY ConsumedAtCallState, PTL
  <2>2. Consumed' = {<<block', insnIdx', localState'[heapIdx' - 1]>>}
    BY <1>1, <2>1
  <2> QED
    BY <1>1, <1>3, <1>4, <2>2 DEF CallPlace, CurHeap
<1>9. CallPlace = {}
  BY <1>1 DEF CallPlace
<1>10. ASSUME NEW b \in Block, NEW sh \in processed'[b] \ processed[b]
       PROVE  <<b, 1, sh>> \in CallPlace' /\ FirstInsn(b).code # "cmp"
  <2>1. x = <<b, 1, sh>>
    BY <1>3
  <2>2. block = b /\ insnIdx = 1
    BY <2>1
  <2> QED
    BY <1>1, <1>8, <2>1, <2>2 DEF CurInsn, FirstInsn
<1> HIDE DEF now, then, next, x
<1>11. Waiting' = Waiting
  BY <1>3, <1>6, <1>7
<1>12. executed' = executed
  BY <1>2
<1> QED
  BY <1>1, <1>9, <1>10, <1>11, <1>12, StutterKeepsHistory

(* Steps that keep the containers of the blocks and execute nothing. *)
LEMMA QuietRefines ==
  ASSUME EngineInv, EngineInv', RefInv, Fixed, executed' = executed \cup Consumed,
         pc # "wait", ~AtHeap, results' = results,
         \A b \in Block : processed'[b] = processed[b],
         Waiting' = Waiting
  PROVE  RefInv' /\ UNCHANGED Abs!wvars
<1>1. Consumed = {} /\ CallPlace = {}
  BY NothingConsumed DEF CallPlace
<1> QED
  BY <1>1, StutterKeepsHistory

LEMMA SamePending ==
  ASSUME \A b \in Block : PendingHeaps(cont'[b]) = PendingHeaps(cont[b])
  PROVE  BlocksOf(cont') = BlocksOf(cont)
BY DEF BlocksOf

LEMMA GetNextRefines ==
  ASSUME EngineInv, EngineInv', RefInv, Fixed, executed' = executed \cup Consumed,
         GetNext \/ Complete
  PROVE  RefInv' /\ UNCHANGED Abs!wvars
<1>1. /\ pc = "getNext" /\ pc' \in {"insn", "done"} /\ results' = results /\ emit' = emit
      /\ cont' = cont /\ processed' = processed
      /\ pc' = "insn" => insnIdx' = 1 /\ heapIdx' = 1 /\ nextLocalState' = <<>>
  BY DEF GetNext, Complete, svars
<1>2. ~Running /\ ~AtHeap /\ emit = <<>>
  BY <1>1 DEF Running, AtHeap, EngineInv, ControlInv
<1>3. Waiting = BlocksOf(cont)
  BY <1>2, WaitingIs
<1>4. CASE pc' = "insn"
  <2>1. /\ LocalOf(pc', block', insnIdx', heapIdx', localState') = {}
        /\ CallOf(pc', block', insnIdx', heapIdx', localState') = {}
        /\ EmitOf(emit') = {}
    BY <1>1, <1>2, <1>4, ElementsEmpty DEF LocalOf, CallOf
  <2>2. CollectedOf(pc', CurInsn'.code, heapIdx', localState', nextLocalState', callResults',
                    cont'[CallResults].heaps) = {}
    BY <1>1, <1>4, ElementsEmpty DEF CollectedOf
  <2>3. NextOf(block', insnIdx', {}) = {}
    BY DEF NextOf
  <2>4. Waiting' = BlocksOf(cont')
    BY <2>1, <2>2, <2>3, WaitingThen
  <2> QED
    BY <1>1, <1>2, <1>3, <2>4, QuietRefines
<1>5. CASE pc' = "done"
  <2>1. ~Running'
    BY <1>5 DEF Running
  <2>2. Waiting' = BlocksOf(cont')
    BY <2>1, WaitingThen
  <2> QED
    BY <1>1, <1>2, <1>3, <2>2, QuietRefines
<1> QED
  BY <1>1, <1>4, <1>5

LEMMA UpdatesDoneRefines ==
  ASSUME EngineInv, EngineInv', RefInv, Fixed, executed' = executed \cup Consumed,
         UpdatesDone
  PROVE  RefInv' /\ UNCHANGED Abs!wvars
<1>1. /\ pc = "emit" /\ pc' = "insn" /\ results' = results /\ emit' = emit /\ emit = <<>>
      /\ heapIdx' = heapIdx + 1 /\ nextLocalState' = nextLocalState
      /\ block' = block /\ insnIdx' = insnIdx /\ localState' = localState
      /\ cont' = cont /\ processed' = processed /\ prog' = prog
  BY DEF UpdatesDone, svars, Fixed
<1>2. ~AtHeap /\ Running /\ Running' /\ CurInsn.code \in {"jmp", "cond"} /\ heapIdx \in Nat
  BY <1>1 DEF Running, AtHeap, EngineInv, EngineTypeOK, ControlInv
<1>3. CurInsn' = CurInsn
  BY <1>1, SameInsn
<1>4. LocalOf(pc', block', insnIdx', heapIdx', localState')
      = LocalOf(pc, block, insnIdx, heapIdx, localState)
  BY <1>1, <1>2 DEF LocalOf
<1>5. CallOf(pc', block', insnIdx', heapIdx', localState')
      = CallOf(pc, block, insnIdx, heapIdx, localState)
  BY <1>1 DEF CallOf
<1>6. CollectedOf(pc', CurInsn'.code, heapIdx', localState', nextLocalState', callResults',
                  cont'[CallResults].heaps)
      = CollectedOf(pc, CurInsn.code, heapIdx, localState, nextLocalState, callResults,
                    cont[CallResults].heaps)
  BY <1>1, <1>2, <1>3 DEF CollectedOf
<1>7. Waiting' = Waiting
  BY <1>1, <1>2, <1>4, <1>5, <1>6, WaitingIs, WaitingThen DEF InHands
<1> QED
  BY <1>1, <1>2, <1>7, QuietRefines

LEMMA CallResultsDoneRefines ==
  ASSUME EngineInv, EngineInv', RefInv, Fixed, executed' = executed \cup Consumed,
         CallResultsDone
  PROVE  RefInv' /\ UNCHANGED Abs!wvars
<1>1. /\ pc = "join" /\ pc' = "insn" /\ results' = results /\ emit' = emit
      /\ callResults = <<>> /\ nextLocalState' = cont[CallResults].heaps
      /\ block' = block /\ insnIdx' = insnIdx /\ localState' = localState
      /\ heapIdx' = heapIdx /\ prog' = prog /\ Import(CallResults, <<>>)
  BY DEF CallResultsDone, Fixed
<1>2. ~AtHeap /\ Running /\ Running' /\ CurInsn.code = "call"
  BY <1>1 DEF Running, AtHeap, EngineInv, ControlInv
<1>3. CurInsn' = CurInsn
  BY <1>1, SameInsn
<1>4. \A b \in Block : cont'[b] = cont[b] /\ processed'[b] = processed[b]
  BY <1>1, SymStateAssumption DEF Import, EngineInv, StateInv, StateTypeOK, Key
<1>5. BlocksOf(cont') = BlocksOf(cont)
  BY <1>4, SamePending
<1>6. LocalOf(pc', block', insnIdx', heapIdx', localState')
      = LocalOf(pc, block, insnIdx, heapIdx, localState)
  BY <1>1 DEF LocalOf
<1>7. CallOf(pc', block', insnIdx', heapIdx', localState')
      = CallOf(pc, block, insnIdx, heapIdx, localState)
  BY <1>1 DEF CallOf
<1>8. CollectedOf(pc', CurInsn'.code, heapIdx', localState', nextLocalState', callResults',
                  cont'[CallResults].heaps)
      = CollectedOf(pc, CurInsn.code, heapIdx, localState, nextLocalState, callResults,
                    cont[CallResults].heaps)
  BY <1>1, <1>2, <1>3, ElementsEmpty DEF CollectedOf
<1>9. Waiting' = Waiting
  BY <1>1, <1>2, <1>5, <1>6, <1>7, <1>8, WaitingIs, WaitingThen DEF InHands
<1> QED
  BY <1>1, <1>2, <1>4, <1>9, QuietRefines

LEMMA PruneKeepsPending ==
  ASSUME EngineInv, IF insnIdx = 1 THEN PruneOrigin ELSE UNCHANGED svars,
         pc = "insn", heapIdx > Len(localState)
  PROVE  /\ \A b \in Block : PendingHeaps(cont'[b]) = PendingHeaps(cont[b])
         /\ processed' = processed
<1>1. CASE cont' = cont /\ processed' = processed
  BY <1>1
<1>2. CASE insnIdx = 1 /\ ClearIfDone(block)
  <2>1. Pending(cont[block]) = {} /\ cont \in [Key -> State] /\ block \in Key
    BY <1>2, AllDoneAtEnd DEF EngineInv, StateInv, StateTypeOK, EngineTypeOK, Key
  <2>2. cont' = [cont EXCEPT ![block] = ClearState(cont[block])] /\ processed' = processed
    BY <1>2, <2>1 DEF ClearIfDone
  <2>3. cont'[block] = ClearState(cont[block]) /\ \A b \in Block : b # block => cont'[b] = cont[b]
    BY <2>1, <2>2 DEF Key
  <2>4. cont[block] \in State
    BY <2>1
  <2>5. ClearState(cont[block]).done = <<>>
    BY <2>4 DEF ClearState, State
  <2>6. PendingHeaps(ClearState(cont[block])) = {}
    BY <2>5 DEF PendingHeaps, Pending
  <2>7. PendingHeaps(cont[block]) = {}
    BY <2>1 DEF PendingHeaps
  <2> QED
    BY <2>2, <2>3, <2>6, <2>7
<1> QED
  BY <1>1, <1>2 DEF PruneOrigin, svars

LEMMA EndOfInsnRefines ==
  ASSUME EngineInv, EngineInv', RefInv, Fixed, executed' = executed \cup Consumed,
         EndOfInsn
  PROVE  RefInv' /\ UNCHANGED Abs!wvars
<1> DEFINE nextState == IF CurInsn.code = "cmp" THEN localState ELSE nextLocalState
<1>1. /\ pc = "insn" /\ heapIdx > Len(localState) /\ results' = results /\ emit' = emit
      /\ IF insnIdx = 1 THEN PruneOrigin ELSE UNCHANGED svars
      /\ nextLocalState' = <<>> /\ block' = block
      /\ \/ nextState = <<>> /\ pc' = "getNext"
         \/ /\ nextState # <<>> /\ insnIdx' = insnIdx + 1 /\ heapIdx' = 1
            /\ localState' = nextState /\ pc' = "insn"
  BY DEF EndOfInsn
<1>2. /\ ~AtHeap /\ Running /\ emit = <<>> /\ insnIdx \in Nat /\ insnIdx > 0
      /\ heapIdx = Len(localState) + 1 /\ Len(localState) \in Nat
  BY <1>1 DEF Running, AtHeap, EngineInv, EngineTypeOK, ControlInv
<1>3. (\A b \in Block : PendingHeaps(cont'[b]) = PendingHeaps(cont[b])) /\ processed' = processed
  BY <1>1, PruneKeepsPending
<1>4. BlocksOf(cont') = BlocksOf(cont)
  BY <1>3, SamePending
<1>5. LocalOf(pc, block, insnIdx, heapIdx, localState) = {}
  BY <1>1, <1>2 DEF LocalOf
<1>6. (IF CurInsn.code = "cmp" THEN {localState[j] : j \in 1..(heapIdx - 1)}
                               ELSE Elements(nextLocalState)) = Elements(nextState)
  BY <1>2 DEF Elements
<1> HIDE DEF nextState
<1>7. Waiting = BlocksOf(cont) \cup NextOf(block, insnIdx, Elements(nextState))
  BY <1>1, <1>5, <1>6, WaitingAtInsn
<1>8. CASE nextState = <<>> /\ pc' = "getNext"
  <2>1. ~Running'
    BY <1>8 DEF Running
  <2>2. NextOf(block, insnIdx, Elements(nextState)) = {}
    BY <1>8, ElementsEmpty DEF NextOf
  <2>3. Waiting' = Waiting
    BY <1>4, <1>7, <2>1, <2>2, WaitingThen
  <2> QED
    BY <1>1, <1>2, <1>3, <2>3, QuietRefines
<1>9. CASE /\ insnIdx' = insnIdx + 1 /\ heapIdx' = 1
           /\ localState' = nextState /\ pc' = "insn"
  <2>1. Running'
    BY <1>9 DEF Running
  <2>2. LocalOf(pc', block', insnIdx', heapIdx', localState')
        = NextOf(block, insnIdx, Elements(nextState))
    BY <1>1, <1>2, <1>9 DEF LocalOf, NextOf, Elements
  <2>3. /\ CallOf(pc', block', insnIdx', heapIdx', localState') = {}
        /\ EmitOf(emit') = {}
    BY <1>1, <1>2, <1>9, ElementsEmpty DEF CallOf
  <2>4. CollectedOf(pc', CurInsn'.code, heapIdx', localState', nextLocalState', callResults',
                    cont'[CallResults].heaps) = {}
    BY <1>1, <1>9, ElementsEmpty DEF CollectedOf
  <2>5. NextOf(block', insnIdx', {}) = {}
    BY DEF NextOf
  <2>6. Waiting' = Waiting
    BY <1>4, <1>7, <2>1, <2>2, <2>3, <2>4, <2>5, WaitingThen
  <2> QED
    BY <1>1, <1>2, <1>3, <2>6, QuietRefines
<1> QED
  BY <1>1, <1>8, <1>9

-------------------------------------------------------------------------------
(* A heap is skipped.  After a comparison it goes on to the CL_INSN_COND,  *)
(* where it was executed before or where it waits already.                 *)
LEMMA SkipDoneRefines ==
  ASSUME EngineInv, EngineInv', RefInv, Fixed, executed' = executed \cup Consumed,
         SkipDone
  PROVE  RefInv' /\ Abs!Rearrange
<1>1. /\ AtHeap /\ pc = "insn" /\ pc' = "insn" /\ insnIdx = 1 /\ cont[block].done[heapIdx]
      /\ heapIdx' = heapIdx + 1 /\ nextLocalState' = nextLocalState /\ emit' = emit
      /\ block' = block /\ insnIdx' = insnIdx /\ localState' = localState
      /\ cont' = cont /\ processed' = processed /\ prog' = prog /\ results' = results
  BY DEF SkipDone, AtHeap, svars, Fixed
<1>2. Consumed = {}
  BY <1>1, ConsumedAtHeap
<1>3. /\ heapIdx \in Nat /\ heapIdx > 0 /\ heapIdx <= Len(localState) /\ emit = <<>>
      /\ Len(localState) \in Nat /\ Running /\ StateInv /\ block \in Block
  BY <1>1 DEF EngineInv, EngineTypeOK, ControlInv, AtHeap, Running
<1>4. CurInsn' = CurInsn
  BY <1>1, SameInsn
<1>5. CurHeap \in processed[block]
  <2>1. localState = cont[block].heaps /\ block \in Key
    BY <1>1, <1>3 DEF EngineInv, WalkInv, Key
  <2>2. heapIdx \in 1..Len(cont[block].heaps)
    BY <1>3, <2>1
  <2>3. cont[block].heaps[heapIdx] \in processed[block]
    BY <1>1, <1>3, <2>1, <2>2 DEF StateInv, GoodState
  <2> QED
    BY <2>1, <2>3 DEF CurHeap
<1> DEFINE rest == BlocksOf(cont) \cup LocalOf(pc, block, insnIdx, heapIdx, localState)
<1>6. LocalOf(pc', block', insnIdx', heapIdx', localState')
      = LocalOf(pc, block, insnIdx, heapIdx, localState)
  BY <1>1 DEF LocalOf
<1>7. EmitOf(emit') = {} /\ CallOf(pc', block, insnIdx, heapIdx', localState) = {}
  BY <1>1, <1>3, ElementsEmpty DEF CallOf
<1>8. Waiting = rest \cup NextOf(block, insnIdx, CollectedNow)
  BY <1>1, WaitingAtInsn DEF CollectedNow
<1>9. Waiting' = rest \cup NextOf(block, insnIdx, CollectedThen)
  BY <1>1, <1>4, <1>6, <1>7, WaitingAfter DEF CollectedThen
<1> HIDE DEF rest
<1>10. /\ CurInsn.code # "cmp" => CollectedThen = CollectedNow
       /\ CurInsn.code = "cmp" => CollectedThen = CollectedNow \cup {CurHeap}
  BY <1>1, <1>3 DEF CollectedThen, CollectedNow, CurHeap
<1>11. CurInsn.code = "cmp" => <<block, insnIdx + 1, CurHeap>> \in executed \cup Waiting
  <2>1. CurInsn.code = "cmp" => FirstInsn(block).code = "cmp"
    BY <1>1 DEF CurInsn, FirstInsn
  <2>2. FirstInsn(block).code = "cmp" => <<block, 2, CurHeap>> \in executed \cup Waiting
    BY <1>3, <1>5 DEF RefInv
  <2>3. insnIdx + 1 = 2
    BY <1>1
  <2> QED
    BY <2>1, <2>2, <2>3
<1>12. Waiting \subseteq Waiting' /\ Waiting' \subseteq Waiting \cup executed
  BY <1>8, <1>9, <1>10, <1>11 DEF NextOf
<1> QED
  BY <1>1, <1>2, <1>12, RearrangeKeepsHistory

(* The call returns: it is executed now. *)
LEMMA CallReturnsRefines ==
  ASSUME EngineInv, EngineInv', RefInv, Fixed, executed' = executed \cup Consumed,
         CallReturns
  PROVE  RefInv' /\ Abs!Execute
<1> DEFINE sh == localState[heapIdx - 1]
           x == <<block, insnIdx, sh>>
           new == Post[CurInsn.fns[1]][sh]
<1>1. /\ pc = "wait" /\ pc' = "join" /\ callResults' = new /\ Import(CallResults, nextLocalState)
      /\ heapIdx' = heapIdx /\ nextLocalState' = nextLocalState /\ emit' = emit
      /\ block' = block /\ insnIdx' = insnIdx /\ localState' = localState
      /\ prog' = prog /\ results' = results
  BY DEF CallReturns, Fixed
<1>2. /\ heapIdx - 1 \in 1..Len(localState) /\ Consumed = {x}
  BY <1>1, ConsumedAtCall
<1>3. /\ localState \in Seq(Heap) /\ Running /\ Running' /\ CurInsn.code = "call"
      /\ emit = <<>> /\ StateInv /\ prog \in Programs /\ sh \notin ExitHeap
      /\ nextLocalState \in Seq(Heap)
  BY <1>1 DEF EngineInv, EngineTypeOK, ControlInv, Running
<1>4. sh \in Heap
  BY <1>2, <1>3
<1>5. block \in Block /\ insnIdx \in 1..Len(Insns(block)) /\ CurInsn.fns[1] \in Fn
  BY <1>3, CurInsnFacts
<1>6. x \in Place /\ IsPlace(x)
  BY <1>3, <1>4, <1>5, IsPlaceFacts
<1>7. CurInsn = Insns(block)[insnIdx] /\ CurInsn' = CurInsn
  BY <1>1, SameInsn DEF CurInsn
<1> HIDE DEF sh
<1>8. Succ[x] = NextOf(block, insnIdx, Elements(new))
  <2>1. Successors(x) = {<<block, insnIdx + 1, s>> : s \in Elements(new)}
    BY <1>3, <1>4, <1>5, <1>7, SuccessorsFacts DEF CurInsn
  <2> QED
    BY <1>6, <2>1 DEF Succ, NextOf
<1>9. Yields[x] = {}
  <2>3. x[1] = block /\ x[2] = insnIdx /\ x[3] = sh
    OBVIOUS
  <2> HIDE DEF x
  <2>1. InsnAt(x) = CurInsn /\ ~Exited(x)
    BY <1>3, <2>3 DEF InsnAt, Exited, CurInsn
  <2>2. Yield(x) = {}
    BY <1>3, <2>1 DEF Yield
  <2> QED
    BY <1>6, <2>2 DEF Yields
<1>10. /\ \A b \in Block : cont'[b] = cont[b] /\ processed'[b] = processed[b]
       /\ cont'[CallResults] = ImportHeaps(cont[CallResults], nextLocalState)
       /\ cont[CallResults] \in State
  BY <1>1, <1>3, SymStateAssumption DEF Import, StateInv, StateTypeOK, Key
<1>11. cont'[CallResults].heaps = nextLocalState
  <2>1. ImportHeaps(cont[CallResults], nextLocalState).heaps = nextLocalState
    BY <1>3, <1>10, ImportFacts
  <2> QED
    BY <1>10, <2>1
<1>12. BlocksOf(cont') = BlocksOf(cont)
  BY <1>10, SamePending
<1>13. /\ LocalOf(pc', block', insnIdx', heapIdx', localState')
             = LocalOf(pc, block, insnIdx, heapIdx, localState)
       /\ CallOf(pc', block', insnIdx', heapIdx', localState') = {}
       /\ CallOf(pc, block, insnIdx, heapIdx, localState) = {x}
       /\ EmitOf(emit) = {} /\ EmitOf(emit') = {}
  BY <1>1, <1>3, ElementsEmpty DEF LocalOf, CallOf, sh
<1>14. CollectedOf(pc, CurInsn.code, heapIdx, localState, nextLocalState, callResults,
                   cont[CallResults].heaps) = Elements(nextLocalState)
  BY <1>1 DEF CollectedOf
<1>15. CollectedOf(pc', CurInsn'.code, heapIdx', localState', nextLocalState', callResults',
                   cont'[CallResults].heaps) = Elements(new) \cup Elements(nextLocalState)
  BY <1>1, <1>11 DEF CollectedOf
<1> HIDE DEF new, x
<1> DEFINE rest == BlocksOf(cont) \cup LocalOf(pc, block, insnIdx, heapIdx, localState)
                   \cup NextOf(block, insnIdx, Elements(nextLocalState))
<1>16. Waiting = rest \cup {x}
  BY <1>3, <1>13, <1>14, WaitingIs DEF InHands
<1>17. NextOf(block, insnIdx, Elements(new) \cup Elements(nextLocalState))
       = NextOf(block, insnIdx, Elements(nextLocalState)) \cup Succ[x]
  BY <1>8 DEF NextOf
<1>18. Waiting' = rest \cup Succ[x]
  BY <1>1, <1>3, <1>12, <1>13, <1>15, <1>17, WaitingThen, ZenonT(40)
<1>19. CallPlace = {x}
  BY <1>1, <1>2 DEF CallPlace
<1> HIDE DEF rest
<1>20. /\ x \in Waiting /\ Waiting \subseteq Waiting' \cup {x} /\ Succ[x] \subseteq Waiting'
       /\ Waiting' \subseteq Waiting \cup Succ[x] /\ executed' = executed \cup {x}
  BY <1>2, <1>16, <1>18
<1>21. Elements(results') = Elements(results) \cup Yields[x]
  BY <1>1, <1>9
<1> QED
  BY <1>10, <1>19, <1>20, <1>21, ExecuteKeepsHistory

LEMMA IdleRefines ==
  ASSUME EngineInv, EngineInv', RefInv, Fixed, executed' = executed,
         UNCHANGED vars
  PROVE  RefInv' /\ UNCHANGED Abs!wvars
<1>1. /\ pc' = pc /\ block' = block /\ insnIdx' = insnIdx /\ heapIdx' = heapIdx
      /\ localState' = localState /\ nextLocalState' = nextLocalState /\ emit' = emit
      /\ callResults' = callResults /\ results' = results /\ cont' = cont
      /\ processed' = processed /\ prog' = prog
  BY DEF vars, svars, engineVars
<1>2. CurInsn' = CurInsn
  BY <1>1, SameInsn
<1>3. Running' <=> Running
  BY <1>1 DEF Running
<1>4. Waiting' = Waiting
  BY <1>1, <1>2, <1>3, WaitingIs, WaitingThen DEF InHands
<1>5. CallPlace' = CallPlace
  BY <1>1, <1>2 DEF CallPlace, Consumed, AtHeap, CurHeap
<1> QED
  BY <1>1, <1>4, <1>5, StutterKeepsHistory

-------------------------------------------------------------------------------
(* What the operations of the containers do to the heaps that wait. *)

(* The heaps that waited are covered by what waits now or was processed. *)
Carries(st, new, proc) == \A sh \in PendingHeaps(st) : CoveredBy(sh, proc \cup PendingHeaps(new))

LEMMA GoodPending ==
  ASSUME NEW st, NEW arr, NEW proc, GoodState(st, arr, proc)
  PROVE  GoodState(st, PendingHeaps(st), proc) /\ PendingHeaps(st) \in SUBSET Heap
<1>1. PendingHeaps(st) \in SUBSET Heap
  BY PendingHeapsType DEF GoodState
<1>2. \A sh \in PendingHeaps(st) : CoveredBy(sh, proc \cup PendingHeaps(st))
  BY <1>1, CoveredRefl
<1> QED
  BY <1>1, <1>2 DEF GoodState

LEMMA GoodCarries ==
  ASSUME NEW st, NEW new, NEW proc, GoodState(new, PendingHeaps(st), proc)
  PROVE  Carries(st, new, proc)
BY DEF GoodState, Carries

LEMMA InsertNewPending ==
  ASSUME NEW st \in State, Len(st.heaps) = Len(st.done), NEW sh \in Heap
  PROVE  PendingHeaps(InsertNew(st, sh)) \subseteq PendingHeaps(st) \cup {sh}
<1> DEFINE new == InsertNew(st, sh)
<1>1. st.heaps \in Seq(Heap) /\ st.done \in Seq(BOOLEAN) /\ Len(st.heaps) \in Nat
  BY StateFacts
<1>2. new.heaps = Append(st.heaps, sh) /\ new.done = Append(st.done, FALSE)
  BY DEF InsertNew, State
<1>3. /\ Len(new.done) = Len(st.done) + 1
      /\ \A i \in 1..Len(st.done) : new.done[i] = st.done[i] /\ new.heaps[i] = st.heaps[i]
      /\ new.heaps[Len(st.done) + 1] = sh
  <2> DEFINE h == st.heaps
             d == st.done
  <2> HIDE DEF h, d, new
  <2>1. h \in Seq(Heap) /\ d \in Seq(BOOLEAN) /\ Len(h) = Len(d)
    BY <1>1 DEF h, d
  <2>2. /\ \A i \in 1..Len(h) : Append(h, sh)[i] = h[i]
        /\ Append(h, sh)[Len(h) + 1] = sh
    BY <2>1, AppendFacts
  <2>3. /\ Len(Append(d, FALSE)) = Len(d) + 1
        /\ \A i \in 1..Len(d) : Append(d, FALSE)[i] = d[i]
    BY <2>1, AppendMark
  <2> QED
    BY <1>2, <2>1, <2>2, <2>3 DEF h, d
<1> HIDE DEF new
<1>4. ASSUME NEW i \in Pending(new) PROVE new.heaps[i] \in PendingHeaps(st) \cup {sh}
  <2>1. i \in 1..(Len(st.done) + 1) /\ ~new.done[i]
    BY <1>3 DEF Pending
  <2>2. CASE i = Len(st.done) + 1
    BY <1>3, <2>2
  <2>3. CASE i \in 1..Len(st.done)
    BY <1>3, <2>1, <2>3 DEF PendingHeaps, Pending
  <2> QED
    BY <1>1, <2>1, <2>2, <2>3
<1> QED
  BY <1>4 DEF PendingHeaps, new

LEMMA RotatePendingHeaps ==
  ASSUME NEW st \in State, Len(st.heaps) = Len(st.done), NEW nth \in 1..Len(st.heaps)
  PROVE  PendingHeaps(RotateExisting(st, nth)) \subseteq PendingHeaps(st)
<1> DEFINE new == RotateExisting(st, nth)
           n == Len(st.heaps)
           from(i) == IF i <= n - nth + 1 THEN i + nth - 1 ELSE i - (n - nth + 1)
<1>1. /\ Len(new.done) = n
      /\ \A i \in 1..n : new.heaps[i] = st.heaps[from(i)] /\ new.done[i] = st.done[from(i)]
  BY RotateExistingFacts
<1>2. \A i \in 1..n : from(i) \in 1..n
  <2>1. n \in Nat /\ nth \in 1..n
    BY StateFacts
  <2> HIDE DEF n
  <2> QED
    BY <2>1
<1> HIDE DEF new, from
<1>3. ASSUME NEW i \in Pending(new) PROVE new.heaps[i] \in PendingHeaps(st)
  <2>1. i \in 1..n /\ ~new.done[i]
    BY <1>1 DEF Pending
  <2>2. from(i) \in 1..Len(st.done) /\ ~st.done[from(i)] /\ new.heaps[i] = st.heaps[from(i)]
    BY <1>1, <1>2, <2>1
  <2> QED
    BY <2>2 DEF PendingHeaps, Pending
<1> QED
  BY <1>3 DEF PendingHeaps, new

LEMMA SwapPending ==
  ASSUME NEW st \in State, Len(st.heaps) = Len(st.done), NEW nth \in 1..Len(st.heaps),
         NEW sh \in Heap
  PROVE  PendingHeaps(SwapExisting(st, nth, sh)) \subseteq PendingHeaps(st) \cup {sh}
<1> DEFINE new == SwapExisting(st, nth, sh)
<1>1. /\ Len(new.done) = Len(st.heaps) /\ new.heaps[nth] = sh
      /\ \A i \in 1..Len(st.heaps) :
            i # nth => new.heaps[i] = st.heaps[i] /\ new.done[i] = st.done[i]
  BY SwapExistingFacts
<1> HIDE DEF new
<1>2. ASSUME NEW i \in Pending(new) PROVE new.heaps[i] \in PendingHeaps(st) \cup {sh}
  <2>1. i \in 1..Len(st.heaps) /\ ~new.done[i]
    BY <1>1 DEF Pending
  <2> QED
    BY <1>1, <2>1 DEF PendingHeaps, Pending
<1> QED
  BY <1>2 DEF PendingHeaps, new

LEMMA ErasePending ==
  ASSUME NEW st \in State, Len(st.heaps) = Len(st.done), NEW nth \in 1..Len(st.heaps)
  PROVE  PendingHeaps(EraseExisting(st, nth)) \subseteq PendingHeaps(st)
<1> DEFINE new == EraseExisting(st, nth)
           from(i) == IF i < nth THEN i ELSE i + 1
<1>1. /\ Len(new.done) = Len(st.heaps) - 1
      /\ \A i \in 1..(Len(st.heaps) - 1) :
            new.heaps[i] = st.heaps[from(i)] /\ new.done[i] = st.done[from(i)]
  BY EraseExistingFacts
<1>2. \A i \in 1..(Len(st.heaps) - 1) : from(i) \in 1..Len(st.heaps)
  BY StateFacts
<1> HIDE DEF new, from
<1>3. ASSUME NEW i \in Pending(new) PROVE new.heaps[i] \in PendingHeaps(st)
  <2>1. i \in 1..(Len(st.heaps) - 1) /\ ~new.done[i]
    BY <1>1 DEF Pending
  <2>2. from(i) \in 1..Len(st.done) /\ ~st.done[from(i)] /\ new.heaps[i] = st.heaps[from(i)]
    BY <1>1, <1>2, <2>1
  <2> QED
    BY <2>2 DEF PendingHeaps, Pending
<1> QED
  BY <1>3 DEF PendingHeaps, new

(* The end of insert() changes no heap and no mark. *)
LEMMA ReturnWork ==
  ASSUME StateInv, NEW dst \in Key, NEW old, NEW new, NEW proc, NEW size, NEW changed,
         Return(dst, new, size, changed), GoodState(new, PendingHeaps(old), proc)
  PROVE  /\ PendingHeaps(cont'[dst]) = PendingHeaps(new)
         /\ Carries(old, cont'[dst], proc)
<1>1. cont'[dst] = NoteHit(new, size)
  BY DEF Return, StateInv, StateTypeOK
<1>2. NoteHit(new, size).heaps = new.heaps /\ NoteHit(new, size).done = new.done
  BY NoteHitIsGood
<1>3. PendingHeaps(cont'[dst]) = PendingHeaps(new)
  BY <1>1, <1>2 DEF PendingHeaps, Pending
<1>4. Carries(old, new, proc)
  BY GoodCarries
<1> QED
  BY <1>3, <1>4 DEF Carries

(* insert() was called with sh. *)
LEMMA InsertBeginWork ==
  ASSUME StateInv, NEW dst \in Key, NEW sh \in Heap, NEW allow \in BOOLEAN,
         InsertBegin(dst, sh, allow)
  PROVE  /\ Carries(cont[dst], cont'[dst], processed[dst])
         /\ \A h \in PendingHeaps(cont'[dst]) :
               h \in PendingHeaps(cont[dst]) \/ <<h, sh>> \in Covers
<1> DEFINE st == cont[dst]
           n == Len(st.heaps)
           proc == processed[dst]
<1>1. /\ GoodState(st, PendingHeaps(st), proc) /\ PendingHeaps(st) \in SUBSET Heap
      /\ proc \in SUBSET Heap
  BY GoodPending DEF StateInv, StateTypeOK
<1>2. st \in State /\ Len(st.heaps) = Len(st.done)
  BY ContFacts
<1>3. <<sh, sh>> \in Covers
  BY SymJoinAssumption
<1>4. ASSUME NEW size, NEW changed, Return(dst, InsertNew(st, sh), size, changed)
      PROVE  /\ Carries(st, cont'[dst], proc)
             /\ \A h \in PendingHeaps(cont'[dst]) : h \in PendingHeaps(st) \/ <<h, sh>> \in Covers
  <2>1. GoodState(InsertNew(st, sh), PendingHeaps(st) \cup {sh}, proc)
    BY <1>1, InsertNewIsGood
  <2>2. GoodState(InsertNew(st, sh), PendingHeaps(st), proc)
    BY <2>1 DEF GoodState
  <2>3. PendingHeaps(InsertNew(st, sh)) \subseteq PendingHeaps(st) \cup {sh}
    BY <1>2, InsertNewPending
  <2>4. PendingHeaps(cont'[dst]) = PendingHeaps(InsertNew(st, sh)) /\ Carries(st, cont'[dst], proc)
    BY <1>4, <2>2, ReturnWork
  <2> QED
    BY <1>3, <2>3, <2>4
<1>5. ASSUME NEW i \in 1..n, NEW new \in {st, RotateExisting(st, i)}, NEW size, NEW changed,
             Return(dst, new, size, changed)
      PROVE  /\ Carries(st, cont'[dst], proc)
             /\ PendingHeaps(cont'[dst]) \subseteq PendingHeaps(st)
  <2>1. GoodState(RotateExisting(st, i), PendingHeaps(st), proc)
    BY <1>1, RotateExistingIsGood
  <2>2. PendingHeaps(RotateExisting(st, i)) \subseteq PendingHeaps(st)
    BY <1>2, RotatePendingHeaps
  <2>3. GoodState(new, PendingHeaps(st), proc) /\ PendingHeaps(new) \subseteq PendingHeaps(st)
    BY <1>1, <1>5, <2>1, <2>2
  <2>4. PendingHeaps(cont'[dst]) = PendingHeaps(new) /\ Carries(st, cont'[dst], proc)
    BY <1>5, <2>3, ReturnWork
  <2> QED
    BY <2>3, <2>4
<1>6. CASE UnionInsert(dst, sh)
  BY <1>4, <1>5, <1>6 DEF UnionInsert
<1>7. CASE JoinInsert(dst, sh, allow)
  <2> DEFINE status(i) == JoinStatus(st.heaps[i], sh, allow)
             joined(i) == IF status(i) = JS_USE_SH2 THEN sh ELSE JoinResult(st.heaps[i], sh)
  <2>1. CASE Return(dst, InsertNew(st, sh), n, TRUE)
    BY <1>4, <2>1
  <2>2. CASE \E i \in 1..n : \E new \in {st, RotateExisting(st, i)} :
                Return(dst, new, n, FALSE)
    BY <1>5, <2>2
  <2>3. ASSUME NEW i \in 1..n, status(i) \in {JS_USE_SH2, JS_THREE_WAY},
               cont' = [cont EXCEPT ![dst] = SwapExisting(st, i, joined(i))]
        PROVE  /\ Carries(st, cont'[dst], proc)
               /\ \A h \in PendingHeaps(cont'[dst]) :
                     h \in PendingHeaps(st) \/ <<h, sh>> \in Covers
    <3> DEFINE old == st.heaps[i]
               j == joined(i)
    <3>1. old \in Heap
      BY <1>2, StateFacts
    <3>2. j \in Heap /\ <<j, old>> \in Covers /\ <<j, sh>> \in Covers
      <4>1. /\ status(i) \in {JS_USE_ANY, JS_USE_SH2} => <<sh, old>> \in Covers
            /\ status(i) = JS_THREE_WAY => /\ JoinResult(old, sh) \in Heap
                                           /\ <<JoinResult(old, sh), old>> \in Covers
                                           /\ <<JoinResult(old, sh), sh>> \in Covers
        <5> HIDE DEF old
        <5>1. LET stat == JoinStatus(old, sh, allow)
              IN  /\ stat \in {JS_USE_ANY, JS_USE_SH2} => <<sh, old>> \in Covers
                  /\ stat = JS_THREE_WAY => /\ JoinResult(old, sh) \in Heap
                                            /\ <<JoinResult(old, sh), old>> \in Covers
                                            /\ <<JoinResult(old, sh), sh>> \in Covers
          BY <3>1, JoinFacts
        <5>2. status(i) = JoinStatus(old, sh, allow)
          BY DEF old
        <5> HIDE DEF status
        <5> QED
          BY <5>1, <5>2
      <4> QED
        BY <1>3, <2>3, <4>1
    <3>3. cont'[dst] = SwapExisting(st, i, j)
      BY <2>3 DEF StateInv, StateTypeOK
    <3> HIDE DEF j
    <3>4. GoodState(SwapExisting(st, i, j), PendingHeaps(st), proc)
      BY <1>1, <3>2, SwapExistingIsGood
    <3>5. PendingHeaps(SwapExisting(st, i, j)) \subseteq PendingHeaps(st) \cup {j}
      BY <1>2, <3>2, SwapPending
    <3> QED
      BY <3>2, <3>3, <3>4, <3>5, GoodCarries
  <2>4. \/ Return(dst, InsertNew(st, sh), n, TRUE)
        \/ \E i \in 1..n : \E new \in {st, RotateExisting(st, i)} : Return(dst, new, n, FALSE)
        \/ \E i \in 1..n : /\ status(i) \in {JS_USE_SH2, JS_THREE_WAY}
                           /\ cont' = [cont EXCEPT ![dst] = SwapExisting(st, i, joined(i))]
    BY <1>7 DEF JoinInsert, Joinable
  <2> HIDE DEF status, joined
  <2> QED
    BY <2>1, <2>2, <2>3, <2>4
<1> QED
  BY <1>4, <1>6, <1>7 DEF InsertBegin

(* The heap that packState() goes on with covers the one it was called for. *)
LEMMA MergedPending ==
  ASSUME NEW st, NEW arr \in SUBSET Heap, NEW proc \in SUBSET Heap, NEW allow,
         NEW idxOld \in 1..Len(st.heaps), NEW idxNew \in 1..Len(st.heaps),
         GoodState(st, arr, proc), ~st.done[idxNew], idxOld # idxNew,
         JoinStatus(st.heaps[idxOld], st.heaps[idxNew], allow) # JS_FAIL
  PROVE  LET merged == Merged(st, idxOld, idxNew,
                              JoinStatus(st.heaps[idxOld], st.heaps[idxNew], allow))
         IN  /\ GoodState(merged, arr, proc) /\ Len(merged.heaps) = Len(st.heaps)
             /\ ~merged.done[idxNew]
             /\ <<merged.heaps[idxNew], merged.heaps[idxOld]>> \in Covers
             /\ \A h \in PendingHeaps(merged) :
                   h \in PendingHeaps(st) \/ <<h, st.heaps[idxNew]>> \in Covers
<1> DEFINE old == st.heaps[idxOld]
           other == st.heaps[idxNew]
           stat == JoinStatus(old, other, allow)
           m == Merged(st, idxOld, idxNew, stat)
<1>1. /\ GoodState(m, arr, proc) /\ ~m.done[idxNew]
      /\ <<m.heaps[idxNew], m.heaps[idxOld]>> \in Covers
      /\ <<m.heaps[idxNew], other>> \in Covers
  BY MergedIsGood
<1>2. /\ st \in State /\ Len(st.heaps) = Len(st.done)
      /\ old \in Heap /\ other \in Heap
  BY StateFacts DEF GoodState
<1>3. /\ Len(m.heaps) = Len(st.heaps) /\ Len(m.done) = Len(st.heaps)
      /\ \A i \in 1..Len(st.heaps) : i # idxNew =>
            m.heaps[i] = st.heaps[i] /\ m.done[i] = st.done[i]
  <2> HIDE DEF old, other
  <2>1. stat \in EJoinStatus /\ (stat = JS_THREE_WAY => JoinResult(old, other) \in Heap)
    BY <1>2, JoinFacts
  <2>2. stat # JS_FAIL
    BY DEF old, other
  <2> HIDE DEF stat, m
  <2> DEFINE mm == Merged(st, idxOld, idxNew, stat)
  <2>3. /\ Len(mm.heaps) = Len(st.heaps) /\ Len(mm.done) = Len(st.heaps)
        /\ \A i \in 1..Len(st.heaps) : i # idxNew =>
              mm.heaps[i] = st.heaps[i] /\ mm.done[i] = st.done[i]
    BY <1>2, <2>1, <2>2, MergedFacts DEF old, other
  <2> QED
    BY <2>3 DEF m
<1> HIDE DEF m, old, other
<1>4. ASSUME NEW i \in Pending(m)
      PROVE  m.heaps[i] \in PendingHeaps(st) \/ <<m.heaps[i], other>> \in Covers
  <2>1. i \in 1..Len(st.heaps) /\ ~m.done[i]
    BY <1>3 DEF Pending
  <2>2. CASE i = idxNew
    BY <1>1, <2>2
  <2>3. CASE i # idxNew
    BY <1>2, <1>3, <2>1, <2>3 DEF PendingHeaps, Pending
  <2> QED
    BY <2>2, <2>3
<1>5. \A h \in PendingHeaps(m) : h \in PendingHeaps(st) \/ <<h, other>> \in Covers
  BY <1>4 DEF PendingHeaps
<1>6. m = Merged(st, idxOld, idxNew, JoinStatus(st.heaps[idxOld], st.heaps[idxNew], allow))
  BY DEF m, old, other
<1> QED
  BY <1>1, <1>3, <1>5, <1>6 DEF other

(* packState(): what waits then covers what waited before, and the other way round. *)
LEMMA PackWork ==
  ASSUME StateInv, PackStep \/ PackDone
  PROVE  /\ ins.dst \in Key
         /\ Carries(cont[ins.dst], cont'[ins.dst], processed[ins.dst])
         /\ \A h \in PendingHeaps(cont'[ins.dst]) :
               \E g \in PendingHeaps(cont[ins.dst]) : <<h, g>> \in Covers
<1> DEFINE dst == ins.dst
           st == cont[dst]
           n == Len(st.heaps)
           proc == processed[dst]
           idxOld == ins.idxOld
           idxNew == ins.idxNew
           allow == ins.allowThreeWay
           status == JoinStatus(st.heaps[idxOld], st.heaps[idxNew], allow)
           merged == Merged(st, idxOld, idxNew, status)
<1>1. /\ dst \in Key /\ idxOld \in Nat /\ idxNew \in 1..n /\ ~st.done[idxNew] /\ idxOld > 0
      /\ processed[dst] \in SUBSET Heap
  BY DEF StateInv, StateTypeOK, Insertion, PackInv, PackStep, PackDone
<1>2. GoodState(st, PendingHeaps(st), proc) /\ PendingHeaps(st) \in SUBSET Heap
  BY <1>1, GoodPending DEF StateInv
<1>3. st \in State /\ Len(st.heaps) = Len(st.done) /\ n \in Nat
  BY <1>1, ContFacts
<1>4. st.heaps[idxNew] \in PendingHeaps(st)
  BY <1>1, <1>3 DEF PendingHeaps, Pending
<1>5. \A h \in PendingHeaps(st) : \E g \in PendingHeaps(st) : <<h, g>> \in Covers
  BY <1>2, SymJoinAssumption
<1>6. CASE cont' = cont
  BY <1>1, <1>2, <1>5, <1>6, GoodCarries
<1>7. ASSUME idxOld <= n, idxOld # idxNew, status # JS_FAIL,
             cont' = [cont EXCEPT ![dst] = EraseExisting(merged, idxOld)]
      PROVE  /\ Carries(st, cont'[dst], proc)
             /\ \A h \in PendingHeaps(cont'[dst]) :
                   \E g \in PendingHeaps(st) : <<h, g>> \in Covers
  <2>1. cont'[dst] = EraseExisting(merged, idxOld)
    BY <1>1, <1>7 DEF StateInv, StateTypeOK
  <2>2. idxOld \in 1..n
    BY <1>1, <1>7
  <2>3. /\ GoodState(merged, PendingHeaps(st), proc) /\ Len(merged.heaps) = n
        /\ ~merged.done[idxNew]
        /\ <<merged.heaps[idxNew], merged.heaps[idxOld]>> \in Covers
        /\ \A h \in PendingHeaps(merged) :
              h \in PendingHeaps(st) \/ <<h, st.heaps[idxNew]>> \in Covers
    <3>1. /\ proc \in SUBSET Heap /\ status # JS_FAIL /\ idxOld # idxNew
      BY <1>1, <1>7
    <3> HIDE DEF st, proc, idxOld, idxNew, allow
    <3> DEFINE m == Merged(st, idxOld, idxNew,
                           JoinStatus(st.heaps[idxOld], st.heaps[idxNew], allow))
    <3>2. /\ GoodState(m, PendingHeaps(st), proc) /\ Len(m.heaps) = Len(st.heaps)
          /\ ~m.done[idxNew]
          /\ <<m.heaps[idxNew], m.heaps[idxOld]>> \in Covers
          /\ \A h \in PendingHeaps(m) :
                h \in PendingHeaps(st) \/ <<h, st.heaps[idxNew]>> \in Covers
      BY <1>1, <1>2, <2>2, <3>1, MergedPending
    <3> QED
      BY <3>2
  <2> HIDE DEF merged, status
  <2>4. GoodState(EraseExisting(merged, idxOld), PendingHeaps(st), proc)
    BY <1>1, <1>2, <1>7, <2>2, <2>3, EraseExistingIsGood
  <2>5. PendingHeaps(EraseExisting(merged, idxOld)) \subseteq PendingHeaps(merged)
    BY <2>2, <2>3, ErasePending DEF GoodState
  <2> QED
    BY <1>4, <1>5, <2>1, <2>3, <2>4, <2>5, GoodCarries
<1>8. CASE PackDone
  <2>1. PICK new \in {st, RotateExisting(st, idxNew)} : Return(dst, new, ins.size, TRUE)
    BY <1>8 DEF PackDone
  <2>2. GoodState(RotateExisting(st, idxNew), PendingHeaps(st), proc)
    BY <1>1, <1>2, RotateExistingIsGood
  <2>3. PendingHeaps(RotateExisting(st, idxNew)) \subseteq PendingHeaps(st)
    BY <1>1, <1>3, RotatePendingHeaps
  <2>4. GoodState(new, PendingHeaps(st), proc) /\ PendingHeaps(new) \subseteq PendingHeaps(st)
    BY <1>2, <2>1, <2>2, <2>3
  <2>5. PendingHeaps(cont'[dst]) = PendingHeaps(new) /\ Carries(st, cont'[dst], proc)
    BY <1>1, <2>1, <2>4, ReturnWork
  <2> QED
    BY <1>1, <1>5, <2>4, <2>5
<1>9. CASE PackStep
  <2>1. \/ cont' = cont
        \/ /\ idxOld <= n /\ idxOld # idxNew /\ status # JS_FAIL
           /\ cont' = [cont EXCEPT ![dst] = EraseExisting(merged, idxOld)]
    BY <1>9 DEF PackStep, Accepts
  <2> QED
    BY <1>1, <1>6, <1>7, <2>1
<1> QED
  BY <1>8, <1>9

-------------------------------------------------------------------------------
(* updateState() and joinCallResults() *)

(* Nobody marks the heaps that joinCallResults() collects. *)
LEMMA AllPending ==
  EngineInv => Elements(cont[CallResults].heaps) = PendingHeaps(cont[CallResults])
<1> SUFFICES ASSUME EngineInv
             PROVE  Elements(cont[CallResults].heaps) = PendingHeaps(cont[CallResults])
  OBVIOUS
<1> DEFINE st == cont[CallResults]
<1>1. CallResults \in Key /\ StateInv /\ processed[CallResults] = {}
  BY DEF Key, EngineInv, InsertInv
<1>2. /\ Len(st.heaps) = Len(st.done)
      /\ \A i \in 1..Len(st.heaps) : st.done[i] => st.heaps[i] \in {}
  BY <1>1 DEF StateInv, GoodState
<1>3. Pending(st) = 1..Len(st.heaps)
  BY <1>2 DEF Pending
<1> QED
  BY <1>3 DEF PendingHeaps, Elements

LEMMA AllPendingThen ==
  EngineInv' => Elements(cont'[CallResults].heaps) = PendingHeaps(cont'[CallResults])
<1>1. (EngineInv => Elements(cont[CallResults].heaps) = PendingHeaps(cont[CallResults]))'
  BY AllPending, PTL
<1> QED
  BY <1>1 DEF Elements, PendingHeaps, Pending

(* The heaps that were processed in front of a block were executed there. *)
LEMMA ProcessedIsExecuted ==
  ASSUME RefInv, pc # "wait", NEW b \in Block, NEW sh \in processed[b]
  PROVE  <<b, 1, sh>> \in executed
BY DEF RefInv, CallPlace

(* The parts of Waiting that a step in insert() leaves alone. *)
LEMMA SameHands ==
  ASSUME UNCHANGED engineVars, prog' = prog
  PROVE  /\ LocalOf(pc', block', insnIdx', heapIdx', localState')
              = LocalOf(pc, block, insnIdx, heapIdx, localState)
         /\ CallOf(pc', block', insnIdx', heapIdx', localState')
              = CallOf(pc, block, insnIdx, heapIdx, localState)
         /\ EmitOf(emit') = EmitOf(emit)
         /\ CurInsn' = CurInsn /\ (Running' <=> Running)
         /\ pc' = pc /\ block' = block /\ insnIdx' = insnIdx /\ heapIdx' = heapIdx
         /\ localState' = localState /\ nextLocalState' = nextLocalState
         /\ callResults' = callResults /\ results' = results
<1>1. /\ pc' = pc /\ block' = block /\ insnIdx' = insnIdx /\ heapIdx' = heapIdx
      /\ localState' = localState /\ nextLocalState' = nextLocalState /\ emit' = emit
      /\ callResults' = callResults /\ results' = results
  BY DEF engineVars
<1>2. CurInsn' = CurInsn
  BY <1>1, SameInsn
<1> QED
  BY <1>1, <1>2 DEF Running

(* A step of insert() on the container of a block. *)
LEMMA BlockInsertRefines ==
  ASSUME EngineInv, EngineInv', RefInv, Fixed, executed' = executed \cup Consumed,
         UNCHANGED engineVars, processed' = processed, pc = "emit",
         NEW dst \in Block, NEW given,
         \A sh \in given : <<dst, 1, sh>> \in EmitOf(emit),
         \A k \in Key : k # dst => cont'[k] = cont[k],
         Carries(cont[dst], cont'[dst], processed[dst]),
         \A h \in PendingHeaps(cont'[dst]) :
            \E g \in PendingHeaps(cont[dst]) \cup given : <<h, g>> \in Covers
  PROVE  RefInv' /\ Abs!Rearrange
<1>1. prog' = prog /\ Running /\ ~AtHeap /\ pc # "wait"
  BY DEF Fixed, Running, AtHeap
<1>2. Consumed = {}
  BY <1>1, NothingConsumed
<1>3. /\ results' = results /\ callResults' = callResults /\ cont'[CallResults] = cont[CallResults]
      /\ Running' /\ executed' = executed
  BY <1>1, <1>2, SameHands, SymStateAssumption DEF Key
<1>4. Waiting = BlocksOf(cont) \cup InHands /\ EmitOf(emit) \subseteq InHands
  BY <1>1, WaitingIs DEF InHands
<1>5. CollectedOf(pc', CurInsn'.code, heapIdx', localState', nextLocalState', callResults',
                  cont'[CallResults].heaps)
      = CollectedOf(pc, CurInsn.code, heapIdx, localState, nextLocalState, callResults,
                    cont[CallResults].heaps)
  BY <1>1, <1>3, SameHands
<1>6. Waiting' = BlocksOf(cont') \cup InHands
  <2>1. block' = block /\ insnIdx' = insnIdx
    BY <1>1, SameHands
  <2>2. /\ LocalOf(pc', block', insnIdx', heapIdx', localState')
             = LocalOf(pc, block, insnIdx, heapIdx, localState)
        /\ CallOf(pc', block', insnIdx', heapIdx', localState')
             = CallOf(pc, block, insnIdx, heapIdx, localState)
        /\ EmitOf(emit') = EmitOf(emit)
    BY <1>1, SameHands
  <2> QED
    BY <1>3, <1>5, <2>1, <2>2, WaitingThen DEF InHands
<1> HIDE DEF InHands
<1>7. Waiting \subseteq Place /\ Waiting' \subseteq Place /\ executed \subseteq Place
  BY WaitingType, WaitingTypeThen DEF RefInv
<1>8. ASSUME NEW p \in Waiting
      PROVE  \/ p \in Waiting'
             \/ /\ ~(p[2] = 2 /\ FirstInsn(p[1]).code = "cmp")
                /\ \E q \in Waiting' \cup executed : <<q, p>> \in PlaceCovers
  <2>1. CASE p \in InHands
    BY <1>6, <2>1
  <2>2. ASSUME NEW b \in Block, NEW sh \in PendingHeaps(cont[b]), p = <<b, 1, sh>>, b # dst
        PROVE  p \in Waiting'
    <3>1. sh \in PendingHeaps(cont'[b])
      BY <2>2 DEF Key
    <3> QED
      BY <1>6, <2>2, <3>1, BlocksOfMember
  <2>3. ASSUME NEW sh \in PendingHeaps(cont[dst]), p = <<dst, 1, sh>>
        PROVE  /\ ~(p[2] = 2 /\ FirstInsn(p[1]).code = "cmp")
               /\ \E q \in Waiting' \cup executed : <<q, p>> \in PlaceCovers
    <3>1. PICK g \in processed[dst] \cup PendingHeaps(cont'[dst]) : <<g, sh>> \in Covers
      BY DEF Carries, CoveredBy
    <3>2. <<dst, 1, g>> \in Waiting' \cup executed
      <4>1. CASE g \in processed[dst]
        BY <1>1, <4>1, ProcessedIsExecuted
      <4>2. CASE g \in PendingHeaps(cont'[dst])
        BY <1>6, <4>2, BlocksOfMember
      <4> QED
        BY <4>1, <4>2
    <3>3. <<dst, 1, g>> \in Place /\ <<dst, 1, sh>> \in Place
      BY <1>7, <2>3, <3>2
    <3>4. <<<<dst, 1, g>>, <<dst, 1, sh>>>> \in PlaceCovers
      BY <3>1, <3>3, CoversPlace
    <3> QED
      BY <2>3, <3>2, <3>4
  <2>4. p \in InHands \/ \E b \in Block : \E sh \in PendingHeaps(cont[b]) : p = <<b, 1, sh>>
    BY <1>4, BlocksOfMember
  <2> QED
    BY <2>1, <2>2, <2>3, <2>4
<1>9. ASSUME NEW q \in Waiting'
      PROVE  \/ q \in Waiting \cup executed
             \/ \E p \in Waiting \cup executed : <<q, p>> \in PlaceCovers
  <2>1. CASE q \in InHands
    BY <1>4, <2>1
  <2>2. ASSUME NEW b \in Block, NEW h \in PendingHeaps(cont'[b]), q = <<b, 1, h>>, b # dst
        PROVE  q \in Waiting
    <3>1. h \in PendingHeaps(cont[b])
      BY <2>2 DEF Key
    <3> QED
      BY <1>4, <2>2, <3>1, BlocksOfMember
  <2>3. ASSUME NEW h \in PendingHeaps(cont'[dst]), q = <<dst, 1, h>>
        PROVE  \E p \in Waiting \cup executed : <<q, p>> \in PlaceCovers
    <3>1. PICK g \in PendingHeaps(cont[dst]) \cup given : <<h, g>> \in Covers
      OBVIOUS
    <3>2. <<dst, 1, g>> \in Waiting
      <4>1. CASE g \in given
        BY <1>4, <4>1
      <4>2. CASE g \in PendingHeaps(cont[dst])
        BY <1>4, <4>2, BlocksOfMember
      <4> QED
        BY <4>1, <4>2
    <3>3. <<<<dst, 1, h>>, <<dst, 1, g>>>> \in PlaceCovers
      BY <1>7, <2>3, <3>1, <3>2, CoversPlace
    <3> QED
      BY <2>3, <3>2, <3>3
  <2>4. q \in InHands \/ \E b \in Block : \E h \in PendingHeaps(cont'[b]) : q = <<b, 1, h>>
    BY <1>6, BlocksOfMember
  <2> QED
    BY <2>1, <2>2, <2>3, <2>4
<1> QED
  BY <1>1, <1>3, <1>8, <1>9, RearrangeKeepsHistory

(* A step of insert() on the container of joinCallResults(). *)
LEMMA ResultsInsertRefines ==
  ASSUME EngineInv, EngineInv', RefInv, Fixed, executed' = executed \cup Consumed,
         UNCHANGED engineVars, processed' = processed, pc = "join",
         NEW given \in SUBSET Elements(callResults),
         \A k \in Key : k # CallResults => cont'[k] = cont[k],
         Carries(cont[CallResults], cont'[CallResults], processed[CallResults]),
         \A h \in PendingHeaps(cont'[CallResults]) :
            \E g \in PendingHeaps(cont[CallResults]) \cup given : <<h, g>> \in Covers
  PROVE  RefInv' /\ Abs!Rearrange
<1> DEFINE before == PendingHeaps(cont[CallResults])
           after == PendingHeaps(cont'[CallResults])
           rest == BlocksOf(cont) \cup LocalOf(pc, block, insnIdx, heapIdx, localState)
                   \cup EmitOf(emit) \cup CallOf(pc, block, insnIdx, heapIdx, localState)
                   \cup NextOf(block, insnIdx, Elements(callResults))
<1>1. prog' = prog /\ Running /\ ~AtHeap /\ pc # "wait"
  BY DEF Fixed, Running, AtHeap
<1>2. Consumed = {}
  BY <1>1, NothingConsumed
<1>3. /\ results' = results /\ callResults' = callResults /\ pc' = pc
      /\ Running' /\ executed' = executed
  BY <1>1, <1>2, SameHands
<1>4. \A b \in Block : cont'[b] = cont[b]
  BY SymStateAssumption DEF Key
<1>5. BlocksOf(cont') = BlocksOf(cont)
  BY <1>4, SamePending
<1>6. CollectedOf(pc, CurInsn.code, heapIdx, localState, nextLocalState, callResults,
                  cont[CallResults].heaps) = Elements(callResults) \cup before
  BY AllPending DEF CollectedOf
<1>7. CollectedOf(pc', CurInsn'.code, heapIdx', localState', nextLocalState', callResults',
                  cont'[CallResults].heaps) = Elements(callResults) \cup after
  BY <1>3, AllPendingThen DEF CollectedOf
<1> HIDE DEF before, after
<1>8. Waiting = rest \cup NextOf(block, insnIdx, before)
  <2>1. NextOf(block, insnIdx, Elements(callResults) \cup before)
        = NextOf(block, insnIdx, Elements(callResults)) \cup NextOf(block, insnIdx, before)
    BY DEF NextOf
  <2> QED
    BY <1>1, <1>6, <2>1, WaitingIs DEF InHands
<1>9. Waiting' = rest \cup NextOf(block, insnIdx, after)
  <2>1. NextOf(block, insnIdx, Elements(callResults) \cup after)
        = NextOf(block, insnIdx, Elements(callResults)) \cup NextOf(block, insnIdx, after)
    BY DEF NextOf
  <2>2. block' = block /\ insnIdx' = insnIdx
    BY <1>1, SameHands
  <2>3. /\ LocalOf(pc', block', insnIdx', heapIdx', localState')
             = LocalOf(pc, block, insnIdx, heapIdx, localState)
        /\ CallOf(pc', block', insnIdx', heapIdx', localState')
             = CallOf(pc, block, insnIdx, heapIdx, localState)
        /\ EmitOf(emit') = EmitOf(emit)
    BY <1>1, SameHands
  <2> QED
    BY <1>3, <1>5, <1>7, <2>1, <2>2, <2>3, WaitingThen, ZenonT(40)
<1>10. NextOf(block, insnIdx, Elements(callResults)) \subseteq rest
  OBVIOUS
<1> HIDE DEF rest
<1>11. Waiting \subseteq Place /\ Waiting' \subseteq Place
  BY WaitingType, WaitingTypeThen
<1>12. ~(insnIdx + 1 = 2 /\ FirstInsn(block).code = "cmp")
  <2>1. CurInsn.code = "call" /\ insnIdx \in Nat
    BY DEF EngineInv, ControlInv, EngineTypeOK
  <2> QED
    BY <2>1 DEF CurInsn, FirstInsn
<1>13. ASSUME NEW p \in Waiting
       PROVE  \/ p \in Waiting'
              \/ /\ ~(p[2] = 2 /\ FirstInsn(p[1]).code = "cmp")
                 /\ \E q \in Waiting' \cup executed : <<q, p>> \in PlaceCovers
  <2>1. ASSUME NEW sh \in before, p = <<block, insnIdx + 1, sh>>
        PROVE  /\ ~(p[2] = 2 /\ FirstInsn(p[1]).code = "cmp")
               /\ \E q \in Waiting' \cup executed : <<q, p>> \in PlaceCovers
    <3>1. PICK g \in after : <<g, sh>> \in Covers
      BY DEF Carries, CoveredBy, EngineInv, InsertInv, before, after
    <3>2. <<block, insnIdx + 1, g>> \in Waiting'
      BY <1>9 DEF NextOf
    <3>3. <<<<block, insnIdx + 1, g>>, <<block, insnIdx + 1, sh>>>> \in PlaceCovers
      BY <1>11, <2>1, <3>1, <3>2, CoversPlace
    <3> QED
      BY <1>12, <2>1, <3>2, <3>3
  <2>2. p \in rest \/ \E sh \in before : p = <<block, insnIdx + 1, sh>>
    BY <1>8 DEF NextOf
  <2> QED
    BY <1>9, <2>1, <2>2
<1>14. ASSUME NEW q \in Waiting'
       PROVE  \/ q \in Waiting \cup executed
              \/ \E p \in Waiting \cup executed : <<q, p>> \in PlaceCovers
  <2>1. ASSUME NEW h \in after, q = <<block, insnIdx + 1, h>>
        PROVE  \E p \in Waiting \cup executed : <<q, p>> \in PlaceCovers
    <3>1. PICK g \in before \cup given : <<h, g>> \in Covers
      BY DEF before, after
    <3>2. <<block, insnIdx + 1, g>> \in Waiting
      BY <1>8, <1>10 DEF NextOf
    <3>3. <<<<block, insnIdx + 1, h>>, <<block, insnIdx + 1, g>>>> \in PlaceCovers
      BY <1>11, <2>1, <3>1, <3>2, CoversPlace
    <3> QED
      BY <2>1, <3>2, <3>3
  <2>2. q \in rest \/ \E h \in after : q = <<block, insnIdx + 1, h>>
    BY <1>9 DEF NextOf
  <2> QED
    BY <1>8, <2>1, <2>2
<1> QED
  BY <1>1, <1>3, <1>13, <1>14, RearrangeKeepsHistory

LEMMA UpdateStateRefines ==
  ASSUME EngineInv, EngineInv', RefInv, Fixed, executed' = executed \cup Consumed,
         UpdateState
  PROVE  RefInv' /\ Abs!Rearrange
<1> DEFINE dst == emit[1].dst
           sh == emit[1].heap
           closing == IsLoopClosingEdge(block, dst)
<1>1. pc = "emit" /\ emit # <<>> /\ UNCHANGED engineVars
  BY DEF UpdateState
<1>2. emit \in Seq(Update) /\ StateInv
  BY DEF EngineInv, EngineTypeOK
<1>3. Head(emit) = emit[1] /\ emit[1] \in Update /\ emit[1] \in Elements(emit)
  BY <1>1, <1>2, ElementsHeadTail
<1>4. PICK heap \in {sh, Abstract[sh]}, allow \in BOOLEAN : InsertBegin(dst, heap, allow)
  <2>1. InsertBegin(dst, IF closing THEN Abstract[sh] ELSE sh, closing \/ conf.joinMode = 0)
    BY <1>3 DEF UpdateState
  <2> QED
    BY <2>1 DEF IsLoopClosingEdge
<1>5. dst \in Block /\ dst \in Key /\ heap \in Heap /\ sh \in Heap
  BY <1>3, <1>4, EngineAssumption DEF Update, Key
<1>6. <<heap, sh>> \in Covers
  BY <1>4, <1>5, SymJoinAssumption, EngineAssumption
<1>7. <<dst, 1, sh>> \in EmitOf(emit)
  BY <1>3 DEF EmitOf
<1>8. (\A k \in Key : k # dst => cont'[k] = cont[k]) /\ processed' = processed
  BY <1>2, <1>4, <1>5, InsertBeginFacts
<1>9. /\ Carries(cont[dst], cont'[dst], processed[dst])
      /\ \A h \in PendingHeaps(cont'[dst]) : h \in PendingHeaps(cont[dst]) \/ <<h, heap>> \in Covers
  BY <1>2, <1>4, <1>5, InsertBeginWork
<1>10. PendingHeaps(cont[dst]) \subseteq Heap /\ PendingHeaps(cont'[dst]) \subseteq Heap
  <2>1. StateInv' /\ dst \in Key
    BY <1>5 DEF EngineInv
  <2>2. cont[dst] \in State /\ Len(cont[dst].heaps) = Len(cont[dst].done)
    BY <1>2, <2>1, ContFacts
  <2>3. cont'[dst] \in State /\ Len(cont'[dst].heaps) = Len(cont'[dst].done)
    BY <2>1 DEF StateInv, GoodState
  <2> QED
    BY <2>2, <2>3, PendingHeapsType
<1> HIDE DEF dst, sh
<1>11. ASSUME NEW h \in PendingHeaps(cont'[dst])
       PROVE  \E g \in PendingHeaps(cont[dst]) \cup {sh} : <<h, g>> \in Covers
  <2>1. CASE h \in PendingHeaps(cont[dst])
    BY <1>10, <2>1, SymJoinAssumption
  <2>2. CASE <<h, heap>> \in Covers
    <3>1. <<h, sh>> \in Covers
      BY <1>5, <1>6, <1>10, <2>2, SymJoinAssumption
    <3> QED
      BY <3>1
  <2> QED
    BY <1>9, <2>1, <2>2
<1>12. \A s \in {sh} : <<dst, 1, s>> \in EmitOf(emit)
  BY <1>7
<1> QED
  BY <1>1, <1>5, <1>8, <1>9, <1>11, <1>12, BlockInsertRefines

LEMMA JoinCallResultRefines ==
  ASSUME EngineInv, EngineInv', RefInv, Fixed, executed' = executed \cup Consumed,
         JoinCallResult
  PROVE  RefInv' /\ Abs!Rearrange
<1> DEFINE dst == CallResults
           sh == callResults[1]
<1>1. pc = "join" /\ callResults # <<>> /\ UNCHANGED engineVars
  BY DEF JoinCallResult
<1>2. callResults \in Seq(Heap) /\ StateInv /\ dst \in Key
  BY DEF EngineInv, EngineTypeOK, Key
<1>3. Head(callResults) = sh /\ sh \in Heap /\ sh \in Elements(callResults)
  BY <1>1, <1>2, ElementsHeadTail
<1>4. InsertBegin(dst, sh, TRUE) /\ TRUE \in BOOLEAN
  BY <1>3 DEF JoinCallResult
<1> HIDE DEF sh
<1>5. (\A k \in Key : k # dst => cont'[k] = cont[k]) /\ processed' = processed
  BY <1>2, <1>3, <1>4, InsertBeginFacts
<1>6. /\ Carries(cont[dst], cont'[dst], processed[dst])
      /\ \A h \in PendingHeaps(cont'[dst]) : h \in PendingHeaps(cont[dst]) \/ <<h, sh>> \in Covers
  BY <1>2, <1>3, <1>4, InsertBeginWork
<1>7. PendingHeaps(cont[dst]) \subseteq Heap
  BY <1>2, ContFacts, PendingHeapsType
<1>8. \A h \in PendingHeaps(cont'[dst]) :
         \E g \in PendingHeaps(cont[dst]) \cup {sh} : <<h, g>> \in Covers
  BY <1>6, <1>7, SymJoinAssumption
<1>9. {sh} \in SUBSET Elements(callResults)
  BY <1>3
<1> QED
  BY <1>1, <1>5, <1>6, <1>8, <1>9, ResultsInsertRefines

LEMMA PackRefines ==
  ASSUME EngineInv, EngineInv', RefInv, Fixed, executed' = executed \cup Consumed,
         Pack
  PROVE  RefInv' /\ Abs!Rearrange
<1>1. (PackStep \/ PackDone) /\ UNCHANGED engineVars /\ ins.pc = "pack"
  BY DEF Pack, PackStep, PackDone
<1>2. StateInv /\ ins.changed
  BY <1>1 DEF EngineInv, InsertInv
<1>3. (\A k \in Key : k # ins.dst => cont'[k] = cont[k]) /\ processed' = processed
  BY <1>1, <1>2, PackFacts
<1>4. /\ ins.dst \in Key
      /\ Carries(cont[ins.dst], cont'[ins.dst], processed[ins.dst])
      /\ \A h \in PendingHeaps(cont'[ins.dst]) :
            \E g \in PendingHeaps(cont[ins.dst]) \cup {} : <<h, g>> \in Covers
  BY <1>1, <1>2, PackWork
<1>5. CASE pc = "emit" /\ ins.dst \in Block
  <2>0. PICK none : none = {}
    OBVIOUS
  <2> DEFINE dst == ins.dst
  <2>1. dst \in Block /\ \A s \in none : <<dst, 1, s>> \in EmitOf(emit)
    BY <1>5, <2>0
  <2>2. /\ Carries(cont[dst], cont'[dst], processed[dst])
        /\ \A h \in PendingHeaps(cont'[dst]) :
              \E g \in PendingHeaps(cont[dst]) \cup none : <<h, g>> \in Covers
        /\ \A k \in Key : k # dst => cont'[k] = cont[k]
    BY <1>3, <1>4, <2>0
  <2> HIDE DEF dst
  <2> QED
    BY <1>1, <1>3, <1>5, <2>1, <2>2, BlockInsertRefines
<1>6. CASE pc = "join" /\ ins.dst = CallResults
  <2>1. {} \in SUBSET Elements(callResults)
    OBVIOUS
  <2> QED
    BY <1>1, <1>3, <1>4, <1>6, <2>1, ResultsInsertRefines
<1>7. (pc = "emit" /\ ins.dst \in Block) \/ (pc = "join" /\ ins.dst = CallResults)
  <2>1. CASE pc = "emit" /\ emit # <<>> /\ ins.dst = emit[1].dst
    <3>1. emit[1] \in Update
      BY <2>1, ElementsHeadTail DEF EngineInv, EngineTypeOK
    <3> QED
      BY <2>1, <3>1 DEF Update
  <2> QED
    BY <1>1, <2>1 DEF EngineInv, InsertInv
<1> QED
  BY <1>5, <1>6, <1>7

(* What insert() has taken is covered by what waits or was executed. *)
LEMMA ScheduleTargetRefines ==
  ASSUME EngineInv, EngineInv', RefInv, Fixed, executed' = executed \cup Consumed,
         ScheduleTarget
  PROVE  RefInv' /\ Abs!Rearrange
<1> DEFINE dst == emit[1].dst
           sh == emit[1].heap
           x == <<dst, 1, sh>>
<1>1. /\ pc = "emit" /\ pc' = pc /\ emit' = Tail(emit) /\ ins.pc = "done"
      /\ block' = block /\ insnIdx' = insnIdx /\ heapIdx' = heapIdx
      /\ localState' = localState /\ nextLocalState' = nextLocalState
      /\ callResults' = callResults /\ results' = results
      /\ cont' = cont /\ processed' = processed /\ prog' = prog
  BY DEF ScheduleTarget, InsertReturn, Fixed
<1>2. /\ emit \in Seq(Update) /\ StateInv /\ emit # <<>> /\ ins.dst = dst
      /\ \E a \in arrived[dst] : <<a, sh>> \in Covers
  BY <1>1 DEF EngineInv, EngineTypeOK, InsertInv
<1>3. Elements(emit) = {emit[1]} \cup Elements(emit') /\ emit[1] \in Update
  BY <1>1, <1>2, ElementsHeadTail
<1>4. EmitOf(emit) = {x} \cup EmitOf(emit')
  BY <1>3 DEF EmitOf
<1>5. dst \in Block /\ dst \in Key /\ sh \in Heap
  BY <1>3 DEF Update, Key
<1>6. ~AtHeap /\ pc # "wait" /\ Running /\ Running' /\ CurInsn' = CurInsn
  BY <1>1, SameInsn DEF AtHeap, Running
<1>7. Consumed = {}
  BY <1>6, NothingConsumed
<1> DEFINE rest == BlocksOf(cont) \cup LocalOf(pc, block, insnIdx, heapIdx, localState)
                   \cup NextOf(block, insnIdx, CollectedOf(pc, CurInsn.code, heapIdx,
                          localState, nextLocalState, callResults, cont[CallResults].heaps))
                   \cup CallOf(pc, block, insnIdx, heapIdx, localState)
<1> HIDE DEF x
<1>8. Waiting = rest \cup EmitOf(emit') \cup {x}
  BY <1>4, <1>6, WaitingIs DEF InHands
<1>9. Waiting' = rest \cup EmitOf(emit')
  BY <1>1, <1>6, WaitingThen
<1>10. BlocksOf(cont) \subseteq rest
  OBVIOUS
<1> HIDE DEF rest, dst, sh
<1>11. PICK g \in processed[dst] \cup PendingHeaps(cont[dst]) : <<g, sh>> \in Covers
  <2>1. PICK a \in arrived[dst] : <<a, sh>> \in Covers
    BY <1>2
  <2>2. CoveredBy(a, processed[dst] \cup PendingHeaps(cont[dst]))
    BY <1>2, <1>5 DEF StateInv, GoodState
  <2>3. PICK g \in processed[dst] \cup PendingHeaps(cont[dst]) : <<g, a>> \in Covers
    BY <2>2 DEF CoveredBy
  <2>4. <<g, sh>> \in Covers
    BY <2>1, <2>3, SymJoinAssumption
  <2> QED
    BY <2>4
<1>12. <<dst, 1, g>> \in Waiting' \cup executed
  <2>1. CASE g \in processed[dst]
    BY <1>5, <1>6, <2>1, ProcessedIsExecuted
  <2>2. CASE g \in PendingHeaps(cont[dst])
    BY <1>5, <1>9, <1>10, <2>2, BlocksOfMember
  <2> QED
    BY <2>1, <2>2
<1>13. Waiting \subseteq Place /\ Waiting' \subseteq Place /\ executed \subseteq Place
  BY WaitingType, WaitingTypeThen DEF RefInv
<1>14. /\ ~(x[2] = 2 /\ FirstInsn(x[1]).code = "cmp")
       /\ \E q \in Waiting' \cup executed : <<q, x>> \in PlaceCovers
  <2>1. x = <<dst, 1, sh>> /\ x \in Place /\ <<dst, 1, g>> \in Place
    BY <1>8, <1>12, <1>13 DEF x, dst, sh
  <2>2. <<<<dst, 1, g>>, x>> \in PlaceCovers
    BY <1>11, <2>1, CoversPlace
  <2> QED
    BY <1>12, <2>1, <2>2
<1>15. Waiting' \subseteq Waiting /\ Waiting \subseteq Waiting' \cup {x}
  BY <1>8, <1>9
<1> QED
  BY <1>1, <1>6, <1>7, <1>14, <1>15, RearrangeKeepsHistory

LEMMA CallResultJoinedRefines ==
  ASSUME EngineInv, EngineInv', RefInv, Fixed, executed' = executed \cup Consumed,
         CallResultJoined
  PROVE  RefInv' /\ Abs!Rearrange
<1> DEFINE sh == callResults[1]
           x == <<block, insnIdx + 1, sh>>
           joined == Elements(cont[CallResults].heaps)
<1>1. /\ pc = "join" /\ pc' = pc /\ callResults' = Tail(callResults) /\ ins.pc = "done"
      /\ block' = block /\ insnIdx' = insnIdx /\ heapIdx' = heapIdx
      /\ localState' = localState /\ nextLocalState' = nextLocalState
      /\ emit' = emit /\ results' = results
      /\ cont' = cont /\ processed' = processed /\ prog' = prog
  BY DEF CallResultJoined, InsertReturn, Fixed
<1>2. /\ callResults \in Seq(Heap) /\ StateInv /\ callResults # <<>>
      /\ sh \in arrived[CallResults] /\ processed[CallResults] = {} /\ CallResults \in Key
      /\ CurInsn.code = "call" /\ insnIdx \in Nat
  BY <1>1 DEF EngineInv, EngineTypeOK, InsertInv, Key, ControlInv
<1>3. Elements(callResults) = {sh} \cup Elements(callResults')
  BY <1>1, <1>2, ElementsHeadTail
<1>4. ~AtHeap /\ pc # "wait" /\ Running /\ Running' /\ CurInsn' = CurInsn
  BY <1>1, SameInsn DEF AtHeap, Running
<1>5. Consumed = {}
  BY <1>4, NothingConsumed
<1> DEFINE rest == BlocksOf(cont) \cup LocalOf(pc, block, insnIdx, heapIdx, localState)
                   \cup EmitOf(emit) \cup CallOf(pc, block, insnIdx, heapIdx, localState)
                   \cup NextOf(block, insnIdx, Elements(callResults'))
                   \cup NextOf(block, insnIdx, joined)
<1> HIDE DEF sh, joined
<1>6. Waiting = rest \cup {x}
  <2>1. CollectedOf(pc, CurInsn.code, heapIdx, localState, nextLocalState, callResults,
                    cont[CallResults].heaps) = {sh} \cup Elements(callResults') \cup joined
    BY <1>1, <1>3 DEF CollectedOf, joined
  <2>2. NextOf(block, insnIdx, {sh} \cup Elements(callResults') \cup joined)
        = {x} \cup NextOf(block, insnIdx, Elements(callResults')) \cup NextOf(block, insnIdx, joined)
    BY DEF NextOf
  <2> QED
    BY <1>4, <2>1, <2>2, WaitingIs DEF InHands
<1>7. Waiting' = rest
  <2>1. CollectedOf(pc', CurInsn'.code, heapIdx', localState', nextLocalState', callResults',
                    cont'[CallResults].heaps) = Elements(callResults') \cup joined
    BY <1>1 DEF CollectedOf, joined
  <2>2. NextOf(block, insnIdx, Elements(callResults') \cup joined)
        = NextOf(block, insnIdx, Elements(callResults')) \cup NextOf(block, insnIdx, joined)
    BY DEF NextOf
  <2> QED
    BY <1>1, <1>4, <2>1, <2>2, WaitingThen, ZenonT(40)
<1>8. NextOf(block, insnIdx, joined) \subseteq rest
  OBVIOUS
<1> HIDE DEF rest
<1>9. PICK g \in joined : <<g, sh>> \in Covers
  <2>1. CoveredBy(sh, PendingHeaps(cont[CallResults]))
    BY <1>2 DEF StateInv, GoodState, CoveredBy
  <2> QED
    BY <2>1, AllPending DEF CoveredBy, joined
<1>10. <<block, insnIdx + 1, g>> \in Waiting'
  BY <1>7, <1>8 DEF NextOf
<1>11. Waiting \subseteq Place /\ Waiting' \subseteq Place
  BY WaitingType, WaitingTypeThen
<1>12. ~(insnIdx + 1 = 2 /\ FirstInsn(block).code = "cmp")
  BY <1>2 DEF CurInsn, FirstInsn
<1>13. /\ ~(x[2] = 2 /\ FirstInsn(x[1]).code = "cmp")
       /\ \E q \in Waiting' \cup executed : <<q, x>> \in PlaceCovers
  <2>1. x \in Place /\ <<block, insnIdx + 1, g>> \in Place
    BY <1>6, <1>10, <1>11
  <2>2. <<<<block, insnIdx + 1, g>>, x>> \in PlaceCovers
    BY <1>9, <2>1, CoversPlace
  <2> QED
    BY <1>10, <1>12, <2>2
<1> HIDE DEF x
<1>14. Waiting' \subseteq Waiting /\ Waiting \subseteq Waiting' \cup {x}
  BY <1>6, <1>7
<1> QED
  BY <1>1, <1>4, <1>5, <1>13, <1>14, RearrangeKeepsHistory

-------------------------------------------------------------------------------
(* The refinement. *)

LEMMA RefInvInit == HistInit => RefInv
<1> SUFFICES ASSUME HistInit PROVE RefInv
  OBVIOUS
<1>1. executed = {} /\ \A b \in Block : processed[b] = {}
  BY DEF HistInit, Init, Key
<1> QED
  BY <1>1 DEF RefInv

LEMMA RefStep ==
  ASSUME NoSelfJump, EngineInv, RefInv, [HistNext]_<<vars, executed>>
  PROVE  EngineInv' /\ RefInv' /\ [Abs!WorkNext]_(Abs!wvars)
<1>1. prog' = prog /\ conf' = conf /\ entry' = entry
  BY DEF HistNext, Next, vars, engineVars
<1>2. Fixed
  BY <1>1, ControlFlowAssumption DEF Fixed, EngineInv, EngineTypeOK
<1>3. EngineInv'
  BY EngineInvNext DEF HistNext
<1>4. CASE UNCHANGED <<vars, executed>>
  <2>1. UNCHANGED vars /\ executed' = executed
    BY <1>4
  <2> QED
    BY <1>2, <1>3, <2>1, IdleRefines
<1>5. ASSUME Next, executed' = executed \cup Consumed
      PROVE  RefInv' /\ [Abs!WorkNext]_(Abs!wvars)
  <2>1. CASE Terminated
    <3>1. UNCHANGED vars /\ pc = "done"
      BY <1>1, <2>1 DEF Terminated, vars
    <3>2. Consumed = {}
      BY <3>1, NothingConsumed DEF AtHeap
    <3>3. executed' = executed
      BY <1>5, <3>2
    <3> QED
      BY <1>2, <1>3, <3>1, <3>3, IdleRefines
  <2>2. CASE GetNext \/ Complete
    BY <1>2, <1>3, <1>5, <2>2, GetNextRefines
  <2>3. CASE SkipDone
    BY <1>2, <1>3, <1>5, <2>3, SkipDoneRefines DEF Abs!WorkNext
  <2>4. CASE LookAheadCond
    BY <1>2, <1>3, <1>5, <2>4, LookAheadCondRefines DEF Abs!WorkNext
  <2>5. CASE HandleExitPoint \/ ExecReturn \/ ExecAbort
    BY <1>2, <1>3, <1>5, <2>5, ResultRefines DEF Abs!WorkNext
  <2>6. CASE ExecNontermInsn
    BY <1>2, <1>3, <1>5, <2>6, NontermRefines DEF Abs!WorkNext
  <2>7. CASE SuspendForCall
    BY <1>2, <1>3, <1>5, <2>7, SuspendRefines
  <2>8. CASE ExecJump \/ ExecCondInsn
    BY <1>2, <1>3, <1>5, <2>8, BranchRefines DEF Abs!WorkNext
  <2>9. CASE UpdateState
    BY <1>2, <1>3, <1>5, <2>9, UpdateStateRefines DEF Abs!WorkNext
  <2>10. CASE ScheduleTarget
    BY <1>2, <1>3, <1>5, <2>10, ScheduleTargetRefines DEF Abs!WorkNext
  <2>11. CASE UpdatesDone
    BY <1>2, <1>3, <1>5, <2>11, UpdatesDoneRefines
  <2>12. CASE Pack
    BY <1>2, <1>3, <1>5, <2>12, PackRefines DEF Abs!WorkNext
  <2>13. CASE EndOfInsn
    BY <1>2, <1>3, <1>5, <2>13, EndOfInsnRefines
  <2>14. CASE CallReturns
    BY <1>2, <1>3, <1>5, <2>14, CallReturnsRefines DEF Abs!WorkNext
  <2>15. CASE JoinCallResult
    BY <1>2, <1>3, <1>5, <2>15, JoinCallResultRefines DEF Abs!WorkNext
  <2>16. CASE CallResultJoined
    BY <1>2, <1>3, <1>5, <2>16, CallResultJoinedRefines DEF Abs!WorkNext
  <2>17. CASE CallResultsDone
    BY <1>2, <1>3, <1>5, <2>17, CallResultsDoneRefines
  <2> QED
    BY <1>5, <2>1, <2>2, <2>3, <2>4, <2>5, <2>6, <2>7, <2>8, <2>9, <2>10, <2>11,
       <2>12, <2>13, <2>14, <2>15, <2>16, <2>17 DEF Next
<1> QED
  BY <1>3, <1>4, <1>5 DEF HistNext

(***************************************************************************)
(* ImplementsWorkSet: whatever the scheduler, the joins, the marks, the    *)
(* pruning and the calls do, each step of SymExecEngine::run() is a step   *)
(* of the abstract fixed-point computation WorkSet, or changes nothing     *)
(* that WorkSet sees.                                                      *)
(***************************************************************************)
THEOREM EngineImplementsWorkSet ==
  ASSUME NoSelfJump
  PROVE  HistSpec => ImplementsWorkSet
<1>1. HistInit => EngineInv /\ RefInv /\ Abs!WorkInit
  BY EngineInvInit, RefInvInit, InitRefines DEF HistInit
<1>2. EngineInv /\ RefInv /\ [HistNext]_<<vars, executed>>
         => EngineInv' /\ RefInv' /\ [Abs!WorkNext]_(Abs!wvars)
  BY RefStep
<1> QED
  BY <1>1, <1>2, PTL DEF HistSpec, ImplementsWorkSet, Abs!WorkSpec

-------------------------------------------------------------------------------
(* What the engine notes of the places it executes. *)

(* The instruction at the place ends the function, for this heap. *)
Ends(p) ==
  \/ Exited(p)
  \/ InsnAt(p).code \in {"ret", "abort"}
  \/ InsnAt(p).code = "op" /\ <<InsnAt(p).fns[1], p[3]>> \in Fatal

(***************************************************************************)
(* A heap that was executed in front of a block carries the mark, also if  *)
(* the block starts with a call that has not returned yet; and an executed *)
(* end of the function is noted.                                           *)
(***************************************************************************)
PathInv ==
  /\ \A p \in executed : IsPlace(p) /\ (Ends(p) => endReached)
  /\ \A p \in executed \cup CallPlace : p[2] = 1 => p[3] \in processed[p[1]]

LEMMA PathInvInit == HistInit => PathInv
BY DEF HistInit, Init, PathInv, CallPlace

(* What a step has to do to keep the notes. *)
LEMMA PathInvStep ==
  ASSUME EngineInv, RefInv, PathInv, Fixed, endReached => endReached',
         \A b \in Block : processed[b] \subseteq processed'[b],
         \A p \in executed' \ executed :
            p \in Place /\ IsPlace(p) /\ (Ends(p) => endReached'),
         \A p \in (executed' \cup CallPlace') \ (executed \cup CallPlace) :
            p \in Place /\ (p[2] = 1 => p[3] \in processed'[p[1]])
  PROVE  PathInv'
<1>1. \A p : IsPlace(p)' = IsPlace(p) /\ Ends(p)' = Ends(p)
  BY DEF Fixed, IsPlace, Ends, Exited, InsnAt, Insns
<1>2. ASSUME NEW p \in executed' PROVE IsPlace(p)' /\ (Ends(p)' => endReached')
  BY <1>1 DEF PathInv
<1>3. ASSUME NEW p \in executed' \cup CallPlace', p[2] = 1 PROVE p[3] \in processed'[p[1]]
  <2>1. CASE p \in executed \cup CallPlace
    <3>1. p \in Place
      <4>1. CallPlace \subseteq Waiting
        BY DEF CallPlace, Waiting, Busy
      <4> QED
        BY <2>1, <4>1, WaitingType DEF RefInv
    <3> QED
      BY <1>3, <2>1, <3>1, PlaceFacts DEF PathInv
  <2> QED
    BY <1>3, <2>1
<1> QED
  BY <1>2, <1>3 DEF PathInv

(* The marks of blocks are never taken back. *)
LEMMA MarksStay ==
  ASSUME EngineInv, [Next]_vars
  PROVE  \A b \in Block : processed[b] \subseteq processed'[b]
<1>1. processed \in [Key -> SUBSET Heap] /\ \A b \in Block : b \in Key /\ b # CallResults
  BY SymStateAssumption DEF EngineInv, StateInv, StateTypeOK, Key
<1>2. CASE processed' = processed
  BY <1>2
<1>3. CASE TakeHeap
  BY <1>1, <1>3 DEF TakeHeap, SetDone, svars
<1>4. CASE CallReturns \/ CallResultsDone
  BY <1>1, <1>4 DEF CallReturns, CallResultsDone, Import
<1>5. CASE UpdateState \/ JoinCallResult
  BY <1>2, <1>5 DEF UpdateState, JoinCallResult, InsertBegin
<1>6. CASE Pack
  BY <1>2, <1>6 DEF Pack, PackStep, PackDone
<1>7. CASE ScheduleTarget \/ CallResultJoined
  BY <1>2, <1>7 DEF ScheduleTarget, CallResultJoined, InsertReturn
<1>8. CASE EndOfInsn
  BY <1>2, <1>8 DEF EndOfInsn, PruneOrigin, ClearIfDone, svars
<1>9. CASE GetNext \/ Complete \/ SkipDone \/ UpdatesDone \/ Terminated \/ UNCHANGED vars
  BY <1>2, <1>9 DEF GetNext, Complete, SkipDone, UpdatesDone, Terminated, svars, vars
<1> QED
  BY <1>3, <1>4, <1>5, <1>6, <1>7, <1>8, <1>9
     DEF Next, LookAheadCond, HandleExitPoint, ExecNontermInsn, SuspendForCall, ExecReturn,
         ExecAbort, ExecJump, ExecCondInsn, Executes

(* Neither is the note that the end of the function was reached. *)
LEMMA EndStays ==
  ASSUME [Next]_vars, endReached
  PROVE  endReached'
BY DEF Next, vars, engineVars, GetNext, Complete, SkipDone, LookAheadCond, HandleExitPoint,
       ExecNontermInsn, SuspendForCall, ExecReturn, ExecAbort, ExecJump, ExecCondInsn,
       UpdateState, ScheduleTarget, UpdatesDone, Pack, EndOfInsn, CallReturns,
       JoinCallResult, CallResultJoined, CallResultsDone, Terminated

(* The mark is set before the first instruction is executed. *)
LEMMA TakeMarks ==
  ASSUME EngineInv, TakeHeap, insnIdx = 1
  PROVE  CurHeap \in processed'[block]
<1>1. processed \in [Key -> SUBSET Heap] /\ block \in Key
  BY DEF EngineInv, StateInv, StateTypeOK, EngineTypeOK, Key
<1> QED
  BY <1>1 DEF TakeHeap, SetDone

LEMMA CallPlaceIs ==
  EngineInv => CallPlace = IF pc = "wait" THEN {<<block, insnIdx, localState[heapIdx - 1]>>} ELSE {}
BY ConsumedAtCallState DEF CallPlace

LEMMA CallPlaceThen ==
  ASSUME EngineInv'
  PROVE  CallPlace' = IF pc' = "wait" THEN {<<block', insnIdx', localState'[heapIdx' - 1]>>} ELSE {}
<1>1. (EngineInv => CallPlace = IF pc = "wait" THEN {<<block, insnIdx, localState[heapIdx - 1]>>}
                                               ELSE {})'
  BY CallPlaceIs, PTL
<1> QED
  BY <1>1

(* A step that executes the current heap, or suspends run() for its call. *)
LEMMA TakeKeepsPathInv ==
  ASSUME EngineInv, EngineInv', RefInv, PathInv, Fixed, Next, TakeHeap,
         executed' = executed \cup Consumed,
         pc' = "wait" => heapIdx' = heapIdx + 1,
         Consumed # {} => (Ends(TheHeap) => endReached')
  PROVE  PathInv'
<1>1. /\ AtHeap /\ block' = block /\ insnIdx' = insnIdx /\ localState' = localState
      /\ heapIdx \in Nat
  BY DEF TakeHeap, EngineInv, EngineTypeOK
<1>2. /\ TheHeap \in Place /\ IsPlace(TheHeap)
      /\ TheHeap = <<block, insnIdx, CurHeap>>
  <2>1. /\ CurHeap \in Heap /\ block \in Block /\ insnIdx \in 1..Len(Insns(block))
        /\ prog \in Programs
    BY <1>1, TheHeapFacts
  <2> QED
    BY <2>1, IsPlaceFacts DEF TheHeap
<1>3. Consumed \subseteq {TheHeap}
  BY <1>1, <1>2, ConsumedAtHeap
<1>4. CallPlace' \subseteq {TheHeap}
  <2>1. CASE pc' = "wait"
    <3>1. heapIdx' - 1 = heapIdx
      BY <1>1, <2>1
    <3> QED
      BY <1>1, <1>2, <2>1, <3>1, CallPlaceThen DEF CurHeap
  <2> QED
    BY <2>1, CallPlaceThen
<1>5. TheHeap[2] = 1 => TheHeap[3] \in processed'[TheHeap[1]]
  <2>1. TheHeap[1] = block /\ TheHeap[2] = insnIdx /\ TheHeap[3] = CurHeap
    BY <1>2
  <2> QED
    BY <2>1, TakeMarks
<1>6. \A p \in executed' \ executed : p \in Place /\ IsPlace(p) /\ (Ends(p) => endReached')
  BY <1>2, <1>3
<1>7. \A p \in (executed' \cup CallPlace') \ (executed \cup CallPlace) :
         p \in Place /\ (p[2] = 1 => p[3] \in processed'[p[1]])
  BY <1>2, <1>3, <1>4, <1>5
<1>8. \A b \in Block : processed[b] \subseteq processed'[b]
  BY MarksStay
<1>9. endReached => endReached'
  BY EndStays
<1> QED
  BY <1>6, <1>7, <1>8, <1>9, PathInvStep

(* A step that executes nothing. *)
LEMMA IdleKeepsPathInv ==
  ASSUME EngineInv, RefInv, PathInv, Fixed, [Next]_vars, executed' = executed,
         CallPlace' \subseteq CallPlace
  PROVE  PathInv'
<1>1. \A b \in Block : processed[b] \subseteq processed'[b]
  BY MarksStay
<1>2. endReached => endReached'
  BY EndStays
<1> QED
  BY <1>1, <1>2, PathInvStep

(* The call has returned. *)
LEMMA CallKeepsPathInv ==
  ASSUME EngineInv, EngineInv', RefInv, PathInv, Fixed, Next, CallReturns,
         executed' = executed \cup Consumed
  PROVE  PathInv'
<1> DEFINE x == <<block, insnIdx, localState[heapIdx - 1]>>
<1>1. pc = "wait" /\ pc' = "join" /\ Running
  BY DEF CallReturns, Running
<1>2. Consumed = {x} /\ CallPlace = {x} /\ heapIdx - 1 \in 1..Len(localState)
  BY <1>1, ConsumedAtCall, CallPlaceIs
<1>3. /\ block \in Block /\ insnIdx \in 1..Len(Insns(block)) /\ prog \in Programs
      /\ localState[heapIdx - 1] \in Heap
  <2>1. /\ localState \in Seq(Heap) /\ prog \in Programs /\ block \in Block
        /\ insnIdx \in Nat /\ insnIdx > 0 /\ insnIdx <= Len(Insns(block))
    BY <1>1 DEF EngineInv, EngineTypeOK
  <2>2. Len(Insns(block)) \in Nat
    BY <2>1, ControlFlowAssumption DEF Insns, WellFormedBlock
  <2> QED
    BY <1>2, <2>1, <2>2, ElementOfSeq
<1>4. x \in Place /\ IsPlace(x) /\ x[1] = block /\ x[2] = insnIdx /\ x[3] = localState[heapIdx - 1]
  BY <1>3, IsPlaceFacts
<1> HIDE DEF x
<1>5. ~Ends(x)
  <2>1. InsnAt(x) = CurInsn
    BY <1>4 DEF InsnAt, CurInsn
  <2> QED
    BY <1>1, <1>4, <2>1 DEF Ends, Exited, EngineInv, ControlInv
<1>6. CallPlace' = {}
  BY <1>1, CallPlaceThen
<1>7. \A b \in Block : processed[b] \subseteq processed'[b]
  BY MarksStay
<1>8. endReached => endReached'
  BY EndStays
<1> QED
  BY <1>2, <1>4, <1>5, <1>6, <1>7, <1>8, PathInvStep

LEMMA PathInvNext ==
  ASSUME EngineInv, EngineInv', RefInv, PathInv, [HistNext]_<<vars, executed>>
  PROVE  PathInv'
<1>1. prog' = prog /\ conf' = conf /\ entry' = entry
  BY DEF HistNext, Next, vars, engineVars
<1>2. Fixed
  BY <1>1, ControlFlowAssumption DEF Fixed, EngineInv, EngineTypeOK
<1>3. CASE UNCHANGED <<vars, executed>>
  <2>1. /\ UNCHANGED vars /\ executed' = executed /\ pc' = pc /\ block' = block
        /\ insnIdx' = insnIdx /\ localState' = localState /\ heapIdx' = heapIdx
    BY <1>3 DEF vars, engineVars
  <2>2. CallPlace' = CallPlace
    BY <2>1, CallPlaceIs, CallPlaceThen
  <2> QED
    BY <1>2, <2>1, <2>2, IdleKeepsPathInv
<1>4. ASSUME Next, executed' = executed \cup Consumed
      PROVE  PathInv'
  <2>1. CASE CallReturns
    BY <1>2, <1>4, <2>1, CallKeepsPathInv
  <2>2. ASSUME pc # "wait", Consumed = {}, pc' # "wait"
        PROVE  PathInv'
    <3>1. CallPlace' = {}
      BY <2>2, CallPlaceThen
    <3> QED
      BY <1>2, <1>4, <2>2, <3>1, IdleKeepsPathInv
  <2>3. CASE GetNext \/ Complete \/ UpdatesDone \/ EndOfInsn \/ CallResultsDone
             \/ ScheduleTarget \/ CallResultJoined
    <3>1. pc # "wait" /\ ~AtHeap /\ pc' # "wait"
      BY <2>3 DEF GetNext, Complete, UpdatesDone, EndOfInsn, CallResultsDone, AtHeap,
           ScheduleTarget, CallResultJoined, EngineInv, EngineTypeOK
    <3> QED
      BY <2>2, <3>1, NothingConsumed
  <2>4. CASE UpdateState \/ JoinCallResult \/ Terminated
    <3>1. pc \notin {"wait", "insn"} /\ pc' = pc
      BY <2>4 DEF UpdateState, JoinCallResult, Terminated, engineVars
    <3> QED
      BY <2>2, <3>1, NothingConsumed DEF AtHeap
  <2>5. CASE Pack
    <3>1. pc \notin {"wait", "insn"} /\ pc' = pc
      BY <2>5 DEF Pack, PackStep, PackDone, engineVars, EngineInv, InsertInv
    <3> QED
      BY <2>2, <3>1, NothingConsumed DEF AtHeap
  <2>6. CASE SkipDone
    <3>1. pc = "insn" /\ AtHeap /\ insnIdx = 1 /\ cont[block].done[heapIdx] /\ pc' = "insn"
      BY <2>6 DEF SkipDone, AtHeap
    <3> QED
      BY <2>2, <3>1, ConsumedAtHeap
  <2>7. ASSUME TakeHeap PROVE TheHeap[3] = CurHeap /\ InsnAt(TheHeap) = CurInsn
                              /\ (Exited(TheHeap) <=> CurHeap \in ExitHeap /\ CurInsn.code # "cmp")
    BY <2>7, TheHeapFacts DEF TheHeap, TakeHeap
  <2>8. CASE LookAheadCond
    <3>1. TakeHeap /\ CurInsn.code = "cmp" /\ heapIdx' = heapIdx + 1
      BY <2>8 DEF LookAheadCond
    <3> QED
      BY <1>2, <1>4, <2>7, <3>1, TakeKeepsPathInv DEF Ends
  <2>9. CASE HandleExitPoint \/ ExecReturn \/ ExecAbort
    <3>1. TakeHeap /\ heapIdx' = heapIdx + 1 /\ endReached'
      BY <2>9 DEF HandleExitPoint, ExecReturn, ExecAbort, Executes
    <3> QED
      BY <1>2, <1>4, <3>1, TakeKeepsPathInv
  <2>10. CASE ExecNontermInsn
    <3>1. /\ TakeHeap /\ heapIdx' = heapIdx + 1 /\ CurInsn.code = "op" /\ CurHeap \notin ExitHeap
          /\ <<CurInsn.fns[1], CurHeap>> \in Fatal => endReached'
      BY <2>10 DEF ExecNontermInsn, Executes
    <3> QED
      BY <1>2, <1>4, <2>7, <3>1, TakeKeepsPathInv DEF Ends
  <2>11. CASE SuspendForCall
    <3>1. /\ TakeHeap /\ heapIdx' = heapIdx + 1 /\ CurInsn.code = "call" /\ CurHeap \notin ExitHeap
      BY <2>11 DEF SuspendForCall, Executes
    <3> QED
      BY <1>2, <1>4, <2>7, <3>1, TakeKeepsPathInv DEF Ends
  <2>12. CASE ExecJump \/ ExecCondInsn
    <3>1. /\ TakeHeap /\ pc' = "emit" /\ CurInsn.code \in {"jmp", "cond"}
          /\ CurHeap \notin ExitHeap
      BY <2>12 DEF ExecJump, ExecCondInsn, Executes
    <3> QED
      BY <1>2, <1>4, <2>7, <3>1, TakeKeepsPathInv DEF Ends
  <2> QED
    BY <1>4, <2>1, <2>3, <2>4, <2>5, <2>6, <2>8, <2>9, <2>10, <2>11, <2>12 DEF Next
<1> QED
  BY <1>3, <1>4 DEF HistNext

-------------------------------------------------------------------------------
(* Paths, by induction on their length. *)

(* A set of numbers has a least element: the numbers are well-founded. *)
LEMMA LeastNumber ==
  ASSUME NEW T \in SUBSET Nat, T # {}
  PROVE  \E n \in T : \A m \in T : n <= m
<1> DEFINE R == OpToRel(<, Nat)
<1>1. IsWellFoundedOn(R, Nat)
  BY NatLessThanWellFounded, Zenon
<1>2. \A m, n \in Nat : m < n => <<m, n>> \in R
  BY DEF OpToRel
<1> HIDE DEF R
<1>3. PICK n \in T : \A m \in T : ~(<<m, n>> \in R)
  BY <1>1, WFMin
<1>4. n \in Nat /\ \A m \in T : m \in Nat /\ ~(m < n)
  BY <1>2, <1>3
<1> QED
  BY <1>4

LEMMA Induction ==
  ASSUME NEW S, 0 \in S, \A n \in Nat : n \in S => n + 1 \in S
  PROVE  Nat \subseteq S
<1> SUFFICES ASSUME Nat \ S # {} PROVE FALSE
  OBVIOUS
<1>1. PICK n \in Nat \ S : \A m \in Nat \ S : n <= m
  BY LeastNumber
<1>2. n # 0 /\ n - 1 \in Nat
  BY <1>1
<1>3. n - 1 \in S
  BY <1>1, <1>2
<1> QED
  BY <1>1, <1>2, <1>3

(* One more instruction on every path. *)
OneMore(places) == places \cup UNION {Successors(p) : p \in places}

(* The function g is what the definition of ReachedIn asks for, up to m. *)
IsReachedIn(g, m) ==
  g = [n \in 0..m |-> IF n = 0 THEN {<<prog.entry, 1, entry>>} ELSE OneMore(g[n - 1])]

LEMMA ReachedInExists == \E g : IsReachedIn(g, MaxPath)
<1> DEFINE first == {<<prog.entry, 1, entry>>}
           S == {m \in Nat : \E g : IsReachedIn(g, m)}
<1>1. 0 \in S
  <2> DEFINE g == [n \in 0..0 |-> first]
  <2>1. g = [n \in 0..0 |-> IF n = 0 THEN first ELSE OneMore(g[n - 1])]
    OBVIOUS
  <2> QED
    BY <2>1 DEF IsReachedIn
<1>2. ASSUME NEW m \in Nat, m \in S PROVE m + 1 \in S
  <2>1. PICK g : IsReachedIn(g, m)
    BY <1>2
  <2> DEFINE h == [n \in 0..(m + 1) |-> IF n = m + 1 THEN OneMore(g[m]) ELSE g[n]]
             k == [n \in 0..(m + 1) |-> IF n = 0 THEN first ELSE OneMore(h[n - 1])]
  <2>2. \A n \in 0..m : g[n] = IF n = 0 THEN first ELSE OneMore(g[n - 1])
    BY <2>1 DEF IsReachedIn
  <2>3. ASSUME NEW n \in 0..(m + 1) PROVE h[n] = k[n]
    <3>1. CASE n = 0
      BY <2>2, <3>1
    <3>2. CASE n = m + 1
      BY <3>2
    <3>3. CASE n # 0 /\ n # m + 1
      <4>1. n \in 0..m /\ n - 1 \in 0..m /\ n - 1 # m + 1 /\ n - 1 \in 0..(m + 1)
        BY <3>3
      <4>2. h[n] = g[n] /\ h[n - 1] = g[n - 1]
        BY <4>1, <3>3
      <4> QED
        BY <2>2, <3>3, <4>1, <4>2
    <3> QED
      BY <3>1, <3>2, <3>3
  <2>4. h = k
    BY <2>3
  <2>5. IsReachedIn(h, m + 1)
    BY <2>4 DEF IsReachedIn
  <2> QED
    BY <2>5
<1> HIDE DEF S
<1>3. Nat \subseteq S
  BY <1>1, <1>2, Induction
<1> QED
  BY <1>3, MaxPathAssumption DEF S

LEMMA ReachedInIs ==
  \A n \in 0..MaxPath :
     ReachedIn[n] = IF n = 0 THEN {<<prog.entry, 1, entry>>} ELSE OneMore(ReachedIn[n - 1])
<1>1. IsReachedIn(ReachedIn, MaxPath)
  <2>1. PICK g : IsReachedIn(g, MaxPath)
    BY ReachedInExists
  <2> QED
    BY <2>1 DEF ReachedIn, IsReachedIn, OneMore
<1> QED
  BY <1>1 DEF IsReachedIn

(* No path leaves a set that no instruction leaves. *)
LEMMA PathsStayIn ==
  ASSUME NEW C, <<prog.entry, 1, entry>> \in C, \A p \in C : Successors(p) \subseteq C
  PROVE  Reachable \subseteq C
<1> DEFINE S == {n \in Nat : n <= MaxPath => ReachedIn[n] \subseteq C}
<1>1. 0 \in S
  BY ReachedInIs, MaxPathAssumption
<1>2. ASSUME NEW n \in Nat, n \in S PROVE n + 1 \in S
  <2> SUFFICES ASSUME n + 1 <= MaxPath PROVE ReachedIn[n + 1] \subseteq C
    OBVIOUS
  <2>1. n \in 0..MaxPath /\ n + 1 \in 0..MaxPath /\ n + 1 # 0 /\ (n + 1) - 1 = n
    BY MaxPathAssumption
  <2>2. ReachedIn[n] \subseteq C
    BY <1>2, <2>1
  <2>3. ReachedIn[n + 1] = OneMore(ReachedIn[n])
    BY <2>1, ReachedInIs
  <2> QED
    BY <2>2, <2>3 DEF OneMore
<1> HIDE DEF S
<1>3. Nat \subseteq S
  BY <1>1, <1>2, Induction
<1> QED
  BY <1>3, MaxPathAssumption DEF S, Reachable

-------------------------------------------------------------------------------
(* What is proved of WorkSet holds of the engine. *)

WorkSetOf == INSTANCE WorkSetProofs WITH
  Result <- Heap,
  Above  <- PlaceCovers,
  start  <- <<prog.entry, 1, entry>>,
  succ   <- Succ,
  yields <- Yields,
  work   <- Waiting,
  done   <- executed,
  out    <- Elements(results)

LEMMA SameInit == Abs!AboveIsPreorder /\ Abs!WorkInit => WorkSetOf!WorkInv
<1>1. Abs!AboveIsPreorder => WorkSetOf!AboveIsPreorder
  BY DEF Abs!AboveIsPreorder, WorkSetOf!AboveIsPreorder
<1>2. Abs!WorkInit => WorkSetOf!WorkInit
  BY DEF Abs!WorkInit, WorkSetOf!WorkInit, Abs!Flow, WorkSetOf!Flow, Abs!Monotone,
         WorkSetOf!Monotone, Abs!Covered, WorkSetOf!Covered, Succ, Yields
<1> QED
  BY <1>1, <1>2, WorkSetOf!WorkInitInv

LEMMA SameNext ==
  ASSUME WorkSetOf!WorkInv, [Abs!WorkNext]_(Abs!wvars)
  PROVE  WorkSetOf!WorkInv'
<1>1. Abs!WorkNext => WorkSetOf!WorkNext
  BY Zenon DEF Abs!WorkNext, WorkSetOf!WorkNext, Abs!Execute, WorkSetOf!Execute,
         Abs!Rearrange, WorkSetOf!Rearrange, Abs!Replaced, WorkSetOf!Replaced, Abs!Keeps,
         WorkSetOf!Keeps, Abs!Stems, WorkSetOf!Stems, Abs!Covered, WorkSetOf!Covered,
         Succ, Yields
<1>2. Abs!wvars = WorkSetOf!wvars /\ (Abs!wvars)' = (WorkSetOf!wvars)'
  BY DEF Abs!wvars, WorkSetOf!wvars, Succ, Yields
<1> QED
  BY <1>1, <1>2, WorkSetOf!WorkStepInv

(* All that holds between the steps of the engine. *)
SoundInv == EngineInv /\ RefInv /\ PathInv /\ FinishedInv /\ WorkSetOf!WorkInv

LEMMA SoundInvInit == HistInit => SoundInv
BY EngineInvInit, RefInvInit, PathInvInit, FinishedInit, PlacesAreOrdered, InitRefines, SameInit
   DEF HistInit, SoundInv

LEMMA SoundInvNext ==
  ASSUME NoSelfJump, SoundInv, [HistNext]_<<vars, executed>>
  PROVE  SoundInv'
<1>1. EngineInv' /\ RefInv' /\ [Abs!WorkNext]_(Abs!wvars)
  BY RefStep DEF SoundInv
<1>2. PathInv'
  BY <1>1, PathInvNext DEF SoundInv
<1>3. [Next]_vars
  BY DEF HistNext
<1>4. FinishedInv'
  BY <1>3, FinishedStep DEF SoundInv
<1>5. WorkSetOf!WorkInv'
  BY <1>1, SameNext DEF SoundInv
<1> QED
  BY <1>1, <1>2, <1>4, <1>5 DEF SoundInv

(***************************************************************************)
(* When run() has returned nothing waits, so that every place on a path is *)
(* covered by one that has been executed.                                  *)
(***************************************************************************)
LEMMA PathsAreExecuted ==
  ASSUME SoundInv, pc = "done", NEW p \in Reachable
  PROVE  /\ p \in Place /\ IsPlace(p)
         /\ \E q \in executed : <<q, p>> \in PlaceCovers /\ Yields[q] \subseteq Elements(results)
<1> DEFINE start == <<prog.entry, 1, entry>>
           C == {z \in Place : IsPlace(z)}
<1>1. prog \in Programs /\ prog.entry \in Block /\ entry \in Heap
  BY ControlFlowAssumption DEF SoundInv, EngineInv, EngineTypeOK
<1>2. start \in C
  BY <1>1, FirstIsPlace
<1>3. ASSUME NEW z \in C PROVE Successors(z) \subseteq C /\ Succ[z] = Successors(z)
  <2>1. z[1] \in Block /\ z[2] \in 1..Len(Insns(z[1])) /\ z[3] \in Heap /\ z = <<z[1], z[2], z[3]>>
    BY <1>1, PlaceFacts, InsnFacts DEF IsPlace
  <2>2. Successors(z) \subseteq Place /\ \A t \in Successors(z) : IsPlace(t)
    BY <1>1, <2>1, SuccessorsType
  <2> QED
    BY <2>2 DEF Succ
<1>4. p \in C
  <2> HIDE DEF C
  <2> QED
    BY <1>2, <1>3, PathsStayIn
<1>5. Waiting = {}
  <2>1. \A b \in Block : PendingHeaps(cont[b]) = {}
    BY NothingPending DEF SoundInv
  <2> QED
    BY <2>1 DEF Waiting, BlockPlaces, Busy
<1>6. WorkSetOf!OnPath(p)
  <2> SUFFICES ASSUME NEW places \in SUBSET Place, WorkSetOf!Closed(places)
               PROVE  p \in places
    BY DEF WorkSetOf!OnPath
  <2> DEFINE D == places \cap C
  <2>1. start \in D
    BY <1>2 DEF WorkSetOf!Closed
  <2>2. \A z \in D : Successors(z) \subseteq D
    BY <1>3 DEF WorkSetOf!Closed
  <2> HIDE DEF D
  <2>3. p \in D
    BY <2>1, <2>2, PathsStayIn
  <2> QED
    BY <2>3 DEF D
<1>7. WorkSetOf!Sound
  BY WorkSetOf!WorkInvSound DEF SoundInv
<1> QED
  BY <1>4, <1>5, <1>6, <1>7 DEF WorkSetOf!Sound

(* The results at a place cover the results at the places it covers. *)
LEMMA YieldIsMonotone ==
  ASSUME prog \in Programs, NEW b \in Block, NEW i \in 1..Len(Insns(b)),
         NEW a \in Heap, NEW h \in Heap, <<a, h>> \in Covers, NEW s \in Yield(<<b, i, h>>)
  PROVE  CoveredBy(s, Yield(<<b, i, a>>))
<1> DEFINE insn == Insns(b)[i]
           x == <<b, i, a>>
           y == <<b, i, h>>
<1>1. /\ InsnAt(x) = insn /\ InsnAt(y) = insn /\ x[3] = a /\ y[3] = h
  BY DEF InsnAt
<1>2. a \in ExitHeap <=> h \in ExitHeap
  BY SymJoinAssumption
<1>3. Exited(x) <=> Exited(y)
  BY <1>1, <1>2 DEF Exited
<1> HIDE DEF x, y, insn
<1>4. s \in Yield(y)
  BY DEF y
<1> SUFFICES CoveredBy(s, Yield(x))
  BY DEF x
<1>5. CASE Exited(y)
  <2>1. Yield(x) = {Destroy[a]} /\ s = Destroy[h] /\ a \in ExitHeap /\ h \in ExitHeap
    BY <1>1, <1>2, <1>3, <1>4, <1>5 DEF Yield, Exited
  <2> QED
    BY <2>1, EndIsMonotone DEF CoveredBy
<1>6. CASE ~Exited(y) /\ insn.code = "ret"
  <2>1. insn.fns[1] \in Fn
    BY <1>6, InsnFacts DEF insn
  <2>2. Yield(x) = Elements(Post[insn.fns[1]][a]) /\ s \in Elements(Post[insn.fns[1]][h])
    BY <1>1, <1>3, <1>4, <1>6 DEF Yield
  <2> QED
    BY <2>1, <2>2, PostIsMonotone
<1>7. CASE ~Exited(y) /\ insn.code = "abort" /\ conf.exitLeaks
  <2>1. Yield(x) = {Destroy[SetExit[a]]} /\ s = Destroy[SetExit[h]]
    BY <1>1, <1>3, <1>4, <1>7 DEF Yield
  <2>2. /\ SetExit[a] \in ExitHeap /\ SetExit[h] \in ExitHeap
        /\ <<SetExit[a], SetExit[h]>> \in Covers
    BY EngineAssumption, EndIsMonotone
  <2> QED
    BY <2>1, <2>2, EndIsMonotone DEF CoveredBy
<1>8. CASE ~Exited(y) /\ insn.code # "ret" /\ ~(insn.code = "abort" /\ conf.exitLeaks)
  BY <1>1, <1>4, <1>8 DEF Yield
<1> QED
  BY <1>5, <1>6, <1>7, <1>8

(* An instruction that ends the function ends it for every heap above. *)
LEMMA EndsIsMonotone ==
  ASSUME prog \in Programs, NEW b \in Block, NEW i \in 1..Len(Insns(b)),
         NEW a \in Heap, NEW h \in Heap, <<a, h>> \in Covers, Ends(<<b, i, h>>)
  PROVE  Ends(<<b, i, a>>)
<1> DEFINE insn == Insns(b)[i]
<1>1. a \in ExitHeap <=> h \in ExitHeap
  BY SymJoinAssumption
<1>2. insn.code = "op" /\ <<insn.fns[1], h>> \in Fatal => <<insn.fns[1], a>> \in Fatal
  BY InsnFacts, EndIsMonotone
<1> QED
  BY <1>1, <1>2 DEF Ends, Exited, InsnAt

(* The place that was executed for a place on a path. *)
LEMMA ExecutedFor ==
  ASSUME SoundInv, pc = "done", NEW p \in Reachable
  PROVE  \E q \in executed :
            /\ prog \in Programs /\ p[1] \in Block /\ p[2] \in 1..Len(Insns(p[1]))
            /\ p[3] \in Heap /\ p = <<p[1], p[2], p[3]>>
            /\ q = <<p[1], p[2], q[3]>> /\ q[3] \in Heap /\ <<q[3], p[3]>> \in Covers
            /\ Yield(q) \subseteq Elements(results)
<1>1. p \in Place /\ IsPlace(p) /\ prog \in Programs
  BY PathsAreExecuted DEF SoundInv, EngineInv, EngineTypeOK
<1>2. PICK q \in executed : <<q, p>> \in PlaceCovers /\ Yields[q] \subseteq Elements(results)
  BY PathsAreExecuted
<1>3. q \in Place /\ IsPlace(q)
  BY DEF SoundInv, RefInv, PathInv
<1>4. Yields[q] = Yield(q)
  BY <1>3 DEF Yields
<1>5. q[1] = p[1] /\ q[2] = p[2] /\ <<q[3], p[3]>> \in Covers
  BY <1>2 DEF PlaceCovers
<1>6. /\ p[1] \in Block /\ p[2] \in Nat /\ p[2] > 0 /\ p[3] \in Heap /\ p = <<p[1], p[2], p[3]>>
      /\ q = <<q[1], q[2], q[3]>> /\ q[3] \in Heap
  BY <1>1, <1>3, PlaceFacts
<1>7. p[2] \in 1..Len(Insns(p[1]))
  BY <1>1, <1>6, InsnFacts DEF IsPlace
<1> QED
  BY <1>1, <1>2, <1>4, <1>5, <1>6, <1>7

(***************************************************************************)
(* CoversAllPaths: when run() returns, every heap that some path of any    *)
(* length brings to a block is covered by a heap processed there, and      *)
(* every result of a path by a result of the function, whatever the        *)
(* scheduler, the joins, the abstraction, the pruning and the calls did.   *)
(***************************************************************************)
THEOREM EngineIsSound ==
  ASSUME NoSelfJump
  PROVE  HistSpec => []CoversAllPaths
<1>1. SoundInv => CoversAllPaths
  <2> SUFFICES ASSUME SoundInv, pc = "done", NEW p \in Reachable
               PROVE  /\ p[2] = 1 => CoveredBy(p[3], processed[p[1]])
                      /\ \A sh \in Yield(p) : CoveredBy(sh, Elements(results))
    BY DEF CoversAllPaths, PathResults
  <2>1. PICK q \in executed :
            /\ prog \in Programs /\ p[1] \in Block /\ p[2] \in 1..Len(Insns(p[1]))
            /\ p[3] \in Heap /\ p = <<p[1], p[2], p[3]>>
            /\ q = <<p[1], p[2], q[3]>> /\ q[3] \in Heap /\ <<q[3], p[3]>> \in Covers
            /\ Yield(q) \subseteq Elements(results)
    BY ExecutedFor
  <2>2. ASSUME p[2] = 1 PROVE CoveredBy(p[3], processed[p[1]])
    <3>1. q[1] = p[1] /\ q[2] = 1
      BY <2>1, <2>2
    <3>2. q[3] \in processed[p[1]]
      BY <3>1 DEF SoundInv, PathInv
    <3> QED
      BY <2>1, <3>2 DEF CoveredBy
  <2>3. ASSUME NEW sh \in Yield(p) PROVE CoveredBy(sh, Elements(results))
    <3>1. CoveredBy(sh, Yield(<<p[1], p[2], q[3]>>))
      BY <2>1, YieldIsMonotone
    <3> QED
      BY <2>1, <3>1 DEF CoveredBy
  <2> QED
    BY <2>2, <2>3
<1>2. SoundInv /\ [HistNext]_<<vars, executed>> => SoundInv'
  BY SoundInvNext
<1> QED
  BY <1>1, <1>2, SoundInvInit, PTL DEF HistSpec

(***************************************************************************)
(* EndNotReachedIsTrue: "end of function ... has not been reached" is only *)
(* said of a function none of whose paths, of any length, gets to its end. *)
(***************************************************************************)
THEOREM EndWarningIsTrue ==
  ASSUME NoSelfJump
  PROVE  HistSpec => []EndNotReachedIsTrue
<1>1. SoundInv => EndNotReachedIsTrue
  <2> SUFFICES ASSUME SoundInv, pc = "done", NEW p \in Reachable, Ends(p)
               PROVE  endReached
    BY DEF EndNotReachedIsTrue, Ends
  <2>1. PICK q \in executed :
            /\ prog \in Programs /\ p[1] \in Block /\ p[2] \in 1..Len(Insns(p[1]))
            /\ p[3] \in Heap /\ p = <<p[1], p[2], p[3]>>
            /\ q = <<p[1], p[2], q[3]>> /\ q[3] \in Heap /\ <<q[3], p[3]>> \in Covers
            /\ Yield(q) \subseteq Elements(results)
    BY ExecutedFor
  <2>2. Ends(<<p[1], p[2], q[3]>>)
    BY <2>1, EndsIsMonotone
  <2>3. Ends(q)
    BY <2>1, <2>2
  <2> QED
    BY <2>3 DEF SoundInv, PathInv
<1>2. SoundInv /\ [HistNext]_<<vars, executed>> => SoundInv'
  BY SoundInvNext
<1> QED
  BY <1>1, <1>2, SoundInvInit, PTL DEF HistSpec

===============================================================================
