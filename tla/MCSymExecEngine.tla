---------------------------- MODULE MCSymExecEngine ----------------------------
(***************************************************************************)
(* SymExecEngine on small functions over lists, for many configurations.   *)
(***************************************************************************)
EXTENDS PathSemantics, ListHeaps

MCCovers == ListCoversIn(ListHeap)
MCThreeWay == ListThreeWayIn(ListHeap)
MCForced == ListForcedIn(ListHeap)
MCSetExit == [sh \in ListHeap |-> "x"]
MCDestroy == [sh \in ListExitHeap |-> "x"]

MCFn == {"id", "append", "next", "null", "notnull", "build", "lists", "exit", "none"}

Longer == ("n" :> "l1") @@ ("l1" :> "l2") @@ ("l2" :> "l3") @@ ("l3" :> "p2") @@
          ("p0" :> "p1") @@ ("p1" :> "p2") @@ ("p2" :> "p2")
Rest == ("n" :> <<>>) @@ ("l1" :> <<"n">>) @@ ("l2" :> <<"l1">>) @@
        ("l3" :> <<"l2">>) @@ ("p0" :> <<"n", "p1">>) @@ ("p1" :> <<"n", "p1">>) @@
        ("p2" :> <<"p1">>)
NonEmpty == ("n" :> <<>>) @@ ("p0" :> <<"p1">>)

(* What an instruction does to a heap; "x" is handled before it gets here. *)
Yields(f, sh) ==
  CASE sh = "x"      -> <<"x">>
    [] f = "append"  /\ sh # "x" -> <<Longer[sh]>>
    [] f = "next"    /\ sh # "x" -> Rest[sh]
    [] f = "null"    /\ sh # "x" -> IF 0 \in Lengths[sh] THEN <<"n">> ELSE <<>>
    [] f = "notnull" /\ sh # "x" -> IF sh \in DOMAIN NonEmpty THEN NonEmpty[sh]
                                                              ELSE <<sh>>
    [] f = "build"   /\ sh # "x" -> <<"n", "l1", "l2", "p2">>
    [] f = "lists"   /\ sh # "x" -> <<"n", "l1", "l2", "l3">>
    [] f = "exit"    /\ sh # "x" -> <<"x">>
    [] f = "none"    /\ sh # "x" -> <<>>
    [] OTHER -> <<sh>>

MCPost == [f \in MCFn |-> [sh \in ListHeap |-> Yields(f, sh)]]
MCFatal == {"next"} \X {"n", "p0"}

-------------------------------------------------------------------------------
Insn1(code, f) == [code |-> code, fns |-> <<f>>, targets |-> <<>>]
Op(f) == Insn1("op", f)
Call(f) == Insn1("call", f)
Ret == Insn1("ret", "id")
Abort == [code |-> "abort", fns |-> <<>>, targets |-> <<>>]
Jmp(t) == [code |-> "jmp", fns |-> <<>>, targets |-> <<t>>]
Cmp == [code |-> "cmp", fns |-> <<>>, targets |-> <<>>]
Cond(f1, t1, f2, t2) == [code |-> "cond", fns |-> <<f1, f2>>, targets |-> <<t1, t2>>]
Either(t1, t2) == Cond("id", t1, "id", t2)
IfNull(t1, t2) == Cond("null", t1, "notnull", t2)

Function(closing, insns) == [entry |-> 1, closing |-> closing, insns |-> insns]
Unused == <<Ret>>

(* while (...) append(); *)
BuildLoop == Function({<<3, 2>>},
  << <<Op("id"), Jmp(2)>>, <<Cmp, Either(3, 4)>>, <<Op("append"), Jmp(2)>>,
     <<Ret>>, Unused >>)

(* while (list) list = list->next; *)
WalkLoop == Function({<<3, 2>>},
  << <<Jmp(2)>>, <<Cmp, IfNull(4, 3)>>, <<Op("next"), Jmp(2)>>,
     <<Jmp(5)>>, <<Ret>> >>)

(* A loop whose body is a loop of one block. *)
NestedLoop == Function({<<3, 3>>, <<4, 2>>},
  << <<Jmp(2)>>, <<Cmp, Either(3, 5)>>, <<Op("append"), Cmp, Either(3, 4)>>,
     <<Op("next"), Jmp(2)>>, <<Ret>> >>)

(* A goto into a loop: either of the two edges may count as loop-closing. *)
GotoLoop(closing) == Function(closing,
  << <<Cmp, Either(2, 3)>>, <<Op("append"), Jmp(3)>>, <<Op("id"), Cmp, Either(2, 4)>>,
     <<Ret>>, Unused >>)

(* exit() before a condition, abort() on the other branch. *)
ExitPaths == Function({},
  << <<Cmp, IfNull(2, 3)>>, <<Op("exit"), Cmp, Either(4, 5)>>, <<Abort>>,
     <<Jmp(5)>>, <<Ret>> >>)

(* Calls in a loop: of a function with many results and of one with none. *)
CallLoop == Function({<<2, 2>>, <<4, 2>>},
  << <<Op("id"), Jmp(2)>>, <<Call("build"), Cmp, Either(2, 3)>>,
     <<Call("build"), Cmp, IfNull(4, 5)>>, <<Call("append"), Jmp(2)>>,
     <<Call("none"), Ret>> >>)

(* Three ways to the same block: enough heaps to reach the thresholds. *)
Diamond == Function({<<5, 1>>},
  << <<Cmp, Either(2, 3)>>, <<Call("build"), Jmp(4)>>, <<Op("append"), Jmp(4)>>,
     <<Op("id"), Cmp, Either(5, 5)>>, <<Op("next"), Cmp, Either(1, 1)>> >>)

MCPrograms ==
  {BuildLoop, WalkLoop, NestedLoop, GotoLoop({<<3, 2>>}), GotoLoop({<<2, 3>>}),
   ExitPaths, CallLoop, Diamond}

(* All control flow over three blocks with these bodies, with any set of   *)
(* loop-closing edges that LoopScan may come up with (see the properties   *)
(* of that module): it closes all loops, none of it is needless, and there *)
(* is another edge to the block that the loop starts with.                 *)
Free == {2, 3, 4}

Bodies(b) ==
  LET t == Free \cup {5} IN
  {<<Op("append"), Jmp(x)>> : x \in t} \cup {<<Jmp(x)>> : x \in t \ {b}}
  \cup {<<Cmp, Either(p[1], p[2])>> : p \in {p \in t \X t : p[1] < p[2]}}

Edges(insns) ==
  UNION {{<<b, t>> : t \in Elements(insns[b][Len(insns[b])].targets)} : b \in Block}

ClosesLoops(edges, closing) ==
  \A blocks \in SUBSET Free : blocks # {} =>
     \E b \in blocks : \A t \in blocks : <<b, t>> \in edges => <<b, t>> \in closing

LoopClosingSets(edges) ==
  {c \in SUBSET (edges \cap (Free \X Free)) :
     /\ ClosesLoops(edges, c)
     /\ \A e \in c : /\ ~ClosesLoops(edges, c \ {e})
                     /\ \E f \in edges : f[2] = e[2] /\ f # e}

GeneratedPrograms ==
  LET code == {<< <<Op("id"), Jmp(2)>>, b2, b3, b4, <<Ret>> >> :
                  b2 \in Bodies(2), b3 \in Bodies(3), b4 \in Bodies(4)}
  IN  UNION {{Function(closing, insns) : closing \in LoopClosingSets(Edges(insns))}
               : insns \in code}

(* for (;;); after a call: the block is entered by its own jump. *)
SelfJump == Function({<<2, 2>>},
  << <<Call("lists"), Jmp(2)>>, <<Jmp(2)>>, Unused, Unused, Unused >>)

SelfJumpPrograms == {SelfJump}

(* for (;;) { if (!list) break; list = list->next; } at the very beginning. *)
EntryLoop == Function({<<2, 1>>},
  << <<Cmp, IfNull(3, 2)>>, <<Op("next"), Jmp(1)>>, <<Ret>>, Unused, Unused >>)

EntryLoopPrograms == {EntryLoop}

-------------------------------------------------------------------------------
Default == [joinMode |-> 3, ordering |-> 1, forbidReplace |-> FALSE,
            exitLeaks |-> FALSE, schedKind |-> 2, pruneMode |-> 1,
            missThr |-> 8, totalThr |-> 128]

(* The default, and what differs from it in one or two respects. *)
MCConfs ==
  {[Default EXCEPT !.joinMode = j, !.ordering = o] : j \in -1..3, o \in 0..2}
  \cup {[Default EXCEPT !.joinMode = j, !.schedKind = k] : j \in {0, 3}, k \in 0..3}
  \cup {[Default EXCEPT !.pruneMode = m, !.missThr = t[1], !.totalThr = t[2]] :
           m \in 0..3, t \in {<<2, 128>>, <<0, 3>>, <<0, 0>>}}
  \cup {[Default EXCEPT !.joinMode = j, !.forbidReplace = TRUE] : j \in 0..3}
  \cup {[Default EXCEPT !.exitLeaks = TRUE]}
DefaultConf == {Default}

GeneratedConfs ==
  {Default,
   [Default EXCEPT !.pruneMode = 3, !.missThr = 2, !.totalThr = 3, !.schedKind = 1]}

===============================================================================
