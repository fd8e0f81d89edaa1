------------------------------ MODULE MCCallCache ------------------------------
(***************************************************************************)
(* Calls in programs of a root function and three others, with bodies from *)
(* small sets.                                                             *)
(***************************************************************************)
EXTENDS CallSemantics

SetG(g, v) == [op |-> "set", var |-> g, val |-> v]
Get(g) == [op |-> "get", var |-> g]
Addr(g) == [op |-> "addr", var |-> g]
Store(v) == [op |-> "store", val |-> v]
AnyVal == [op |-> "any"]
If(v, to) == [op |-> "if", val |-> v, to |-> to]
Call(f) == [op |-> "call", fnc |-> f]

MainBodies ==
  {<<Call("f"), Call("f")>>,
   <<SetG("g", "1"), Call("f"), SetG("g", "0"), Call("f")>>,
   <<Call("f"), SetG("g", "1"), Call("f"), Get("g")>>,
   <<AnyVal, Call("f"), Call("h"), Call("f")>>,
   <<Addr("g"), Call("f"), Call("h"), Get("g")>>,
   <<AnyVal, If("0", 4), SetG("k", "1"), Call("f"), Call("f")>>}

FBodies ==
  {<<Call("h")>>,
   <<Call("h"), Call("h")>>,
   <<If("0", 3), Call("h"), Call("u")>>,
   <<AnyVal, If("0", 4), Call("h"), Call("h")>>,
   <<Call("u"), Call("h"), Get("k")>>}

HBodies ==
  {<<Get("g")>>,
   <<SetG("g", "1"), Get("k")>>,
   <<Get("g"), If("1", 4), SetG("g", "1"), Get("k")>>,
   <<Get("g"), If("1", 4), Get("k"), SetG("k", "1")>>,
   <<Store("1")>>,
   <<Get("k"), If("1", 4), SetG("k", "1"), Get("g")>>}

MakeProgram(m, f, h, enabled, ordering) ==
  [main |-> "m", enabled |-> enabled, ordering |-> ordering,
   code |-> [x \in Fnc |-> CASE x = "m" -> m [] x = "f" -> f [] x = "h" -> h [] OTHER -> <<>>]]

MCPrograms ==
  {MakeProgram(m, f, h, c[1], c[2]) : m \in MainBodies, f \in FBodies, h \in HBodies,
                               c \in {<<TRUE, 1>>, <<TRUE, 2>>, <<FALSE, 1>>}}

(* Direct and mutual recursion, bounded and not *)
RecursiveMain == {<<AnyVal, Call("f"), Call("h")>>, <<Call("f"), SetG("g", "1"), Call("f")>>}
RecursiveF == {<<Get("g"), If("1", 5), SetG("g", "1"), Call("f")>>,
               <<If("0", 3), Call("f"), Get("g")>>, <<Get("g"), If("1", 4), Call("h")>>}
RecursiveH == {<<SetG("g", "1"), Call("f")>>, <<AnyVal, Call("f"), Call("u")>>}

RecursivePrograms ==
  {MakeProgram(m, f, h, c, 2) : m \in RecursiveMain, f \in RecursiveF, h \in RecursiveH,
                         c \in {TRUE, FALSE}}

AllPrograms == MCPrograms \cup RecursivePrograms
OneRecursive == {MakeProgram(<<AnyVal, Call("f"), Get("g")>>, <<If("0", 3), Call("f")>>, <<Get("g")>>, TRUE, 1)}

(* m calls f twice; below a, where the limit of the depth is met, without y. *)
CutOffCall ==
  {[main |-> "m", enabled |-> TRUE, ordering |-> 1,
    code |-> [x \in Fnc |-> CASE x = "m" -> <<Get("g"), Call("a"), Call("x"), Get("g"), Call("f")>>
                             [] x = "a" -> <<Call("f")>>
                             [] x = "f" -> <<Call("x")>>
                             [] x = "x" -> <<Get("g"), Call("y")>>
                             [] x = "y" -> <<Get("k")>>]]}
DisabledCache == {MakeProgram(<<Call("f")>>, <<Get("g")>>, <<>>, FALSE, 1)}

MCGlOrder == <<"g", "k">>

===============================================================================
