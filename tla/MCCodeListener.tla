----------------------------- MODULE MCCodeListener -----------------------------
(***************************************************************************)
(* Units of two functions: one of three blocks, the last of which ends the *)
(* function, and a short one.  Each kind of terminator meets each other.   *)
(***************************************************************************)
EXTENDS CodeListener

Term(kind, to, cases, edge) == [kind |-> kind, to |-> to, cases |-> cases, edge |-> edge]
Jump(kind, to) == Term(kind, to, <<>>, "none")
End(kind) == Jump(kind, <<>>)
Bbl(stmts, term) == [phis |-> <<>>, stmts |-> stmts, term |-> term]
Fnc(bbs) == [named |-> TRUE, hasCfg |-> TRUE, bbs |-> bbs]

(* Every edge of a switch has its own cases, one value or a range. *)
GccTerms ==
    {Jump("goto", <<i>>) : i \in 1 .. 3} \cup {Jump("cond", <<i, j>>) : i, j \in 1 .. 3}
    \cup {Term("switch", <<d>> \o t, cs, "none") :
             d \in 1 .. 3, cs \in {<<<<1, 1>>, <<3, 3>>>>, <<<<0, 1>>, <<2, 2>>>>}, t \in {<<2, 3>>, <<3, 3>>, <<1, 2>>}}
    \cup {End("ret"), End("noreturn"), Term("resx", <<>>, <<>>, "eh"), Term("noreturn", <<>>, <<>>, "eh"),
          Term("goto", <<3>>, <<>>, "eh"), Term("goto", <<3>>, <<>>, "abnormal")}
GccUnits ==
    {[adapter |-> "gcc", fncs |-> <<Fnc(<<Bbl(<<"assign", "call">>, s), Bbl(<<"label", "asm">>, t), Bbl(<<"label">>, u)>>), g>>] :
       s, t \in GccTerms, u \in {End("ret"), Term("goto", <<2>>, <<>>, "abnormal")},
       g \in {Fnc(<<Bbl(<<"label">>, Term("switch", <<1, 1>>, <<<<1, 2>>>>, "none"))>>),
              [named |-> TRUE, hasCfg |-> FALSE, bbs |-> <<>>]}}

(* The entry block of a function of LLVM has no predecessors. *)
LlvmTerms ==
    {Jump("goto", <<2>>), Jump("goto", <<3>>), Jump("cond", <<2, 3>>), Jump("cond", <<3, 2>>), Jump("cond", <<2, 2>>),
     End("ret"), End("unreachable"), End("unsupported")}
Phi(dst, s) == [dst |-> dst, src |-> s]
PhiLists == {<<>>, <<Phi("x", <<"c", "d">>)>>, <<Phi("x", <<"c", "x">>), Phi("y", <<"d", "c">>)>>}
LlvmFnc(s, t, stmts, phis2, phis3) ==
    Fnc(<<Bbl(stmts, s), [Bbl(<<"select", "assign">>, t) EXCEPT !.phis = phis2],
          [Bbl(<<"call">>, End("ret")) EXCEPT !.phis = phis3]>>)
Unnamed == [Fnc(<<Bbl(<<"call">>, End("ret"))>>) EXCEPT !.named = FALSE]
LlvmUnits(phiLists) ==
    {[adapter |-> "llvm", fncs |-> <<LlvmFnc(s, t, stmts, p, q), g>>] :
       s, t \in LlvmTerms, stmts \in {<<"call">>, <<"select", "select">>}, p, q \in phiLists,
       g \in {Fnc(<<Bbl(<<>>, End("ret"))>>), Unnamed}}
    \cup {[adapter |-> "llvm", fncs |-> <<Unnamed, LlvmFnc(s, t, <<"call">>, <<>>, <<>>)>>] : s, t \in LlvmTerms}

MCSources == GccUnits \cup LlvmUnits(PhiLists)

(* What the adapter is not right for; see the README. *)
SwapSources == LlvmUnits({<<Phi("x", <<"c", "y">>), Phi("y", <<"d", "x">>)>>})

===============================================================================
