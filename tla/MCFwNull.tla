------------------------------- MODULE MCFwNull -------------------------------
(* Functions of four blocks for FwNull: an entry, a branch on a pointer, one  *)
(* arm that joins the other or goes back to the branch, and the exit.         *)
EXTENDS FwNull

Insn(op, v) == [op |-> op, dst |-> v, src |-> v, neg |-> FALSE]
Cmp(v, neg) == [op |-> "cmp", dst |-> "c", src |-> v, neg |-> neg]
Copy == [op |-> "copy", dst |-> "p", src |-> "q", neg |-> FALSE]
Block(body, op, targets) ==
  [body |-> body, term |-> [op |-> op, var |-> "c", targets |-> targets]]

OnePtr == {"p"}
TwoPtrs == {"p", "q"}
MCConds == {"c", "r"}
Menu == {<<>>} \cup {<<Insn(op, "p")>> : op \in {"null", "addr", "load", "deref"}}
Pairs == Menu \cup {<<Insn(o1, "p"), Insn(o2, "p")>> : o1, o2 \in {"null", "addr", "deref"}}

(* first stands before the code of the entry; arm goes on at the given block. *)
Function(first, e, br, neg, arm, exit, next3) ==
  << Block(first \o e, "jmp", <<2>>),
     Block(br \o <<Cmp("p", neg)>>, "cond", <<3, 4>>),
     Block(arm, "jmp", <<next3>>),
     Block(exit, "ret", <<>>) >>

(* The entry calls some function first: r = call(). *)
Calls == {Function(<<Insn("call", "r")>>, e, br, neg, arm, exit, n) :
            e \in Menu, br \in {<<>>, <<Insn("ref", "p")>>, <<Insn("null", "p")>>, <<Insn("addr", "p")>>, <<Insn("deref", "p")>>},
            neg \in BOOLEAN, arm \in Pairs,
            exit \in {<<>>, <<Insn("deref", "p")>>},
            n \in {2, 4}}

(***************************************************************************)
(* A pointer that the function gets from its caller is tested on one of    *)
(* two paths: r = call(); if (r) { if (p) return; } *p;                    *)
(***************************************************************************)
SkippedTest == {<< [body |-> <<Insn("call", "r")>>,
                    term |-> [op |-> "cond", var |-> "r", targets |-> <<2, 4>>]],
                   Block(<<Cmp("p", FALSE)>>, "cond", <<3, 5>>),
                   Block(<<>>, "jmp", <<4>>),
                   Block(<<Insn("deref", "p")>>, "ret", <<>>),
                   Block(<<>>, "ret", <<>>) >>}

(* The entry does nothing with variables. *)
EmptyEntry == {Function(<<>>, <<>>, br, neg, <<>>, <<>>, 4) : br \in Menu, neg \in BOOLEAN}

(* One pointer is assigned to another one. *)
Copies == {Function(<<Insn("call", "r")>>, e, <<Copy>>, FALSE, <<Insn("deref", "p")>>, exit, 4) :
             e \in Menu, exit \in {<<>>, <<Insn("deref", "p")>>}}
================================================================================
