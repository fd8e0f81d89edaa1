------------------------------ MODULE MCLoopScan ------------------------------
(***************************************************************************)
(* LoopScan on every control-flow graph of four blocks whose conditions    *)
(* have two different targets.                                             *)
(***************************************************************************)
EXTENDS LoopScan, TLC

Cmp == [code |-> "cmp", fns |-> <<>>, targets |-> <<>>]
Jmp(t) == [code |-> "jmp", fns |-> <<>>, targets |-> <<t>>]
Cond(t1, t2) == [code |-> "cond", fns |-> <<"f", "f">>, targets |-> <<t1, t2>>]
Ret == [code |-> "ret", fns |-> <<"f">>, targets |-> <<>>]

Bodies == {<<Ret>>} \cup {<<Jmp(t)>> : t \in Block}
                    \cup {<<Cmp, Cond(t[1], t[2])>> :
                             t \in {pair \in Block \X Block : pair[1] # pair[2]}}

MCPrograms ==
  {[entry |-> 1, insns |-> insns, closing |-> {}] :
      insns \in [Block -> Bodies]}

MCConfs == {[joinMode |-> 3, ordering |-> 1, forbidReplace |-> FALSE,
             exitLeaks |-> FALSE, schedKind |-> 2, pruneMode |-> 1,
             missThr |-> 8, totalThr |-> 128]}

===============================================================================
