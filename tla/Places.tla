-------------------------------- MODULE Places --------------------------------
(***************************************************************************)
(* The places of a function, heaps in front of instructions, and what one  *)
(* instruction does to a single place, with no join, abstraction, pruning  *)
(* or schedule.                                                            *)
(***************************************************************************)
EXTENDS SymExecEngine

Elements(seq) == {seq[i] : i \in 1..Len(seq)}

(* A place is a heap in front of an instruction, <<block, index, heap>>. *)
InsnAt(place) == Insns(place[1])[place[2]]

Exited(place) == place[3] \in ExitHeap /\ InsnAt(place).code # "cmp"

Successors(place) ==
  LET b == place[1]  i == place[2]  sh == place[3]  insn == InsnAt(place) IN
  IF Exited(place) THEN {}
  ELSE CASE insn.code \in {"op", "call"} ->
              {<<b, i + 1, s>> : s \in Elements(Post[insn.fns[1]][sh])}
         [] insn.code = "cmp" -> {<<b, i + 1, sh>>}
         [] insn.code = "jmp" -> {<<insn.targets[1], 1, sh>>}
         [] insn.code = "cond" ->
              UNION {{<<insn.targets[t], 1, s>> : s \in Elements(Post[insn.fns[t]][sh])}
                       : t \in {1, 2}}
         [] insn.code \in {"ret", "abort"} -> {}

(* The results of the function that the instruction at a place yields. *)
Yield(p) ==
  IF Exited(p) THEN {Destroy[p[3]]}
  ELSE CASE InsnAt(p).code = "ret" -> Elements(Post[InsnAt(p).fns[1]][p[3]])
         [] InsnAt(p).code = "abort" /\ conf.exitLeaks -> {Destroy[SetExit[p[3]]]}
         [] OTHER -> {}

(***************************************************************************)
(* The transfer functions are monotone: for a heap that covers another one *)
(* an instruction yields heaps that cover those it yields for the other.   *)
(***************************************************************************)
ASSUME PostIsMonotone ==
  \A f \in Fn, a, b \in Heap :
     <<a, b>> \in Covers =>
        \A s \in Elements(Post[f][b]) : CoveredBy(s, Elements(Post[f][a]))

(***************************************************************************)
(* So are destroyProgVars() and setExitPoint(), and an instruction that    *)
(* fails fatally for a heap fails for a heap that covers it.               *)
(***************************************************************************)
ASSUME EndIsMonotone ==
  /\ \A a, b \in ExitHeap :
        <<a, b>> \in Covers => <<Destroy[a], Destroy[b]>> \in Covers
  /\ \A a, b \in Heap :
        <<a, b>> \in Covers => <<SetExit[a], SetExit[b]>> \in Covers
  /\ \A f \in Fn, a, b \in Heap :
        <<a, b>> \in Covers /\ <<f, b>> \in Fatal => <<f, a>> \in Fatal

===============================================================================
