----------------------------- MODULE CallSemantics -----------------------------
(***************************************************************************)
(* What the calls of a program compute, without contexts, frames, imports  *)
(* or a cache: every function works on the whole memory.  The reference    *)
(* that CallCache is compared with.                                        *)
(***************************************************************************)
EXTENDS CallCache

Memory == [loc : Val, gl : [GlVar -> Val]]

RECURSIVE Exec(_, _, _)

(* The memories that the code of f may end in, from pc in memory m on. *)
Exec(f, pc, m) ==
  LET i == Code(f)[pc]
      then(new) == Exec(f, pc + 1, new)
  IN  IF pc > Len(Code(f)) THEN {m}
      ELSE CASE i.op = "set"   -> then([m EXCEPT !.gl[i.var] = i.val])
             [] i.op = "get"   -> then([m EXCEPT !.loc = m.gl[i.var]])
             [] i.op = "addr"  -> then([m EXCEPT !.loc = i.var])
             [] i.op = "any"   -> UNION {then([m EXCEPT !.loc = v]) : v \in {InitVal, Unknown}}
             [] i.op = "store" -> IF m.loc \in GlVar
                                  THEN then([m EXCEPT !.gl[m.loc] = i.val]) ELSE {}
             [] i.op = "if"    -> Exec(f, IF m.loc = i.val THEN i.to ELSE pc + 1, m)
             [] i.op = "call"  -> IF IsDefined(i.fnc)
                                  THEN UNION {then(r) : r \in Exec(i.fnc, 1, m)}
                                  ELSE then([m EXCEPT !.loc = Unknown])

InitMemory == [loc |-> InitVal, gl |-> [g \in GlVar |-> InitVal]]

(* A heap as a memory: what has not been touched has its initial value. *)
Whole(h) == [loc |-> h.loc, gl |-> h.gl @@ InitMemory.gl]

(***************************************************************************)
(* The analysis of a program without recursion ends with exactly the       *)
(* memories that the program may end in, whatever was cut off at calls,    *)
(* imported late or taken from the cache.                                  *)
(***************************************************************************)
ResultsAreExact ==
  Finished /\ complaints = {} =>
     {Whole(r) : r \in results} = Exec(prog.main, 1, InitMemory)

===============================================================================
