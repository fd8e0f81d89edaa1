------------------------------ MODULE MCVarKiller ------------------------------
(* Functions of four blocks for VarKiller.  Variables 1 and 2 hold data, 3 and *)
(* 5 are pointers, 4 is a variable of the caller that they may point to, 6 the *)
(* result of the comparison that the branch tests.                             *)
EXTENDS VarKiller

Insn(use, def, load, store, addr, copy) ==
  [use |-> use, def |-> def, load |-> load, store |-> store, addr |-> addr, copy |-> copy]
Use(v) == Insn({v}, 0, 0, 0, 0, 0)
Def(v) == Insn({}, v, 0, 0, 0, 0)
Move(v, w) == Insn({w}, v, 0, 0, 0, 0)
Addr(p, v) == Insn({v}, p, 0, 0, v, 0)
Copy(p, q) == Insn({q}, p, 0, 0, 0, q)
Load(v, p) == Insn({}, v, p, 0, 0, 0)
Store(p, v) == Insn({v}, 0, 0, p, 0, 0)
Block(body, targets) == [body |-> body, targets |-> targets, abort |-> FALSE]

(* The third block goes on at the block back, or aborts if there is none. *)
Third(body, back) ==
  IF back = 0 THEN [body |-> body, targets |-> <<>>, abort |-> TRUE]
  ELSE Block(body, <<back>>)

(* The second block ends with a test of the variable c. *)
Function(c, b1, b2, b3, b4, back, alias, params) ==
  [alias |-> alias, params |-> params,
   cfg |-> <<Block(b1, <<2>>), Block(b2 \o <<Def(c), Use(c)>>, <<3, 4>>), Third(b3, back),
             Block(b4, <<>>)>>]

Starts == {<<Def(1), Def(2)>>, <<Def(1), Addr(3, 1)>>, <<Def(1), Addr(3, 1), Def(2)>>,
           <<Def(1), Addr(3, 1), Copy(5, 3)>>}
Bodies == {<<>>, <<Use(1)>>, <<Move(2, 1)>>, <<Def(1)>>, <<Load(2, 3)>>, <<Move(1, 1), Use(2)>>,
           <<Load(2, 5)>>}
Locals == {Function(6, b1, b2, b3, b4, back, <<>>, {}) :
             b1 \in Starts, b2 \in Bodies, b3 \in Bodies, b4 \in Bodies, back \in {0, 2, 4}}

(* 3 is a parameter that points to the variable 4 of the caller, 5 its copy. *)
ByPointer == {<<>>, <<Load(2, 3)>>, <<Store(3, 1)>>, <<Use(1)>>, <<Copy(5, 3)>>, <<Load(2, 5)>>,
              <<Store(5, 1)>>}
Params == {Function(6, <<Def(1)>>, b2, b3, b4, back, [v \in {3, 5} |-> 4], {3}) :
             b2 \in ByPointer, b3 \in ByPointer, b4 \in ByPointer, back \in {0, 2, 4}}

MCPrograms == Locals \cup Params

(* A variable is read at one target only, and its uid is above that of the test. *)
OneSided == {Function(1, <<Def(2)>>, <<>>, <<Use(2)>>, <<>>, 4, <<>>, {})}
================================================================================
