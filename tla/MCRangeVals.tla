------------------------------ MODULE MCRangeVals ------------------------------
(***************************************************************************)
(* Operands of the operations on integral ranges.                          *)
(***************************************************************************)
EXTENDS RangeVals, TLC

Rng(lo, hi) == [lo |-> lo, hi |-> hi, alignment |-> 1]
Nums(S) == {rngFromNum(n) : n \in S}

(* Operands for which the operations are meant: positive factors, masks    *)
(* that clear the lowest bits.                                             *)
MCOperand ==
    ("PLUS" :> Nums({-1, 2}) \cup {Rng(0, 1)}) @@ ("MINUS" :> Nums({1}) \cup {Rng(-1, 2)}) @@
    ("MULT" :> Nums({0, 2, 3})) @@ ("LSHIFT" :> Nums({1})) @@ ("RSHIFT" :> Nums({1})) @@
    ("TRUNC_DIV" :> Nums({-2, 3})) @@ ("TRUNC_MOD" :> Nums({3})) @@ ("BIT_AND" :> Nums({-2, 0})) @@
    ("MIN" :> {Rng(-2, 1)}) @@ ("MAX" :> {Rng(-2, 1)})
MCInputs == {-4, -1, 0, 1, 2, 3, 6}
MCLimits == Nums({-2, 0, 3}) \cup {Rng(-1, 2)}

MCTypes == {[bits |-> 2, unsigned |-> TRUE], [bits |-> 3, unsigned |-> FALSE]}

(* What the operations are not right for; see the README. *)
NegOperand == "MULT" :> Nums({-1})
MaskOperand == "BIT_AND" :> Nums({3})
MulOperand == "MULT" :> Nums({2})
ShiftOperand == "PLUS" :> Nums({1})

===============================================================================
