------------------------------- MODULE MCSymCut -------------------------------
(* Instances of SymCut: a heap of two variables and two objects, and one    *)
(* where a variable may have a dead and a live instance.                    *)
EXTENDS SymCut

CONSTANTS cvP, cvQ, cvX

MCObjects == <<cvP, cvQ, Anon, Anon>>
MCAddrs == {<<2, 0>>, <<3, 0>>, <<4, 1>>}
MCCuts == {{cvP}, {cvP, cvQ}}

(* A variable of a function that has returned and is called again. *)
DeadObjects == <<cvP, cvQ, cvX, cvX>>
DeadAddrs == {<<3, 0>>, <<4, 0>>}
================================================================================
