------------------------------ MODULE MCRegionMem ------------------------------
(***************************************************************************)
(* Two objects of four bytes: the program accesses overlapping fields of   *)
(* the first one and clears parts of it, copies one to the other and       *)
(* accesses a pointer in the copy.                                         *)
(***************************************************************************)
EXTENDS RegionMem, TLC

CONSTANTS objA, objB

MCFields == objA :> {<<0, "ptr">>, <<0, "int">>, <<1, "char">>} @@ objB :> {<<0, "ptr">>}
MCWindows == objA :> {<<0, 4>>, <<1, 3>>} @@ objB :> {}
WholeCopies == {<<0, 0, 4>>}

(* What the code is not right for; see the README. *)
MisalignedFields == [o \in Obj |-> {<<0, "ptr">>, <<1, "int">>}]
PartCopies == {<<0, 1, 2>>, <<0, 0, 2>>}

===============================================================================
