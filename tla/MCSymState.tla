------------------------------ MODULE MCSymState ------------------------------
(***************************************************************************)
(* The containers of symbolic heaps under an arbitrary client, which uses  *)
(* one block.  The settings of join mode and ordering reach every branch;  *)
(* in mode 3, which differs from mode 2 in nothing else, the block         *)
(* bypasses the checks.                                                    *)
(***************************************************************************)
EXTENDS SymState, ListHeaps

(***************************************************************************)
(* Three lists that cannot be joined, two segments.  A client may insert   *)
(* "p2" into <<"l1", "l2", "n">>: it takes the place of "l2", packState()  *)
(* passes "l1" and grows the new heap to "p0" when it meets "n".           *)
(***************************************************************************)
MCHeap == {"n", "l1", "l2", "p2", "p0"}
MCCovers == ListCoversIn(MCHeap)
MCThreeWay ==
  [pair \in MCHeap \X MCHeap |->
     IF {pair[1], pair[2]} \in {{"n", "p2"}, {"l1", "p2"}} THEN "p0" ELSE "none"]
MCForced == {<<"n", "p2">>, <<"p2", "n">>}

Op(f)   == [code |-> "op", fns |-> <<f>>, targets |-> <<>>]
Jmp(t)  == [code |-> "jmp", fns |-> <<>>, targets |-> <<t>>]
Ret(f)  == [code |-> "ret", fns |-> <<f>>, targets |-> <<>>]

(* The client uses b1, which has one inbound edge and only returns. *)
MCPrograms ==
  {[entry |-> "b2", closing |-> {},
    insns |-> ("b2" :> <<Op("id"), Jmp("b1")>>) @@ ("b1" :> <<Ret("id")>>)]}

Options(joinMode, ordering, forbidReplace) ==
  [joinMode |-> joinMode, ordering |-> ordering, forbidReplace |-> forbidReplace,
   exitLeaks |-> FALSE, schedKind |-> 2, pruneMode |-> 1,
   missThr |-> 8, totalThr |-> 128]

(* The default is Options(3, 1, FALSE). *)
MCConfs == {Options(1, 0, TRUE), Options(1, 1, FALSE),
            Options(2, 2, FALSE), Options(3, 1, FALSE)}

===============================================================================
