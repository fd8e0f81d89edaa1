-------------------------------- MODULE WorkSet --------------------------------
(***************************************************************************)
(* What a fixed-point computation promises, whatever the order it works    *)
(* in, however its states are stored, joined and forgotten.  A place is a  *)
(* heap in front of an instruction.  Some places wait (work), some have    *)
(* been executed (done).  A step executes one place that waits, and it may *)
(* put anything in place of what waits that covers it; it may drop what is *)
(* covered by a place that has been executed.                              *)
(***************************************************************************)
CONSTANTS
  Place,   \* heaps in front of instructions
  Result,  \* what the computation may yield
  Above    \* <<x, y>> \in Above: place x covers place y

VARIABLES
  start,  \* the place where the computation starts
  succ,   \* succ[x]: the places that the instruction at x leads to
  yields, \* yields[x]: the results of the instruction at x
  work,   \* the places that wait
  done,   \* the places that have been executed
  out     \* the results so far

wvars == <<start, succ, yields, work, done, out>>

Flow == /\ start \in Place
        /\ succ \in [Place -> SUBSET Place]
        /\ yields \in [Place -> SUBSET Result]

(* One of the places covers x. *)
Covered(x, places) == {y \in places : <<y, x>> \in Above} # {}

(* To cover is a preorder on the places. *)
AboveIsPreorder ==
  /\ Above \subseteq Place \X Place
  /\ \A x \in Place : <<x, x>> \in Above
  /\ \A x, y \in Place : <<x, y>> \in Above =>
        \A z \in Place : <<y, z>> \in Above => <<x, z>> \in Above

(***************************************************************************)
(* The instructions are monotone: what they do to a place covers what they *)
(* do to a place that it covers.                                           *)
(***************************************************************************)
Monotone ==
  \A x, y \in Place : <<x, y>> \in Above =>
     \A t \in succ[y] : Covered(t, succ[x])

WorkInit ==
  /\ Flow
  /\ Monotone
  /\ work = {start}
  /\ done = {}
  /\ out = {}

(* Everything in places is covered by what waits or has been executed. *)
Keeps(places, next) == \A x \in places : Covered(x, next)

(* Nothing comes out of thin air: what waits covers something that was there. *)
Stems(next, places) == \A y \in next : {x \in places : <<y, x>> \in Above} # {}

(* What waits is replaced: nothing in before gets lost. *)
Replaced(before) ==
  /\ work' \in SUBSET Place
  /\ Keeps(before, work' \cup done')
  /\ Stems(work', before \cup done')
  /\ UNCHANGED <<start, succ, yields>>

(* One instruction is executed. *)
Execute ==
  \E x \in work :
     /\ done' = done \cup {x}
     /\ out' = out \cup yields[x]
     /\ Replaced((work \ {x}) \cup succ[x])

(* Heaps are joined, abstracted, dropped, or taken up once more. *)
Rearrange ==
  /\ UNCHANGED <<done, out>>
  /\ Replaced(work)

WorkNext == Execute \/ Rearrange

WorkSpec == WorkInit /\ [][WorkNext]_wvars

-------------------------------------------------------------------------------
(* Properties *)

(* What waits, what is done and what has come out are places and results. *)
WorkTypeOK ==
  /\ Flow
  /\ work \subseteq Place
  /\ done \subseteq Place
  /\ out \subseteq Result

(***************************************************************************)
(* The invariant behind the soundness of the computation: the start and    *)
(* the successors of all that has been executed are covered by what has    *)
(* been or will be executed, and the results of what has been executed     *)
(* have come out.                                                          *)
(***************************************************************************)
WorkInv ==
  /\ AboveIsPreorder
  /\ WorkTypeOK
  /\ Monotone
  /\ Covered(start, work \cup done)
  /\ \A x \in done : /\ Keeps(succ[x], work \cup done)
                     /\ yields[x] \subseteq out

Closed(places) == /\ start \in places
                  /\ \A x \in places : succ[x] \subseteq places

(* x is on a path from the start: it is in every set that paths do not leave. *)
OnPath(x) == \A places \in SUBSET Place : Closed(places) => x \in places

(***************************************************************************)
(* When nothing waits any more, every place that any path leads to is      *)
(* covered by a place that has been executed, whose results have come out. *)
(***************************************************************************)
Sound ==
  work = {} => \A x \in Place : OnPath(x) =>
     \E y \in done : <<y, x>> \in Above /\ yields[y] \subseteq out

===============================================================================
