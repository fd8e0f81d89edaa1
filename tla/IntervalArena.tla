----------------------------- MODULE IntervalArena -----------------------------
(***************************************************************************)
(* Multimap from right-open intervals to fields (sl/intarena.hh), as a set *)
(* of triples <<beg, end, fld>>.                                           *)
(***************************************************************************)
EXTENDS Integers

add(A, beg, end, fld) == A \cup {<<beg, end, fld>>}

Hits(A, beg, end) == {item \in A : beg < item[2] /\ item[1] < end}

(* Mutant: the part of an interval beyond the window is lost. *)
sub_LostTail(A, beg, end, fld) ==
    LET hits == {item \in Hits(A, beg, end) : item[3] = fld}
    IN  (A \ hits) \cup {<<item[1], beg, fld>> : item \in {i \in hits : i[1] < beg}}

(* Remove the window from the intervals of fld; what sticks out on either  *)
(* side is inserted again.                                                 *)
sub(A, beg, end, fld) ==
    LET hits == {item \in Hits(A, beg, end) : item[3] = fld}
    IN  (A \ hits) \cup {<<item[1], beg, fld>> : item \in {i \in hits : i[1] < beg}}
                   \cup {<<end, item[2], fld>> : item \in {i \in hits : end < i[2]}}

intersects(A, beg, end) == {item[3] : item \in Hits(A, beg, end)}

exactMatch(A, beg, end) == {item[3] : item \in {i \in A : i[1] = beg /\ i[2] = end}}

reverseLookup(A, fld) == {<<item[1], item[2]>> : item \in {i \in A : i[3] = fld}}

===============================================================================
