-------------------------------- MODULE SymCut --------------------------------
(***************************************************************************)
(* The cut of a symbolic heap at a function call (symcut.cc): the heap of  *)
(* the caller is split into the entry of the callee and the call frame,    *)
(* the callee works on its part, and the frame is joined back.  Both are   *)
(* deep copies that go from program variables through a work list.         *)
(*                                                                         *)
(* A heap is a record of sequences indexed by object ID.  An object has    *)
(* one field.  A value is a pair: <<obj, off>> is an address, <<0, 0>> is  *)
(* VAL_NULL and <<0, n>> the n-th unknown value.                           *)
(***************************************************************************)
EXTENDS Integers, Sequences, SequencesExt, FiniteSets

CONSTANTS
  Objects,    \* the CVar of each object of the heap to split, or Anon
  Anon,       \* cVar.uid of an object on the heap
  Addrs,      \* the addresses that may be stored in the heap to split
  Unknowns,   \* how many unknown values there are
  Cuts        \* the sets of variables that a callee may need

ASSUME SymCutAssumption ==
  /\ Unknowns \in Nat
  /\ Addrs \subseteq (1..Len(Objects)) \X Nat
  /\ \A c \in Cuts : Anon \notin c

VARIABLES
  phase,      \* which heap is being created: "entry", "frame", "join"
  src,        \* the heap of the caller
  entry,      \* the part that the callee works on, the result of a join
  frame,      \* saveFrameTo
  cset,       \* the cut of the entry, as prune() has enlarged it
  dc,         \* DeepCopyData
  want        \* the heap of the caller with the effect of the callee

vars == <<phase, src, entry, frame, cset, dc, want>>

Null == <<0, 0>>
None == <<>>
IsAddr(v) == v # None /\ v[1] > 0
IsUnknown(v) == v # None /\ v[1] = 0 /\ v[2] > 0

(***************************************************************************)
(* Heaps.  org and uorg remember which object and which unknown value of   *)
(* the heap of the caller has been copied.                                 *)
(***************************************************************************)
EmptyHeap == [cVar |-> <<>>, valid |-> <<>>, val |-> <<>>, neq |-> {},
              org |-> <<>>, uorg |-> <<>>]
ObjIds(h) == DOMAIN h.cVar
LiveVars(h) == {h.cVar[o] : o \in {p \in ObjIds(h) : h.valid[p]}} \ {Anon}

(* The valid object of a program variable, 0 if there is none. *)
regionByVar(h, cv) ==
  LET S == {o \in ObjIds(h) : h.valid[o] /\ h.cVar[o] = cv}
  IN  IF S = {} THEN 0 ELSE CHOOSE o \in S : TRUE

NewObject(h, cv, origin) ==
  [h EXCEPT !.cVar = Append(@, cv), !.valid = Append(@, TRUE),
            !.val = Append(@, None), !.org = Append(@, origin)]

(* An invalid object keeps its CVar and loses its field. *)
objInvalidate(h, o) == [h EXCEPT !.valid[o] = FALSE, !.val[o] = None]

usedBy(h, v) == {o \in ObjIds(h) : h.val[o] = v}
pointedBy(h, o) == {p \in ObjIds(h) : IsAddr(h.val[p]) /\ h.val[p][1] = o}

(***************************************************************************)
(* DeepCopyData and its work list, a stack that takes every item once.     *)
(***************************************************************************)
DeepCopyData(s, d, cut, digBackward) ==
  [src |-> s, dst |-> d, cut |-> cut, digBackward |-> digBackward,
   objMap |-> <<>>, valMap |-> <<>>, todo |-> <<>>, seen |-> {}]

Put(f, k, v) == [x \in DOMAIN f \cup {k} |-> IF x = k THEN v ELSE f[x]]

(* All live fields of an object are scheduled. *)
digFields(c, objSrc, objDst) ==
  IF c.src.val[objSrc] = None \/ <<objSrc, objDst>> \in c.seen
  THEN c
  ELSE [c EXCEPT !.todo = Append(@, <<objSrc, objDst>>),
                 !.seen = @ \cup {<<objSrc, objDst>>}]

(* The variable in dst, created if it is not there. *)
WithVar(h, cv, origin) ==
  IF regionByVar(h, cv) # 0 THEN h ELSE NewObject(h, cv, origin)

(* Mutant: the cut is not enlarged by a variable that is reached. *)
transferProgramVar_SameCut(c, objSrc) ==
  LET cv == c.src.cVar[objSrc]
      h  == WithVar(c.dst, cv, c.src.org[objSrc])
      od == regionByVar(h, cv)
  IN  [c EXCEPT !.dst = IF c.src.valid[objSrc] THEN h ELSE objInvalidate(h, od),
                !.objMap = Put(@, objSrc, od)]

(* The variable is looked up by its name even if it is a dead instance. *)
transferProgramVar(c, objSrc) ==
  LET cv == c.src.cVar[objSrc]
      h  == WithVar(c.dst, cv, c.src.org[objSrc])
      od == regionByVar(h, cv)
  IN  [c EXCEPT
        !.cut = IF c.src.valid[objSrc] THEN @ \cup {cv} ELSE @,
        !.dst = IF c.src.valid[objSrc] THEN h ELSE objInvalidate(h, od),
        !.objMap = Put(@, objSrc, od)]

addHeapObject(c, objSrc) ==
  LET h  == NewObject(c.dst, Anon, c.src.org[objSrc])
      od == Len(h.cVar)
  IN  [c EXCEPT
        !.dst = IF c.src.valid[objSrc] THEN h ELSE objInvalidate(h, od),
        !.objMap = Put(@, objSrc, od)]

addObjectIfNeeded(c, objSrc) ==
  LET added == IF c.src.cVar[objSrc] # Anon
               THEN transferProgramVar(c, objSrc)
               ELSE addHeapObject(c, objSrc)
  IN  IF objSrc \in DOMAIN c.objMap
      THEN c
      ELSE digFields(added, objSrc, added.objMap[objSrc])

trackUsesCore(c, uses) ==
  FoldLeft(addObjectIfNeeded, c, SetToSortSeq(uses, <))

(* Mutant: only the uses of values are tracked. *)
trackUsesOfObj_Never(c, objSrc) == c

trackUsesOfObj(c, objSrc) ==
  IF c.digBackward THEN trackUsesCore(c, pointedBy(c.src, objSrc)) ELSE c

(* Mutant: the uses of unknown values are not tracked. *)
trackUsesOfVal_AddrOnly(c, v) ==
  IF c.digBackward /\ IsAddr(v)
  THEN IF c.src.valid[v[1]]
       THEN trackUsesOfObj(c, v[1])
       ELSE trackUsesCore(c, usedBy(c.src, v))
  ELSE c

trackUsesOfVal(c, v) ==
  IF c.digBackward
  THEN trackUsesCore(IF IsAddr(v) /\ c.src.valid[v[1]]
                     THEN trackUsesOfObj(c, v[1]) ELSE c,
                     usedBy(c.src, v))
  ELSE c

handleValueCore(c, v) ==
  LET added == addObjectIfNeeded(c, v[1])
  IN  [added EXCEPT !.valMap = Put(@, v, <<added.objMap[v[1]], v[2]>>)]

handleUnknown(c, v) ==
  [c EXCEPT !.dst.uorg = Append(@, c.src.uorg[v[2]]),
            !.valMap = Put(@, v, <<0, Len(c.dst.uorg) + 1>>)]

handleValue(c, v) ==
  LET tracked == trackUsesOfVal(c, v)
  IN  IF v = Null \/ v \in DOMAIN c.valMap
      THEN c
      ELSE IF IsAddr(v) THEN handleValueCore(tracked, v)
                        ELSE handleUnknown(tracked, v)

valueInDst(c, v) == IF v = Null THEN Null ELSE c.valMap[v]

(* One round of deepCopy(): the field on the top of the work list. *)
CopyField(c) ==
  LET fld == Last(c.todo)
      v   == c.src.val[fld[1]]
      t   == trackUsesOfObj([c EXCEPT !.todo = Front(@)], fld[1])
      h   == handleValue(t, v)
  IN  IF h.dst.valid[fld[2]]
      THEN [h EXCEPT !.dst.val[fld[2]] = valueInDst(h, v)]
      ELSE h

(* The predicates all values of which have been copied. *)
copyRelevantPreds(c) ==
  [c.dst EXCEPT !.neq = @ \cup
     {{valueInDst(c, v) : v \in pr} :
       pr \in {r \in c.src.neq : r \subseteq DOMAIN c.valMap \cup {Null}}}]

(* prune(): the variables of the cut, then the work list. *)
prune(s, d, cut, forwardOnly) ==
  LET Dig(c, o) ==
        LET h == WithVar(c.dst, s.cVar[o], s.org[o])
        IN  digFields([c EXCEPT !.dst = h], o, regionByVar(h, s.cVar[o]))
  IN  FoldLeft(Dig, DeepCopyData(s, d, cut, ~forwardOnly),
               SetToSortSeq({regionByVar(s, cv) : cv \in cut}, <))

(***************************************************************************)
(* The heap of the caller and the steps of a call.                         *)
(***************************************************************************)
Values == {Null} \cup Addrs \cup {<<0, n>> : n \in 1..Unknowns}
SrcHeap(val, neq) ==
  [cVar |-> Objects, valid |-> [o \in 1..Len(Objects) |-> val[o] # None],
   val |-> val, neq |-> neq, org |-> [o \in 1..Len(Objects) |-> o],
   uorg |-> [n \in 1..Unknowns |-> n]]
Preds == {{<<0, m>>, <<0, n>>} : m, n \in 0..Unknowns} \ {{<<0, n>>} : n \in 0..Unknowns}

(* splitHeapByCVars() starts with the live variables of the cut. *)
Init ==
  \E val \in [1..Len(Objects) -> Values \cup {None}], neq \in SUBSET Preds, cut \in Cuts :
    /\ phase = "entry"
    /\ \A o, p \in 1..Len(Objects) :
         o # p /\ val[o] # None /\ val[p] # None /\ Objects[o] # Anon
           => Objects[o] # Objects[p]
    /\ src = SrcHeap(val, neq)
    /\ want = src
    /\ entry = EmptyHeap /\ frame = EmptyHeap
    /\ cset = {}
    /\ dc = prune(src, EmptyHeap, cut \cap LiveVars(src), FALSE)

DeepCopy ==
  /\ dc.todo # <<>>
  /\ dc' = CopyField(dc)
  /\ UNCHANGED <<phase, src, entry, frame, cset, want>>

(* The first part is complete; the frame grows from all other variables. *)
ComputeFrame ==
  /\ phase = "entry" /\ dc.todo = <<>>
  /\ phase' = "frame"
  /\ entry' = copyRelevantPreds(dc)
  /\ cset' = dc.cut
  /\ dc' = prune(src, EmptyHeap, LiveVars(src) \ dc.cut, FALSE)
  /\ UNCHANGED <<src, frame, want>>

FinishSplit ==
  /\ phase = "frame" /\ dc.todo = <<>>
  /\ phase' = "call"
  /\ frame' = copyRelevantPreds(dc)
  /\ UNCHANGED <<src, entry, cset, dc, want>>

(* A value of the entry in terms of the heap of the caller. *)
Pull(h, v) ==
  IF IsAddr(v) THEN <<h.org[v[1]], v[2]>>
  ELSE IF IsUnknown(v) THEN <<0, h.uorg[v[2]]>> ELSE v

(* The callee writes to an object that it can reach, or frees one. *)
Callee ==
  /\ phase = "call"
  /\ \E o \in {p \in ObjIds(entry) : entry.valid[p]} :
       \/ \E v \in {Null} \cup {<<p, 0>> : p \in ObjIds(entry)} :
            /\ entry' = [entry EXCEPT !.val[o] = v]
            /\ want' = [want EXCEPT !.val[entry.org[o]] = Pull(entry, v)]
       \/ /\ entry.cVar[o] = Anon
          /\ entry' = objInvalidate(entry, o)
          /\ want' = objInvalidate(want, entry.org[o])
  /\ phase' = "return"
  /\ UNCHANGED <<src, frame, cset, dc>>

(* joinHeapsByCVars(): a forward copy of the frame into the result. *)
JoinFrame ==
  /\ phase \in {"call", "return"}
  /\ phase' = "join"
  /\ dc' = prune(frame, entry, LiveVars(frame), TRUE)
  /\ UNCHANGED <<src, entry, frame, cset, want>>

FinishJoin ==
  /\ phase = "join" /\ dc.todo = <<>>
  /\ phase' = "done"
  /\ entry' = copyRelevantPreds(dc)
  /\ UNCHANGED <<src, frame, cset, dc, want>>

Next == DeepCopy \/ ComputeFrame \/ FinishSplit \/ Callee \/ JoinFrame \/ FinishJoin

CutSpec == Init /\ [][Next]_vars

(***************************************************************************)
(* Properties.                                                             *)
(***************************************************************************)
Reachable(h) ==
  LET R[n \in 0..Len(Objects)] ==
        IF n = 0 THEN {o \in ObjIds(h) : h.valid[o] /\ h.cVar[o] # Anon}
        ELSE R[n - 1] \cup {h.val[o][1] : o \in {p \in R[n - 1] : IsAddr(h.val[p])}}
  IN  R[Len(Objects)]

Held(h) == {h.val[o] : o \in ObjIds(h)}

(***************************************************************************)
(* What "split symbolic heap into two parts regarding the list of program  *)
(* variables" promises: every live variable of the caller is alive in the  *)
(* entry or in the frame and not in both, as the sanity check at the end   *)
(* of splitHeapByCVars() expects of the two cuts.                          *)
(***************************************************************************)
SplitPartitions ==
  phase = "call" =>
    /\ LiveVars(entry) = cset
    /\ LiveVars(frame) = dc.cut
    /\ cset \cap dc.cut = {}
    /\ cset \cup dc.cut = LiveVars(src)

(***************************************************************************)
(* The parts are separated: no valid object and no unknown value of the    *)
(* caller is in both of them, since deepCopy() tracks all uses backward.   *)
(* The join would duplicate it.                                            *)
(***************************************************************************)
Separated ==
  phase = "call" =>
    /\ \A o \in ObjIds(entry), p \in ObjIds(frame) :
         entry.valid[o] /\ frame.valid[p] => entry.org[o] # frame.org[p]
    /\ {entry.uorg[v[2]] : v \in {u \in Held(entry) : IsUnknown(u)}} \cap
       {frame.uorg[v[2]] : v \in {u \in Held(frame) : IsUnknown(u)}} = {}

(***************************************************************************)
(* The frame rule: split, a change made by the callee and join give the    *)
(* heap of the caller with that change made to it directly.  Every object  *)
(* that a variable reaches is there once, with its value, and no predicate *)
(* is invented.                                                            *)
(***************************************************************************)
FrameRule ==
  phase = "done" =>
    /\ LiveVars(entry) = LiveVars(want)
    /\ \A o \in Reachable(want) :
         want.valid[o] =>
           LET copies == {d \in ObjIds(entry) : entry.valid[d] /\ entry.org[d] = o}
           IN  /\ Cardinality(copies) = 1
               /\ \A d \in copies : Pull(entry, entry.val[d]) = want.val[o]
    /\ \A d \in ObjIds(entry) : entry.valid[d] = want.valid[entry.org[d]]
    /\ \A u, v \in {w \in Held(entry) : IsUnknown(w)} :
         Pull(entry, u) = Pull(entry, v) => u = v
    /\ \A p \in entry.neq : {Pull(entry, v) : v \in p} \in want.neq

================================================================================
