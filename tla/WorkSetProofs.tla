----------------------------- MODULE WorkSetProofs -----------------------------
(***************************************************************************)
(* Proofs about WorkSet, for all sets of places and all instructions.      *)
(***************************************************************************)
EXTENDS WorkSet, TLAPS

(* What covered a place still covers it when more places are there. *)
LEMMA CoveredByMore ==
  ASSUME NEW x, NEW A, NEW B, A \subseteq B, Covered(x, A)
  PROVE  Covered(x, B)
BY DEF Covered

(* A place that is covered by covered places is covered. *)
LEMMA CoveredTrans ==
  ASSUME AboveIsPreorder,
         NEW x \in Place, NEW A \in SUBSET Place, NEW B \in SUBSET Place,
         Covered(x, A), Keeps(A, B)
  PROVE  Covered(x, B)
<1>1. PICK y \in A : <<y, x>> \in Above
  BY DEF Covered
<1>2. PICK z \in B : <<z, y>> \in Above
  BY DEF Keeps, Covered
<1>3. <<z, x>> \in Above
  BY <1>1, <1>2 DEF AboveIsPreorder
<1> QED
  BY <1>3 DEF Covered

(* A place covers itself. *)
LEMMA CoveredSelf ==
  ASSUME AboveIsPreorder, NEW A \in SUBSET Place, NEW x \in A
  PROVE  Covered(x, A)
BY DEF Covered, AboveIsPreorder

(* The first place waits. *)
LEMMA WorkInitInv == AboveIsPreorder /\ WorkInit => WorkInv
<1> SUFFICES ASSUME AboveIsPreorder, WorkInit PROVE WorkInv
  OBVIOUS
<1>1. Covered(start, work \cup done)
  BY CoveredSelf DEF WorkInit, Flow
<1> QED
  BY <1>1 DEF WorkInit, WorkInv, WorkTypeOK, Flow

(* What was covered by places that waited or were done still is. *)
LEMMA StillCovered ==
  ASSUME AboveIsPreorder, NEW x \in Place, NEW before \in SUBSET Place, WorkTypeOK,
         done' \in SUBSET Place, done \subseteq done', Replaced(before),
         Covered(x, before \cup done)
  PROVE  Covered(x, work' \cup done')
<1>1. work' \cup done' \in SUBSET Place
  BY DEF Replaced
<1>2. Keeps(before \cup done, work' \cup done')
  <2>1. ASSUME NEW y \in done PROVE Covered(y, work' \cup done')
    BY <1>1, CoveredSelf DEF WorkTypeOK
  <2> QED
    BY <2>1 DEF Keeps, Replaced
<1> QED
  BY <1>1, <1>2, CoveredTrans DEF WorkTypeOK

(* The invariant is preserved by every step. *)
LEMMA WorkStepInv == WorkInv /\ [WorkNext]_wvars => WorkInv'
<1> SUFFICES ASSUME WorkInv, [WorkNext]_wvars PROVE WorkInv'
  OBVIOUS
<1>1. CASE Execute
  <2>1. PICK x \in work : /\ done' = done \cup {x}
                          /\ out' = out \cup yields[x]
                          /\ Replaced((work \ {x}) \cup succ[x])
    BY <1>1 DEF Execute
  <2> DEFINE before == (work \ {x}) \cup succ[x]
  <2>2. /\ x \in Place
        /\ before \in SUBSET Place
        /\ done' \in SUBSET Place
        /\ work' \in SUBSET Place
        /\ UNCHANGED <<start, succ, yields>>
    BY <2>1 DEF WorkInv, WorkTypeOK, Flow, Replaced
  <2>3. WorkTypeOK' /\ Monotone'
    BY <2>1, <2>2 DEF WorkInv, WorkTypeOK, Flow, Monotone, Covered
  <2>4. ASSUME NEW y \in Place, Covered(y, work \cup done)
        PROVE  Covered(y, work' \cup done')
    <3>1. PICK z \in work \cup done : <<z, y>> \in Above
      BY <2>4 DEF Covered
    <3>2. CASE z = x
      BY <3>1, <3>2, <2>1 DEF Covered
    <3>3. CASE z # x
      <4>1. Covered(y, before \cup done)
        BY <3>1, <3>3 DEF Covered
      <4> QED
        BY <4>1, <2>1, <2>2, StillCovered DEF WorkInv
    <3> QED
      BY <3>2, <3>3
  <2>5. Covered(start, work' \cup done')
    BY <2>4 DEF WorkInv, WorkTypeOK, Flow
  <2>6. ASSUME NEW y \in done'
        PROVE  /\ Keeps(succ[y], work' \cup done')
               /\ yields[y] \subseteq out'
    <3>1. CASE y \in done
      <4>1. ASSUME NEW t \in succ[y] PROVE Covered(t, work' \cup done')
        BY <3>1, <2>4 DEF WorkInv, WorkTypeOK, Flow, Keeps
      <4> QED
        BY <3>1, <4>1, <2>1 DEF WorkInv, Keeps
    <3>2. CASE y = x
      BY <3>2, <2>1 DEF Replaced, Keeps
    <3> QED
      BY <3>1, <3>2, <2>1
  <2> QED
    BY <2>2, <2>3, <2>5, <2>6 DEF WorkInv, Covered, Keeps
<1>2. CASE Rearrange
  <2>1. /\ done' = done /\ out' = out
        /\ UNCHANGED <<start, succ, yields>>
        /\ work' \in SUBSET Place
        /\ Replaced(work)
    BY <1>2 DEF Rearrange, Replaced
  <2>2. WorkTypeOK' /\ Monotone'
    BY <2>1 DEF WorkInv, WorkTypeOK, Flow, Monotone, Covered
  <2>3. ASSUME NEW y \in Place, Covered(y, work \cup done)
        PROVE  Covered(y, work' \cup done')
    BY <2>1, <2>3, StillCovered DEF WorkInv, WorkTypeOK
  <2>4. Covered(start, work' \cup done')
    BY <2>3 DEF WorkInv, WorkTypeOK, Flow
  <2>5. ASSUME NEW y \in done, NEW t \in succ[y] PROVE Covered(t, work' \cup done')
    BY <2>3 DEF WorkInv, WorkTypeOK, Flow, Keeps
  <2> QED
    BY <2>1, <2>2, <2>4, <2>5 DEF WorkInv, Covered, Keeps
<1>3. CASE UNCHANGED wvars
  <2>1. /\ start' = start /\ succ' = succ /\ yields' = yields
        /\ work' = work /\ done' = done /\ out' = out
    BY <1>3 DEF wvars
  <2>2. WorkTypeOK' /\ Monotone'
    BY <2>1 DEF WorkInv, WorkTypeOK, Flow, Monotone, Covered
  <2>3. Covered(start, work \cup done)'
    BY <2>1 DEF WorkInv, Covered
  <2>4. ASSUME NEW y \in done
        PROVE  Keeps(succ[y], work \cup done)' /\ (yields[y] \subseteq out)'
    BY <2>1 DEF WorkInv, Covered, Keeps
  <2> QED
    BY <2>1, <2>2, <2>3, <2>4 DEF WorkInv
<1> QED
  BY <1>1, <1>2, <1>3 DEF WorkNext

(***************************************************************************)
(* When nothing waits, the places that executed places cover are a set     *)
(* that no path leaves, so every place on a path is one of them.           *)
(***************************************************************************)
LEMMA WorkInvSound == WorkInv => Sound
<1> SUFFICES ASSUME WorkInv, work = {}, NEW x \in Place, OnPath(x)
             PROVE  \E y \in done : <<y, x>> \in Above /\ yields[y] \subseteq out
  BY DEF Sound
<1> DEFINE C == {z \in Place : Covered(z, done)}
<1>1. start \in C
  BY DEF WorkInv, WorkTypeOK, Flow, Covered
<1>2. ASSUME NEW z \in C, NEW t \in succ[z] PROVE t \in C
  <2>1. PICK y \in done : <<y, z>> \in Above
    BY DEF Covered
  <2>2. y \in Place /\ t \in Place
    BY DEF WorkInv, WorkTypeOK, Flow
  <2>3. PICK s \in succ[y] : <<s, t>> \in Above
    BY <2>1, <2>2 DEF WorkInv, Monotone, Covered
  <2>4. PICK w \in done : <<w, s>> \in Above
    BY <2>3 DEF WorkInv, Keeps, Covered
  <2>5. s \in Place /\ w \in Place
    BY <2>2, <2>3, <2>4 DEF WorkInv, WorkTypeOK, Flow
  <2>6. <<w, t>> \in Above
    BY <2>2, <2>3, <2>4, <2>5 DEF WorkInv, AboveIsPreorder
  <2> QED
    BY <2>2, <2>6 DEF Covered
<1>3. Closed(C)
  BY <1>1, <1>2 DEF Closed
<1>4. x \in C
  BY <1>3 DEF OnPath
<1> QED
  BY <1>4 DEF WorkInv, Covered

(* What waits, what is done and what has come out keep their types. *)
THEOREM WorkInvariant == AboveIsPreorder /\ WorkSpec => []WorkInv
<1> QED
  BY WorkInitInv, WorkStepInv, PTL DEF WorkSpec

(***************************************************************************)
(* Every fixed-point computation of this form is sound, for every set of   *)
(* places, every preorder on them and every monotone program.              *)
(***************************************************************************)
THEOREM WorkSetSound == AboveIsPreorder /\ WorkSpec => []Sound
<1> QED
  BY WorkInitInv, WorkStepInv, WorkInvSound, PTL DEF WorkSpec

===============================================================================
