-------------------------- MODULE SymExecEngineProofs --------------------------
(***************************************************************************)
(* Proofs about the containers of symbolic heaps, for every set of heaps,  *)
(* every join that meets the contract of SymJoin, every option and every   *)
(* size of a container; then about SymExecEngine, for every function and   *)
(* every transfer function: what run(), the scheduler and the containers   *)
(* may rely on of each other.                                              *)
(***************************************************************************)
EXTENDS SymExecEngine, SequenceTheorems, FiniteSetTheorems, TLAPS

-------------------------------------------------------------------------------
(* The sequences behind heaps_ and done_. *)

(* push_back() keeps what is there and adds one element at the end. *)
LEMMA AppendFacts ==
  ASSUME NEW S, NEW s \in Seq(S), NEW e \in S
  PROVE  /\ Append(s, e) \in Seq(S)
         /\ Len(Append(s, e)) = Len(s) + 1
         /\ \A i \in 1..Len(s) : Append(s, e)[i] = s[i]
         /\ Append(s, e)[Len(s) + 1] = e
BY SMT

(* The same for done_ and its marks. *)
LEMMA AppendMark ==
  ASSUME NEW d \in Seq(BOOLEAN)
  PROVE  /\ Append(d, FALSE) \in Seq(BOOLEAN)
         /\ Len(Append(d, FALSE)) = Len(d) + 1
         /\ \A i \in 1..Len(d) : Append(d, FALSE)[i] = d[i]
         /\ Append(d, FALSE)[Len(d) + 1] = FALSE
BY SMT

(* An assignment to one mark. *)
LEMMA ExceptMark ==
  ASSUME NEW d \in Seq(BOOLEAN), NEW n \in 1..Len(d), NEW v \in BOOLEAN
  PROVE  LET e == [d EXCEPT ![n] = v]
         IN  /\ e \in Seq(BOOLEAN)
             /\ Len(e) = Len(d)
             /\ e[n] = v
             /\ \A i \in 1..Len(d) : i # n => e[i] = d[i]
<1> DEFINE e == [d EXCEPT ![n] = v]
<1>1. e \in Seq(BOOLEAN) /\ Len(e) = Len(d)
  BY SMT
<1>2. e[n] = v /\ \A i \in 1..Len(d) : i # n => e[i] = d[i]
  BY SMT
<1> QED
  BY <1>1, <1>2

(* erase() moves the elements behind the given one forward. *)
LEMMA RemoveAtFacts ==
  ASSUME NEW S, NEW s \in Seq(S), NEW n \in 1..Len(s)
  PROVE  /\ RemoveAt(s, n) \in Seq(S)
         /\ Len(RemoveAt(s, n)) = Len(s) - 1
         /\ \A i \in 1..(Len(s) - 1) :
               RemoveAt(s, n)[i] = s[IF i < n THEN i ELSE i + 1]
<1> DEFINE s1 == SubSeq(s, 1, n - 1)
           s2 == SubSeq(s, n + 1, Len(s))
<1>1. Len(s) \in Nat /\ \A i \in 1..Len(s) : s[i] \in S
  BY LenProperties
<1>2. /\ s1 \in Seq(S) /\ Len(s1) = n - 1
      /\ \A i \in 1..(n - 1) : s1[i] = s[i]
  <2>1. \A i \in 1..(n - 1) : s[i] \in S
    BY <1>1
  <2> QED
    BY <1>1, <2>1, SubSeqProperties
<1>3. /\ s2 \in Seq(S) /\ Len(s2) = Len(s) - n
      /\ \A i \in 1..(Len(s) - n) : s2[i] = s[i + n]
  <2>1. \A i \in (n + 1)..Len(s) : s[i] \in S
    BY <1>1
  <2> QED
    BY <1>1, <2>1, SubSeqProperties
<1>4. RemoveAt(s, n) = s1 \o s2
  BY DEF RemoveAt
<1> HIDE DEF s1, s2
<1>5. /\ s1 \o s2 \in Seq(S)
      /\ Len(s1 \o s2) = Len(s) - 1
      /\ \A i \in 1..(Len(s) - 1) :
            (s1 \o s2)[i] = IF i <= n - 1 THEN s1[i] ELSE s2[i - (n - 1)]
  BY <1>1, <1>2, <1>3, ConcatProperties
<1>6. ASSUME NEW i \in 1..(Len(s) - 1)
      PROVE  (s1 \o s2)[i] = s[IF i < n THEN i ELSE i + 1]
  <2>1. CASE i < n
    BY <1>1, <1>2, <1>5, <2>1
  <2>2. CASE i >= n
    <3>1. i - (n - 1) \in 1..(Len(s) - n)
      BY <1>1, <2>2
    <3> QED
      BY <1>1, <1>3, <1>5, <2>2, <3>1
  <2>3. i < n \/ i >= n
    BY <1>1
  <2> QED
    BY <2>1, <2>2, <2>3
<1> QED
  BY <1>4, <1>5, <1>6

(* rotate() makes the given element the first one. *)
LEMMA RotateFacts ==
  ASSUME NEW S, NEW s \in Seq(S), NEW n \in 1..Len(s)
  PROVE  /\ RotateToFront(s, n) \in Seq(S)
         /\ Len(RotateToFront(s, n)) = Len(s)
         /\ \A i \in 1..Len(s) :
               RotateToFront(s, n)[i] = s[IF i <= Len(s) - n + 1
                                          THEN i + n - 1
                                          ELSE i - (Len(s) - n + 1)]
<1> DEFINE s1 == SubSeq(s, n, Len(s))
           s2 == SubSeq(s, 1, n - 1)
<1>1. Len(s) \in Nat /\ \A i \in 1..Len(s) : s[i] \in S
  BY LenProperties
<1>2. /\ s1 \in Seq(S) /\ Len(s1) = Len(s) - n + 1
      /\ \A i \in 1..(Len(s) - n + 1) : s1[i] = s[i + n - 1]
  <2>1. \A i \in n..Len(s) : s[i] \in S
    BY <1>1
  <2> QED
    BY <1>1, <2>1, SubSeqProperties
<1>3. /\ s2 \in Seq(S) /\ Len(s2) = n - 1
      /\ \A i \in 1..(n - 1) : s2[i] = s[i]
  <2>1. \A i \in 1..(n - 1) : s[i] \in S
    BY <1>1
  <2> QED
    BY <1>1, <2>1, SubSeqProperties
<1>4. RotateToFront(s, n) = s1 \o s2
  BY DEF RotateToFront
<1> HIDE DEF s1, s2
<1> QED
  BY <1>1, <1>2, <1>3, <1>4, ConcatProperties

-------------------------------------------------------------------------------
(* The operations of SymStateMarked. *)

(***************************************************************************)
(* What is kept of a single container, given the heaps that have arrived   *)
(* at it and the heaps that have been processed from it.                   *)
(***************************************************************************)
GoodState(st, arr, proc) ==
  /\ st \in State
  /\ Len(st.heaps) = Len(st.done)
  /\ \A i \in 1..Len(st.heaps) : st.done[i] => st.heaps[i] \in proc
  /\ \A sh \in arr : CoveredBy(sh, proc \cup PendingHeaps(st))

(* The types of the two vectors, element by element. *)
LEMMA StateFacts ==
  ASSUME NEW st \in State
  PROVE  /\ st.heaps \in Seq(Heap) /\ st.done \in Seq(BOOLEAN)
         /\ st.cntPending \in Int /\ st.anyHit \in BOOLEAN
         /\ Len(st.heaps) \in Nat /\ Len(st.done) \in Nat
         /\ \A i \in 1..Len(st.heaps) : st.heaps[i] \in Heap
         /\ \A i \in 1..Len(st.done) : st.done[i] \in BOOLEAN
BY ElementOfSeq, LenProperties DEF State

(* The heaps that wait are heaps. *)
LEMMA PendingHeapsType ==
  ASSUME NEW st \in State, Len(st.heaps) = Len(st.done)
  PROVE  PendingHeaps(st) \in SUBSET Heap
BY StateFacts DEF PendingHeaps, Pending

(* What is covered by heaps that are covered themselves is covered. *)
LEMMA CoveredTrans ==
  ASSUME NEW arr \in SUBSET Heap, NEW old \in SUBSET Heap, NEW new \in SUBSET Heap,
         \A x \in arr : CoveredBy(x, old), \A y \in old : CoveredBy(y, new)
  PROVE  \A x \in arr : CoveredBy(x, new)
<1> SUFFICES ASSUME NEW x \in arr
             PROVE  CoveredBy(x, new)
  OBVIOUS
<1>1. PICK y \in old : <<y, x>> \in Covers
  BY DEF CoveredBy
<1>2. PICK z \in new : <<z, y>> \in Covers
  BY DEF CoveredBy
<1>3. <<z, x>> \in Covers
  BY <1>1, <1>2, SymJoinAssumption
<1> QED
  BY <1>3 DEF CoveredBy

(* A heap covers itself. *)
LEMMA CoveredRefl ==
  ASSUME NEW sh \in Heap, NEW heaps, sh \in heaps
  PROVE  CoveredBy(sh, heaps)
BY SymJoinAssumption DEF CoveredBy

(* insertNew() loses nothing and lets the new heap wait. *)
LEMMA InsertNewIsGood ==
  ASSUME NEW st, NEW arr \in SUBSET Heap, NEW proc \in SUBSET Heap,
         NEW sh \in Heap, GoodState(st, arr, proc)
  PROVE  GoodState(InsertNew(st, sh), arr \cup {sh}, proc)
<1> DEFINE new == InsertNew(st, sh)
           n == Len(st.heaps)
<1>1. /\ st \in State /\ Len(st.done) = n /\ n \in Nat
      /\ st.heaps \in Seq(Heap) /\ st.done \in Seq(BOOLEAN)
  BY StateFacts DEF GoodState
<1> DEFINE heaps == Append(st.heaps, sh)
           done == Append(st.done, FALSE)
           cnt == st.cntPending + 1
<1>a. /\ heaps \in Seq(Heap) /\ Len(heaps) = n + 1 /\ heaps[n + 1] = sh
      /\ \A i \in 1..n : heaps[i] = st.heaps[i]
  BY <1>1, AppendFacts
<1>b. /\ done \in Seq(BOOLEAN) /\ Len(done) = n + 1 /\ done[n + 1] = FALSE
      /\ \A i \in 1..n : done[i] = st.done[i]
  BY <1>1, AppendMark
<1>c. cnt \in Int
  BY <1>1, StateFacts
<1>2. new = [st EXCEPT !.heaps = heaps, !.done = done, !.cntPending = cnt]
  BY DEF InsertNew
<1> HIDE DEF new, heaps, done, cnt
<1>3. new \in State /\ new.heaps = heaps /\ new.done = done
  BY <1>1, <1>2, <1>a, <1>b, <1>c DEF State
<1>4. \A i \in 1..Len(new.heaps) : new.done[i] => new.heaps[i] \in proc
  BY <1>1, <1>a, <1>b, <1>3 DEF GoodState
<1>5. PendingHeaps(st) \cup {sh} \subseteq PendingHeaps(new)
  BY <1>1, <1>a, <1>b, <1>3 DEF PendingHeaps, Pending
<1>6. \A x \in arr \cup {sh} : CoveredBy(x, proc \cup PendingHeaps(new))
  BY <1>5, SymJoinAssumption DEF GoodState, CoveredBy
<1> QED
  BY <1>1, <1>a, <1>b, <1>3, <1>4, <1>6 DEF GoodState, new

(* swapExisting() replaces one heap and clears its mark. *)
LEMMA SwapExistingFacts ==
  ASSUME NEW st \in State, Len(st.heaps) = Len(st.done),
         NEW nth \in 1..Len(st.heaps), NEW sh \in Heap
  PROVE  LET new == SwapExisting(st, nth, sh)
         IN  /\ new \in State
             /\ Len(new.heaps) = Len(st.heaps) /\ Len(new.done) = Len(st.heaps)
             /\ new.heaps[nth] = sh /\ ~new.done[nth]
             /\ \A i \in 1..Len(st.heaps) :
                   i # nth => new.heaps[i] = st.heaps[i] /\ new.done[i] = st.done[i]
             /\ new.cntPending = IF st.done[nth] THEN st.cntPending + 1
                                                 ELSE st.cntPending
<1> DEFINE new == SwapExisting(st, nth, sh)
           n == Len(st.heaps)
           heaps == [st.heaps EXCEPT ![nth] = sh]
           done == [st.done EXCEPT ![nth] = FALSE]
           cnt == IF st.done[nth] THEN st.cntPending + 1 ELSE st.cntPending
<1>1. /\ n \in Nat /\ st.heaps \in Seq(Heap) /\ st.done \in Seq(BOOLEAN)
      /\ cnt \in Int
  BY StateFacts
<1>2. /\ heaps \in Seq(Heap) /\ Len(heaps) = n /\ heaps[nth] = sh
      /\ \A i \in 1..n : i # nth => heaps[i] = st.heaps[i]
  BY <1>1, ExceptSeq
<1>3. /\ done \in Seq(BOOLEAN) /\ Len(done) = n /\ done[nth] = FALSE
      /\ \A i \in 1..n : i # nth => done[i] = st.done[i]
  BY <1>1, ExceptMark
<1>4. new = [st EXCEPT !.heaps = heaps, !.done = done, !.cntPending = cnt]
  BY DEF SwapExisting
<1> HIDE DEF new, heaps, done, cnt
<1>5. /\ new \in State /\ new.heaps = heaps /\ new.done = done
      /\ new.cntPending = cnt
  BY <1>1, <1>2, <1>3, <1>4 DEF State
<1> QED
  BY <1>2, <1>3, <1>5 DEF new, cnt

(* swapExisting() with a heap that covers the old one loses nothing. *)
LEMMA SwapExistingIsGood ==
  ASSUME NEW st, NEW arr \in SUBSET Heap, NEW proc \in SUBSET Heap,
         NEW nth \in 1..Len(st.heaps), NEW sh \in Heap,
         GoodState(st, arr, proc), <<sh, st.heaps[nth]>> \in Covers
  PROVE  GoodState(SwapExisting(st, nth, sh), arr, proc)
<1> DEFINE new == SwapExisting(st, nth, sh)
           n == Len(st.heaps)
<1>1. /\ st \in State /\ Len(st.done) = n /\ n \in Nat
      /\ \A i \in 1..n : st.heaps[i] \in Heap /\ st.done[i] \in BOOLEAN
  BY StateFacts DEF GoodState
<1>2. /\ new \in State /\ Len(new.heaps) = n /\ Len(new.done) = n
      /\ new.heaps[nth] = sh /\ ~new.done[nth]
      /\ \A i \in 1..n : i # nth => new.heaps[i] = st.heaps[i] /\ new.done[i] = st.done[i]
  BY <1>1, SwapExistingFacts
<1> HIDE DEF new
<1>4. \A i \in 1..Len(new.heaps) : new.done[i] => new.heaps[i] \in proc
  BY <1>1, <1>2 DEF GoodState
<1>5. sh \in PendingHeaps(new)
  BY <1>1, <1>2 DEF PendingHeaps, Pending
<1>6. \A x \in PendingHeaps(st) : x \in Heap /\ CoveredBy(x, PendingHeaps(new))
  <2> SUFFICES ASSUME NEW i \in 1..n, ~st.done[i]
               PROVE  CoveredBy(st.heaps[i], PendingHeaps(new))
    BY <1>1 DEF PendingHeaps, Pending
  <2>1. CASE i = nth
    BY <1>5, <2>1 DEF CoveredBy
  <2>2. CASE i # nth
    <3>1. st.heaps[i] \in PendingHeaps(new)
      BY <1>1, <1>2, <2>2 DEF PendingHeaps, Pending
    <3> QED
      BY <1>1, <3>1, CoveredRefl
  <2> QED
    BY <2>1, <2>2
<1>7. PendingHeaps(new) \in SUBSET Heap /\ PendingHeaps(st) \in SUBSET Heap
  BY <1>1, <1>2, PendingHeapsType
<1>8. \A x \in arr : CoveredBy(x, proc \cup PendingHeaps(new))
  <2>1. \A x \in proc \cup PendingHeaps(st) : CoveredBy(x, proc \cup PendingHeaps(new))
    BY <1>6, CoveredRefl DEF CoveredBy
  <2> DEFINE before == proc \cup PendingHeaps(st)
             after == proc \cup PendingHeaps(new)
  <2>2. before \in SUBSET Heap /\ after \in SUBSET Heap
    BY <1>7
  <2>3. \A x \in arr : CoveredBy(x, before)
    BY DEF GoodState
  <2>4. \A y \in before : CoveredBy(y, after)
    BY <2>1
  <2> HIDE DEF before, after
  <2>5. \A x \in arr : CoveredBy(x, after)
    BY <2>2, <2>3, <2>4, CoveredTrans
  <2> QED
    BY <2>5 DEF after
<1> QED
  BY <1>1, <1>2, <1>4, <1>8 DEF GoodState, new

(* eraseExisting() removes a heap together with its mark. *)
LEMMA EraseExistingFacts ==
  ASSUME NEW st \in State, Len(st.heaps) = Len(st.done),
         NEW nth \in 1..Len(st.heaps)
  PROVE  LET new == EraseExisting(st, nth)
             from(i) == IF i < nth THEN i ELSE i + 1
         IN  /\ new \in State
             /\ Len(new.heaps) = Len(st.heaps) - 1
             /\ Len(new.done) = Len(st.heaps) - 1
             /\ \A i \in 1..(Len(st.heaps) - 1) :
                   /\ new.heaps[i] = st.heaps[from(i)]
                   /\ new.done[i] = st.done[from(i)]
             /\ new.cntPending = IF st.done[nth] THEN st.cntPending
                                                 ELSE st.cntPending - 1
<1> DEFINE new == EraseExisting(st, nth)
           n == Len(st.heaps)
           from(i) == IF i < nth THEN i ELSE i + 1
           heaps == RemoveAt(st.heaps, nth)
           done == RemoveAt(st.done, nth)
           cnt == IF st.done[nth] THEN st.cntPending ELSE st.cntPending - 1
<1>1. /\ n \in Nat /\ st.heaps \in Seq(Heap) /\ st.done \in Seq(BOOLEAN)
      /\ cnt \in Int
  BY StateFacts
<1>2. /\ heaps \in Seq(Heap) /\ Len(heaps) = n - 1
      /\ \A i \in 1..(n - 1) : heaps[i] = st.heaps[from(i)]
  BY <1>1, RemoveAtFacts
<1>3. /\ done \in Seq(BOOLEAN) /\ Len(done) = n - 1
      /\ \A i \in 1..(n - 1) : done[i] = st.done[from(i)]
  <2>1. nth \in 1..Len(st.done)
    BY <1>1
  <2>2. /\ done \in Seq(BOOLEAN) /\ Len(done) = Len(st.done) - 1
        /\ \A i \in 1..(Len(st.done) - 1) : done[i] = st.done[from(i)]
    BY <1>1, <2>1, RemoveAtFacts, Zenon
  <2> QED
    BY <1>1, <2>2
<1>4. new = [st EXCEPT !.heaps = heaps, !.done = done, !.cntPending = cnt]
  BY DEF EraseExisting
<1> HIDE DEF new, heaps, done, cnt
<1>5. /\ new \in State /\ new.heaps = heaps /\ new.done = done
      /\ new.cntPending = cnt
  BY <1>1, <1>2, <1>3, <1>4 DEF State
<1> QED
  BY <1>2, <1>3, <1>5 DEF new, cnt

(* The positions before and after an erasure. *)
LEMMA EraseIndices ==
  ASSUME NEW n \in Nat, NEW m \in 1..n
  PROVE  LET from(i) == IF i < m THEN i ELSE i + 1
             to(i) == IF i < m THEN i ELSE i - 1
         IN  /\ \A i \in 1..(n - 1) : from(i) \in (1..n) \ {m}
             /\ \A i \in (1..n) \ {m} : to(i) \in 1..(n - 1) /\ from(to(i)) = i
             /\ \A i, j \in 1..(n - 1) : from(i) = from(j) => i = j
BY SMT

(* eraseExisting() loses nothing if a heap that waits covers the erased one. *)
LEMMA EraseExistingIsGood ==
  ASSUME NEW st, NEW arr \in SUBSET Heap, NEW proc \in SUBSET Heap,
         NEW nth \in 1..Len(st.heaps), NEW keep \in 1..Len(st.heaps),
         GoodState(st, arr, proc), keep # nth, ~st.done[keep],
         <<st.heaps[keep], st.heaps[nth]>> \in Covers
  PROVE  GoodState(EraseExisting(st, nth), arr, proc)
<1> DEFINE new == EraseExisting(st, nth)
           n == Len(st.heaps)
           from(i) == IF i < nth THEN i ELSE i + 1
           to(i) == IF i < nth THEN i ELSE i - 1
<1>1. /\ st \in State /\ Len(st.done) = n /\ n \in Nat
      /\ \A i \in 1..n : st.heaps[i] \in Heap /\ st.done[i] \in BOOLEAN
  BY StateFacts DEF GoodState
<1>2. /\ new \in State /\ Len(new.heaps) = n - 1 /\ Len(new.done) = n - 1
      /\ \A i \in 1..(n - 1) : /\ new.heaps[i] = st.heaps[from(i)]
                               /\ new.done[i] = st.done[from(i)]
  BY <1>1, EraseExistingFacts
<1> HIDE DEF new
<1>3. /\ \A i \in 1..(n - 1) : from(i) \in 1..n
      /\ \A i \in 1..n : i # nth => to(i) \in 1..(n - 1) /\ from(to(i)) = i
  BY <1>1, EraseIndices
<1>4. \A i \in 1..Len(new.heaps) : new.done[i] => new.heaps[i] \in proc
  BY <1>1, <1>2, <1>3 DEF GoodState
<1>5. ASSUME NEW i \in 1..n, i # nth, ~st.done[i]
      PROVE  st.heaps[i] \in PendingHeaps(new)
  <2>1. PICK j \in 1..(n - 1) : from(j) = i
    BY <1>5, <1>3
  <2>2. j \in 1..Len(new.done) /\ ~new.done[j] /\ new.heaps[j] = st.heaps[i]
    BY <1>2, <1>5, <2>1
  <2> QED
    BY <2>2 DEF PendingHeaps, Pending
<1>6. \A x \in PendingHeaps(st) : CoveredBy(x, PendingHeaps(new))
  <2> SUFFICES ASSUME NEW i \in 1..n, ~st.done[i]
               PROVE  CoveredBy(st.heaps[i], PendingHeaps(new))
    BY <1>1 DEF PendingHeaps, Pending
  <2>1. CASE i = nth
    BY <1>5, <2>1 DEF CoveredBy
  <2>2. CASE i # nth
    BY <1>1, <1>5, <2>2, CoveredRefl
  <2> QED
    BY <2>1, <2>2
<1>7. PendingHeaps(new) \in SUBSET Heap /\ PendingHeaps(st) \in SUBSET Heap
  BY <1>1, <1>2, PendingHeapsType
<1>8. \A x \in arr : CoveredBy(x, proc \cup PendingHeaps(new))
  <2>1. \A x \in proc \cup PendingHeaps(st) : CoveredBy(x, proc \cup PendingHeaps(new))
    BY <1>6, CoveredRefl DEF CoveredBy
  <2> DEFINE before == proc \cup PendingHeaps(st)
             after == proc \cup PendingHeaps(new)
  <2>2. before \in SUBSET Heap /\ after \in SUBSET Heap
    BY <1>7
  <2>3. \A x \in arr : CoveredBy(x, before)
    BY DEF GoodState
  <2>4. \A y \in before : CoveredBy(y, after)
    BY <2>1
  <2> HIDE DEF before, after
  <2>5. \A x \in arr : CoveredBy(x, after)
    BY <2>2, <2>3, <2>4, CoveredTrans
  <2> QED
    BY <2>5 DEF after
<1> QED
  BY <1>1, <1>2, <1>4, <1>8 DEF GoodState, new

(* The positions before and after a rotation correspond one to one. *)
LEMMA RotateIndices ==
  ASSUME NEW n \in Nat, NEW m \in 1..n
  PROVE  LET from(i) == IF i <= n - m + 1 THEN i + m - 1 ELSE i - (n - m + 1)
             to(i) == IF i < m THEN i + (n - m + 1) ELSE i - m + 1
         IN  /\ \A i \in 1..n : from(i) \in 1..n
             /\ \A i \in 1..n : to(i) \in 1..n /\ from(to(i)) = i
             /\ \A i, j \in 1..n : from(i) = from(j) => i = j
BY SMT

(* rotateExisting() keeps every heap together with its mark. *)
LEMMA RotateExistingFacts ==
  ASSUME NEW st \in State, Len(st.heaps) = Len(st.done),
         NEW nth \in 1..Len(st.heaps)
  PROVE  LET new == RotateExisting(st, nth)
             n == Len(st.heaps)
             from(i) == IF i <= n - nth + 1 THEN i + nth - 1 ELSE i - (n - nth + 1)
         IN  /\ new \in State
             /\ Len(new.heaps) = n /\ Len(new.done) = n
             /\ \A i \in 1..n : /\ new.heaps[i] = st.heaps[from(i)]
                                /\ new.done[i] = st.done[from(i)]
             /\ new.cntPending = st.cntPending
<1> DEFINE new == RotateExisting(st, nth)
           n == Len(st.heaps)
           from(i) == IF i <= n - nth + 1 THEN i + nth - 1 ELSE i - (n - nth + 1)
           heaps == RotateToFront(st.heaps, nth)
           done == RotateToFront(st.done, nth)
<1>1. n \in Nat /\ st.heaps \in Seq(Heap) /\ st.done \in Seq(BOOLEAN)
  BY StateFacts
<1>2. /\ heaps \in Seq(Heap) /\ Len(heaps) = n
      /\ \A i \in 1..n : heaps[i] = st.heaps[from(i)]
  BY <1>1, RotateFacts
<1>3. /\ done \in Seq(BOOLEAN) /\ Len(done) = n
      /\ \A i \in 1..n : done[i] = st.done[from(i)]
  <2>1. nth \in 1..Len(st.done)
    BY <1>1
  <2>2. /\ done \in Seq(BOOLEAN) /\ Len(done) = Len(st.done)
        /\ \A i \in 1..Len(st.done) :
              done[i] = st.done[IF i <= Len(st.done) - nth + 1
                                THEN i + nth - 1
                                ELSE i - (Len(st.done) - nth + 1)]
    BY <1>1, <2>1, RotateFacts, Zenon
  <2> QED
    BY <1>1, <2>2
<1>4. new = [st EXCEPT !.heaps = heaps, !.done = done]
  BY DEF RotateExisting
<1> HIDE DEF new, heaps, done
<1>5. /\ new \in State /\ new.heaps = heaps /\ new.done = done
      /\ new.cntPending = st.cntPending
  BY <1>1, <1>2, <1>3, <1>4 DEF State
<1> QED
  BY <1>2, <1>3, <1>5 DEF new

(* rotateExisting() loses nothing. *)
LEMMA RotateExistingIsGood ==
  ASSUME NEW st, NEW arr \in SUBSET Heap, NEW proc \in SUBSET Heap,
         NEW nth \in 1..Len(st.heaps), GoodState(st, arr, proc)
  PROVE  GoodState(RotateExisting(st, nth), arr, proc)
<1> DEFINE new == RotateExisting(st, nth)
           n == Len(st.heaps)
           from(i) == IF i <= n - nth + 1 THEN i + nth - 1 ELSE i - (n - nth + 1)
           to(i) == IF i < nth THEN i + (n - nth + 1) ELSE i - nth + 1
<1>1. /\ st \in State /\ Len(st.done) = n /\ n \in Nat
      /\ \A i \in 1..n : st.heaps[i] \in Heap /\ st.done[i] \in BOOLEAN
  BY StateFacts DEF GoodState
<1>2. /\ new \in State /\ Len(new.heaps) = n /\ Len(new.done) = n
      /\ \A i \in 1..n : /\ new.heaps[i] = st.heaps[from(i)]
                         /\ new.done[i] = st.done[from(i)]
  BY <1>1, RotateExistingFacts
<1> HIDE DEF new
<1>3. /\ \A i \in 1..n : from(i) \in 1..n
      /\ \A i \in 1..n : to(i) \in 1..n /\ from(to(i)) = i
  BY <1>1, RotateIndices
<1>4. \A i \in 1..Len(new.heaps) : new.done[i] => new.heaps[i] \in proc
  BY <1>1, <1>2, <1>3 DEF GoodState
<1>5. ASSUME NEW i \in 1..n, ~st.done[i]
      PROVE  st.heaps[i] \in PendingHeaps(new)
  <2>1. PICK j \in 1..n : from(j) = i
    BY <1>3
  <2>2. j \in 1..Len(new.done) /\ ~new.done[j] /\ new.heaps[j] = st.heaps[i]
    BY <1>2, <1>5, <2>1
  <2> QED
    BY <2>2 DEF PendingHeaps, Pending
<1>6. PendingHeaps(st) \subseteq PendingHeaps(new)
  BY <1>1, <1>5 DEF PendingHeaps, Pending
<1>7. \A x \in arr : CoveredBy(x, proc \cup PendingHeaps(new))
  BY <1>6 DEF GoodState, CoveredBy
<1> QED
  BY <1>1, <1>2, <1>4, <1>7 DEF GoodState, new

(* setDone(): the heap changes from one that waits to a processed one. *)
LEMMA MarkDoneIsGood ==
  ASSUME NEW st, NEW arr \in SUBSET Heap, NEW proc \in SUBSET Heap,
         NEW nth \in 1..Len(st.heaps), GoodState(st, arr, proc)
  PROVE  LET new == MarkDone(st, nth)
         IN  /\ GoodState(new, arr, proc \cup {st.heaps[nth]})
             /\ new.heaps = st.heaps
<1> DEFINE new == MarkDone(st, nth)
           n == Len(st.heaps)
           done == [st.done EXCEPT ![nth] = TRUE]
           cnt == IF st.done[nth] THEN st.cntPending ELSE st.cntPending - 1
<1>1. /\ st \in State /\ Len(st.done) = n /\ n \in Nat
      /\ st.heaps \in Seq(Heap) /\ st.done \in Seq(BOOLEAN)
      /\ \A i \in 1..n : st.heaps[i] \in Heap /\ st.done[i] \in BOOLEAN
  BY StateFacts DEF GoodState
<1>b. /\ done \in Seq(BOOLEAN) /\ Len(done) = n
      /\ done[nth] = TRUE /\ \A i \in 1..n : i # nth => done[i] = st.done[i]
  BY <1>1, ExceptMark
<1>c. cnt \in Int
  BY <1>1, StateFacts
<1>2. new = [st EXCEPT !.done = done, !.cntPending = cnt]
  BY DEF MarkDone
<1> HIDE DEF new, done, cnt
<1>3. new \in State /\ new.heaps = st.heaps /\ new.done = done
  BY <1>1, <1>2, <1>b, <1>c DEF State
<1>4. \A i \in 1..n : new.done[i] => st.heaps[i] \in proc \cup {st.heaps[nth]}
  BY <1>1, <1>b, <1>3 DEF GoodState
<1>5. PendingHeaps(st) \subseteq PendingHeaps(new) \cup {st.heaps[nth]}
  BY <1>1, <1>b, <1>3 DEF PendingHeaps, Pending
<1>6. \A x \in arr : CoveredBy(x, proc \cup {st.heaps[nth]} \cup PendingHeaps(new))
  BY <1>5 DEF GoodState, CoveredBy
<1> QED
  BY <1>1, <1>b, <1>3, <1>4, <1>6 DEF GoodState, new

(* clear() loses nothing if no heap waits, as pruneOrigin() makes sure. *)
LEMMA ClearStateIsGood ==
  ASSUME NEW st, NEW arr \in SUBSET Heap, NEW proc \in SUBSET Heap,
         GoodState(st, arr, proc), Pending(st) = {}
  PROVE  GoodState(ClearState(st), arr, proc) /\ ClearState(st).heaps = <<>>
<1> DEFINE new == ClearState(st)
<1>1. <<>> \in Seq(Heap) /\ <<>> \in Seq(BOOLEAN) /\ Len(<<>>) = 0 /\ 0 \in Int
  BY EmptySeq
<1>a. new \in State /\ new.heaps = <<>> /\ new.done = <<>>
  BY <1>1 DEF GoodState, ClearState, State
<1> HIDE DEF new
<1>2. PendingHeaps(st) = {}
  BY DEF PendingHeaps
<1>3. \A x \in arr : CoveredBy(x, proc \cup PendingHeaps(new))
  BY <1>2 DEF GoodState, CoveredBy
<1>4. Len(new.heaps) = Len(new.done) /\ \A i \in 1..Len(new.heaps) : FALSE
  BY <1>1, <1>a
<1> QED
  BY <1>1, <1>a, <1>3, <1>4 DEF GoodState, new

(* Whether the map was hit is of no account. *)
LEMMA NoteHitIsGood ==
  ASSUME NEW st, NEW arr, NEW proc, NEW size, GoodState(st, arr, proc)
  PROVE  /\ GoodState(NoteHit(st, size), arr, proc)
         /\ NoteHit(st, size).heaps = st.heaps /\ NoteHit(st, size).done = st.done
<1> DEFINE new == NoteHit(st, size)
<1>1. new \in State /\ new.heaps = st.heaps /\ new.done = st.done
  BY DEF GoodState, NoteHit, State
<1> HIDE DEF new
<1>2. PendingHeaps(new) = PendingHeaps(st)
  BY <1>1 DEF PendingHeaps, Pending
<1> QED
  BY <1>1, <1>2 DEF GoodState, new

(* A heap that arrives is not lost if a heap of the container covers it. *)
LEMMA CoveredArrival ==
  ASSUME NEW st, NEW arr, NEW proc, NEW sh, NEW i \in 1..Len(st.heaps),
         GoodState(st, arr, proc), <<st.heaps[i], sh>> \in Covers
  PROVE  GoodState(st, arr \cup {sh}, proc)
<1>1. Len(st.done) = Len(st.heaps) /\ st.done[i] \in BOOLEAN
  BY StateFacts DEF GoodState
<1>2. st.heaps[i] \in proc \cup PendingHeaps(st)
  BY <1>1 DEF GoodState, PendingHeaps, Pending
<1>3. CoveredBy(sh, proc \cup PendingHeaps(st))
  BY <1>2 DEF CoveredBy
<1> QED
  BY <1>3 DEF GoodState

(* What the status that joinSymHeaps() reports says about the two heaps. *)
LEMMA JoinFacts ==
  ASSUME NEW a \in Heap, NEW b \in Heap, NEW allow
  PROVE  LET status == JoinStatus(a, b, allow)
         IN  /\ status \in EJoinStatus
             /\ status \in {JS_USE_ANY, JS_USE_SH1} <=> <<a, b>> \in Covers
             /\ status = JS_USE_ANY <=> a = b
             /\ status \in {JS_USE_ANY, JS_USE_SH2} => <<b, a>> \in Covers
             /\ status = JS_THREE_WAY => /\ JoinResult(a, b) \in Heap
                                         /\ <<JoinResult(a, b), a>> \in Covers
                                         /\ <<JoinResult(a, b), b>> \in Covers
<1> DEFINE third == ThreeWay[<<a, b>>]
<1>1. /\ third \in Heap \cup {NoHeap}
      /\ third # NoHeap => <<third, a>> \in Covers /\ <<third, b>> \in Covers
      /\ <<a, a>> \in Covers
  BY SymJoinAssumption
<1> HIDE DEF third
<1>2. CASE a = b
  BY <1>1, <1>2 DEF JoinStatus, EJoinStatus, JS_USE_ANY, JS_USE_SH1, JS_USE_SH2,
                    JS_THREE_WAY, JS_FAIL
<1>3. CASE a # b /\ <<a, b>> \in Covers
  BY <1>3, SymJoinAssumption DEF JoinStatus, EJoinStatus, JS_USE_ANY, JS_USE_SH1,
                    JS_USE_SH2, JS_THREE_WAY, JS_FAIL
<1>4. CASE a # b /\ <<a, b>> \notin Covers /\ <<b, a>> \in Covers
  BY <1>4 DEF JoinStatus, EJoinStatus, JS_USE_ANY, JS_USE_SH1, JS_USE_SH2,
                    JS_THREE_WAY, JS_FAIL
<1>5. CASE a # b /\ <<a, b>> \notin Covers /\ <<b, a>> \notin Covers
  BY <1>1, <1>5 DEF JoinStatus, EJoinStatus, JS_USE_ANY, JS_USE_SH1, JS_USE_SH2,
                    JS_THREE_WAY, JS_FAIL, JoinResult, third
<1> QED
  BY <1>2, <1>3, <1>4, <1>5

-------------------------------------------------------------------------------
(* The inductive invariant. *)

(***************************************************************************)
(* While packState() runs, the heap it was called for is in the container  *)
(* and waits for processing: it stands for the heaps that are erased.      *)
(***************************************************************************)
PackInv ==
  ins.pc = "pack" => /\ ins.idxOld > 0
                     /\ ins.idxNew \in 1..Len(cont[ins.dst].heaps)
                     /\ ~cont[ins.dst].done[ins.idxNew]

StateInv ==
  /\ StateTypeOK
  /\ \A k \in Key : GoodState(cont[k], arrived[k], processed[k])
  /\ PackInv

(* The invariant is what DoneIsProcessed and NothingLost ask for, and more. *)
LEMMA StateInvImplies ==
  StateInv => StateTypeOK /\ DoneIsProcessed /\ NothingLost
BY DEF StateInv, GoodState, DoneIsProcessed, NothingLost

(* All containers start out empty. *)
LEMMA StateInvInit ==
  StateInit => StateInv
<1> SUFFICES ASSUME StateInit
             PROVE  StateInv
  OBVIOUS
<1>1. /\ <<>> \in Seq(Heap) /\ <<>> \in Seq(BOOLEAN) /\ Len(<<>>) = 0
      /\ CallResults \in Key
  BY EmptySeq DEF Key
<1>2. EmptyState \in State
  BY <1>1 DEF EmptyState, State
<1>3. StateTypeOK /\ ins.pc = "idle"
  BY <1>1, <1>2 DEF StateInit, InitSymState, StateTypeOK, IdleInsertion, Insertion
<1>4. GoodState(EmptyState, {}, {})
  BY <1>1, <1>2 DEF GoodState, EmptyState
<1> QED
  BY <1>3, <1>4 DEF StateInit, InitSymState, StateInv, PackInv

(* insert() returns with a good container. *)
LEMMA ReturnKeepsInv ==
  ASSUME StateInv, NEW dst \in Key, NEW st, NEW size, NEW changed \in BOOLEAN,
         Return(dst, st, size, changed), processed' = processed,
         arrived' \in [Key -> SUBSET Heap],
         \A k \in Key : k # dst => arrived'[k] = arrived[k],
         GoodState(st, arrived'[dst], processed[dst])
  PROVE  StateInv'
<1>1. GoodState(NoteHit(st, size), arrived'[dst], processed[dst])
  BY NoteHitIsGood
<1>2. cont' \in [Key -> State] /\ cont'[dst] = NoteHit(st, size)
      /\ \A k \in Key : k # dst => cont'[k] = cont[k]
  BY <1>1 DEF Return, StateInv, StateTypeOK, GoodState
<1>3. ins' \in Insertion /\ ins'.pc = "done"
  BY DEF Return, StateInv, StateTypeOK, Insertion
<1>4. \A k \in Key : GoodState(cont'[k], arrived'[k], processed'[k])
  BY <1>1, <1>2 DEF StateInv
<1> QED
  BY <1>2, <1>3, <1>4 DEF StateInv, StateTypeOK, PackInv, GoodState, CoveredBy,
        PendingHeaps, Pending

(* SymHeapUnion::insert() *)
LEMMA UnionInsertKeepsInv ==
  ASSUME StateInv, NEW dst \in Key, NEW sh \in Heap, UnionInsert(dst, sh),
         arrived' = [arrived EXCEPT ![dst] = @ \cup {sh}], processed' = processed
  PROVE  StateInv'
<1> DEFINE st == cont[dst]
           n == Len(st.heaps)
<1>1. /\ GoodState(st, arrived[dst], processed[dst])
      /\ arrived[dst] \in SUBSET Heap /\ processed[dst] \in SUBSET Heap
  BY DEF StateInv, StateTypeOK
<1>2. /\ arrived' \in [Key -> SUBSET Heap] /\ arrived'[dst] = arrived[dst] \cup {sh}
      /\ \A k \in Key : k # dst => arrived'[k] = arrived[k]
  BY DEF StateInv, StateTypeOK
<1>3. CASE Return(dst, InsertNew(st, sh), n, TRUE)
  BY <1>1, <1>2, <1>3, InsertNewIsGood, ReturnKeepsInv
<1>4. ASSUME NEW i \in 1..n, st.heaps[i] = sh,
             Return(dst, IF conf.ordering > 1 THEN RotateExisting(st, i) ELSE st,
                    n, FALSE)
      PROVE  StateInv'
  <2>1. <<st.heaps[i], sh>> \in Covers
    BY <1>4, SymJoinAssumption
  <2>2. GoodState(st, arrived'[dst], processed[dst])
    BY <1>1, <1>2, <2>1, CoveredArrival
  <2>3. GoodState(RotateExisting(st, i), arrived'[dst], processed[dst])
    BY <1>1, <1>2, <2>2, RotateExistingIsGood
  <2> QED
    BY <1>2, <1>4, <2>2, <2>3, ReturnKeepsInv
<1> QED
  BY <1>3, <1>4 DEF UnionInsert

(* SymStateWithJoin::insert() up to the call of packState(). *)
LEMMA JoinInsertKeepsInv ==
  ASSUME StateInv, NEW dst \in Key, NEW sh \in Heap, NEW allow \in BOOLEAN,
         JoinInsert(dst, sh, allow),
         arrived' = [arrived EXCEPT ![dst] = @ \cup {sh}], processed' = processed
  PROVE  StateInv'
<1> DEFINE st == cont[dst]
           n == Len(st.heaps)
           status(i) == JoinStatus(st.heaps[i], sh, allow)
           joined(i) == IF status(i) = JS_USE_SH2 THEN sh
                                                  ELSE JoinResult(st.heaps[i], sh)
<1>1. /\ GoodState(st, arrived[dst], processed[dst]) /\ n \in Nat
      /\ arrived[dst] \in SUBSET Heap /\ processed[dst] \in SUBSET Heap
      /\ \A i \in 1..n : st.heaps[i] \in Heap
  BY StateFacts DEF StateInv, StateTypeOK
<1>2. /\ arrived' \in [Key -> SUBSET Heap] /\ arrived'[dst] = arrived[dst] \cup {sh}
      /\ \A k \in Key : k # dst => arrived'[k] = arrived[k]
  BY DEF StateInv, StateTypeOK
<1>a. ASSUME NEW i \in 1..n
      PROVE  /\ status(i) \in {JS_USE_ANY, JS_USE_SH1} <=> <<st.heaps[i], sh>> \in Covers
             /\ status(i) \in {JS_USE_ANY, JS_USE_SH2} => <<sh, st.heaps[i]>> \in Covers
             /\ status(i) = JS_THREE_WAY =>
                   /\ JoinResult(st.heaps[i], sh) \in Heap
                   /\ <<JoinResult(st.heaps[i], sh), st.heaps[i]>> \in Covers
                   /\ <<JoinResult(st.heaps[i], sh), sh>> \in Covers
  <2> DEFINE old == st.heaps[i]
  <2>1. old \in Heap
    BY <1>1
  <2> HIDE DEF old
  <2>2. LET stat == JoinStatus(old, sh, allow)
        IN  /\ stat \in {JS_USE_ANY, JS_USE_SH1} <=> <<old, sh>> \in Covers
            /\ stat \in {JS_USE_ANY, JS_USE_SH2} => <<sh, old>> \in Covers
            /\ stat = JS_THREE_WAY => /\ JoinResult(old, sh) \in Heap
                                      /\ <<JoinResult(old, sh), old>> \in Covers
                                      /\ <<JoinResult(old, sh), sh>> \in Covers
    BY <2>1, JoinFacts
  <2> QED
    BY <2>2 DEF old
<1> HIDE DEF status
<1>3. CASE Return(dst, InsertNew(st, sh), n, TRUE)
  BY <1>1, <1>2, <1>3, InsertNewIsGood, ReturnKeepsInv
<1>4. ASSUME NEW i \in 1..n, status(i) \in {JS_USE_ANY, JS_USE_SH1},
             Return(dst, IF conf.ordering > 0 THEN RotateExisting(st, i) ELSE st,
                    n, FALSE)
      PROVE  StateInv'
  <2>1. <<st.heaps[i], sh>> \in Covers
    BY <1>4, <1>a
  <2>2. GoodState(st, arrived'[dst], processed[dst])
    BY <1>1, <1>2, <2>1, CoveredArrival
  <2>3. GoodState(RotateExisting(st, i), arrived'[dst], processed[dst])
    BY <1>1, <1>2, <2>2, RotateExistingIsGood
  <2> QED
    BY <1>2, <1>4, <2>2, <2>3, ReturnKeepsInv
<1>5. ASSUME NEW i \in 1..n, status(i) \in {JS_USE_SH2, JS_THREE_WAY},
             cont' = [cont EXCEPT ![dst] = SwapExisting(st, i, joined(i))],
             ins' = [pc |-> "pack", dst |-> dst, allowThreeWay |-> allow,
                     idxNew |-> i, idxOld |-> 1, size |-> n, changed |-> TRUE]
      PROVE  StateInv'
  <2> DEFINE new == SwapExisting(st, i, joined(i))
  <2>1. /\ joined(i) \in Heap /\ <<joined(i), st.heaps[i]>> \in Covers
        /\ <<joined(i), sh>> \in Covers
    BY <1>5, <1>a, SymJoinAssumption
  <2> HIDE DEF joined
  <2>2. /\ GoodState(new, arrived[dst], processed[dst])
        /\ Len(new.heaps) = n /\ new.heaps[i] = joined(i) /\ ~new.done[i]
    <3> DEFINE j == joined(i)
    <3> HIDE DEF j
    <3>1. j \in Heap /\ <<j, st.heaps[i]>> \in Covers
      BY <2>1 DEF j
    <3>2. LET swapped == SwapExisting(st, i, j)
          IN  /\ GoodState(swapped, arrived[dst], processed[dst])
              /\ Len(swapped.heaps) = n
              /\ swapped.heaps[i] = j
              /\ ~swapped.done[i]
      <4> HIDE DEF st
      <4>1. st \in State /\ Len(st.heaps) = Len(st.done)
        BY <1>1 DEF GoodState
      <4>2. GoodState(SwapExisting(st, i, j), arrived[dst], processed[dst])
        BY <1>1, <3>1, SwapExistingIsGood
      <4>3. LET swapped == SwapExisting(st, i, j)
            IN  /\ Len(swapped.heaps) = n
                /\ swapped.heaps[i] = j /\ ~swapped.done[i]
        BY <3>1, <4>1, SwapExistingFacts
      <4> QED
        BY <4>2, <4>3
    <3> QED
      BY <3>2 DEF j
  <2> HIDE DEF new
  <2>3. GoodState(new, arrived'[dst], processed[dst])
    BY <1>1, <1>2, <2>1, <2>2, CoveredArrival
  <2>4. /\ cont' \in [Key -> State] /\ cont'[dst] = new
        /\ \A k \in Key : k # dst => cont'[k] = cont[k]
    BY <1>5, <2>2 DEF StateInv, StateTypeOK, GoodState, new
  <2>5. /\ ins' \in Insertion /\ ins'.dst = dst
        /\ ins'.idxOld = 1 /\ ins'.idxNew = i
    BY <1>1, <1>5 DEF Insertion
  <2>6. StateTypeOK'
    BY <1>2, <2>4, <2>5 DEF StateInv, StateTypeOK
  <2>7. \A k \in Key : GoodState(cont'[k], arrived'[k], processed'[k])
    BY <1>2, <2>3, <2>4 DEF StateInv
  <2>8. PackInv'
    BY <2>2, <2>4, <2>5 DEF PackInv
  <2> QED
    BY <2>6, <2>7, <2>8 DEF StateInv, GoodState, CoveredBy, PendingHeaps, Pending
<1> QED
  BY <1>3, <1>4, <1>5 DEF JoinInsert, Joinable, status

(* A call of insert() *)
LEMMA InsertBeginKeepsInv ==
  ASSUME StateInv, NEW dst \in Key, NEW sh \in Heap, NEW allow \in BOOLEAN,
         InsertBegin(dst, sh, allow)
  PROVE  StateInv'
<1> DEFINE st == cont[dst]
<1>1. arrived' = [arrived EXCEPT ![dst] = @ \cup {sh}] /\ processed' = processed
  BY DEF InsertBegin
<1>2. CASE Return(dst, InsertNew(st, sh), Len(st.heaps), TRUE)
  <2>1. /\ GoodState(st, arrived[dst], processed[dst])
        /\ arrived[dst] \in SUBSET Heap /\ processed[dst] \in SUBSET Heap
    BY DEF StateInv, StateTypeOK
  <2>2. /\ arrived' \in [Key -> SUBSET Heap] /\ arrived'[dst] = arrived[dst] \cup {sh}
        /\ \A k \in Key : k # dst => arrived'[k] = arrived[k]
    BY <1>1 DEF StateInv, StateTypeOK
  <2> QED
    BY <1>1, <1>2, <2>1, <2>2, InsertNewIsGood, ReturnKeepsInv
<1>3. CASE UnionInsert(dst, sh)
  BY <1>1, <1>3, UnionInsertKeepsInv
<1>4. CASE JoinInsert(dst, sh, allow)
  BY <1>1, <1>4, JoinInsertKeepsInv
<1> QED
  BY <1>2, <1>3, <1>4 DEF InsertBegin

(* packState() does not move a heap before it erases one. *)
LEMMA MergedFacts ==
  ASSUME NEW st \in State, Len(st.heaps) = Len(st.done),
         NEW idxOld \in 1..Len(st.heaps), NEW idxNew \in 1..Len(st.heaps),
         NEW status \in EJoinStatus, status # JS_FAIL,
         status = JS_THREE_WAY =>
            JoinResult(st.heaps[idxOld], st.heaps[idxNew]) \in Heap
  PROVE  LET merged == Merged(st, idxOld, idxNew, status)
         IN  /\ merged \in State
             /\ Len(merged.heaps) = Len(st.heaps) /\ Len(merged.done) = Len(st.heaps)
             /\ \A i \in 1..Len(st.heaps) : i # idxNew =>
                   merged.heaps[i] = st.heaps[i] /\ merged.done[i] = st.done[i]
<1> DEFINE third == JoinResult(st.heaps[idxOld], st.heaps[idxNew])
           merged == Merged(st, idxOld, idxNew, status)
<1>1. \/ merged = st
      \/ merged = SwapExisting(st, idxNew, st.heaps[idxOld])
      \/ third \in Heap /\ merged = SwapExisting(st, idxNew, third)
  BY DEF Merged, EJoinStatus
<1>2. st.heaps[idxOld] \in Heap
  BY StateFacts
<1> HIDE DEF merged
<1>3. ASSUME NEW sh \in Heap, merged = SwapExisting(st, idxNew, sh)
      PROVE  /\ merged \in State
             /\ Len(merged.heaps) = Len(st.heaps) /\ Len(merged.done) = Len(st.heaps)
             /\ \A i \in 1..Len(st.heaps) : i # idxNew =>
                   merged.heaps[i] = st.heaps[i] /\ merged.done[i] = st.done[i]
  <2> DEFINE swapped == SwapExisting(st, idxNew, sh)
  <2>1. /\ swapped \in State
        /\ Len(swapped.heaps) = Len(st.heaps) /\ Len(swapped.done) = Len(st.heaps)
        /\ \A i \in 1..Len(st.heaps) : i # idxNew =>
              swapped.heaps[i] = st.heaps[i] /\ swapped.done[i] = st.done[i]
    BY SwapExistingFacts
  <2> QED
    BY <1>3, <2>1
<1> QED
  BY <1>1, <1>2, <1>3 DEF merged

(***************************************************************************)
(* What packState() erases from: the new heap, joined with the one that is *)
(* going to be erased, still waits and covers it.                          *)
(***************************************************************************)
LEMMA MergedIsGood ==
  ASSUME NEW st, NEW arr \in SUBSET Heap, NEW proc \in SUBSET Heap, NEW allow,
         NEW idxOld \in 1..Len(st.heaps), NEW idxNew \in 1..Len(st.heaps),
         GoodState(st, arr, proc), ~st.done[idxNew], idxOld # idxNew,
         JoinStatus(st.heaps[idxOld], st.heaps[idxNew], allow) # JS_FAIL
  PROVE  LET status == JoinStatus(st.heaps[idxOld], st.heaps[idxNew], allow)
             merged == Merged(st, idxOld, idxNew, status)
         IN  /\ GoodState(merged, arr, proc)
             /\ Len(merged.heaps) = Len(st.heaps)
             /\ ~merged.done[idxNew]
             /\ <<merged.heaps[idxNew], merged.heaps[idxOld]>> \in Covers
             /\ <<merged.heaps[idxNew], st.heaps[idxNew]>> \in Covers
<1> DEFINE n == Len(st.heaps)
           old == st.heaps[idxOld]
           new == st.heaps[idxNew]
           third == JoinResult(old, new)
           status == JoinStatus(st.heaps[idxOld], st.heaps[idxNew], allow)
           merged == Merged(st, idxOld, idxNew, status)
<1> SUFFICES /\ GoodState(merged, arr, proc)
             /\ Len(merged.heaps) = n
             /\ ~merged.done[idxNew]
             /\ <<merged.heaps[idxNew], merged.heaps[idxOld]>> \in Covers
             /\ <<merged.heaps[idxNew], new>> \in Covers
  OBVIOUS
<1>1. /\ st \in State /\ Len(st.heaps) = Len(st.done) /\ n \in Nat
      /\ old \in Heap /\ new \in Heap
      /\ <<old, old>> \in Covers /\ <<new, new>> \in Covers
  BY StateFacts, SymJoinAssumption DEF GoodState
<1> HIDE DEF old, new
<1>2. /\ status \in EJoinStatus
      /\ status \in {JS_USE_ANY, JS_USE_SH1} => <<old, new>> \in Covers
      /\ status \in {JS_USE_ANY, JS_USE_SH2} => <<new, old>> \in Covers
      /\ status = JS_THREE_WAY => /\ third \in Heap
                                  /\ <<third, old>> \in Covers
                                  /\ <<third, new>> \in Covers
  <2>1. status = JoinStatus(old, new, allow)
    BY DEF old, new
  <2> QED
    BY <1>1, <2>1, JoinFacts
<1> HIDE DEF third, status, merged
<1>3. ASSUME NEW sh \in Heap, <<sh, old>> \in Covers, <<sh, new>> \in Covers,
             merged = SwapExisting(st, idxNew, sh)
      PROVE  /\ GoodState(merged, arr, proc)
             /\ Len(merged.heaps) = n /\ ~merged.done[idxNew]
             /\ merged.heaps[idxNew] = sh /\ merged.heaps[idxOld] = old
             /\ \A i \in 1..n : i # idxNew => merged.heaps[i] = st.heaps[i]
  <2>1. GoodState(merged, arr, proc)
    BY <1>3, SwapExistingIsGood DEF new
  <2>2. /\ Len(merged.heaps) = n /\ ~merged.done[idxNew]
        /\ merged.heaps[idxNew] = sh
        /\ \A i \in 1..n : i # idxNew => merged.heaps[i] = st.heaps[i]
    <3> DEFINE swapped == SwapExisting(st, idxNew, sh)
    <3>1. /\ Len(swapped.heaps) = n /\ ~swapped.done[idxNew]
          /\ swapped.heaps[idxNew] = sh
          /\ \A i \in 1..n : i # idxNew => swapped.heaps[i] = st.heaps[i]
      BY <1>1, <1>3, SwapExistingFacts
    <3> QED
      BY <1>3, <3>1
  <2> QED
    BY <2>1, <2>2 DEF old
<1>4. CASE status \in {JS_USE_ANY, JS_USE_SH2}
  <2>1. merged = st
    BY <1>4 DEF merged, Merged, JS_USE_ANY, JS_USE_SH1, JS_USE_SH2, JS_THREE_WAY
  <2> QED
    BY <1>1, <1>2, <1>4, <2>1 DEF old, new
<1>5. CASE status = JS_USE_SH1
  <2>1. merged = SwapExisting(st, idxNew, old)
    BY <1>5 DEF merged, Merged, JS_USE_ANY, JS_USE_SH1, JS_USE_SH2, JS_THREE_WAY, old
  <2> QED
    BY <1>1, <1>2, <1>3, <1>5, <2>1 DEF new
<1>6. CASE status = JS_THREE_WAY
  <2>1. merged = SwapExisting(st, idxNew, third)
    BY <1>6 DEF merged, Merged, JS_USE_ANY, JS_USE_SH1, JS_USE_SH2, JS_THREE_WAY,
                third, old, new
  <2> QED
    BY <1>2, <1>3, <1>6, <2>1 DEF new
<1> QED
  BY <1>2, <1>4, <1>5, <1>6 DEF EJoinStatus, status

(* One turn of the loop in packState() *)
LEMMA PackStepKeepsInv ==
  ASSUME StateInv, PackStep
  PROVE  StateInv'
<1> DEFINE dst == ins.dst
           st == cont[dst]
           n == Len(st.heaps)
           idxOld == ins.idxOld
           idxNew == ins.idxNew
           status == JoinStatus(st.heaps[idxOld], st.heaps[idxNew], ins.allowThreeWay)
           merged == Merged(st, idxOld, idxNew, status)
<1>1. /\ dst \in Key /\ idxOld \in Nat /\ idxNew \in Nat
      /\ GoodState(st, arrived[dst], processed[dst]) /\ n \in Nat
      /\ arrived[dst] \in SUBSET Heap /\ processed[dst] \in SUBSET Heap
      /\ idxOld \in 1..n /\ idxNew \in 1..n /\ ~st.done[idxNew]
  BY StateFacts DEF StateInv, StateTypeOK, Insertion, PackInv, PackStep
<1>2. arrived' = arrived /\ processed' = processed
  BY DEF PackStep
<1>3. CASE ins' = [ins EXCEPT !.idxOld = @ + 1] /\ cont' = cont
  <2>1. /\ ins' \in Insertion /\ ins'.dst = dst /\ ins'.pc = ins.pc
        /\ ins'.idxOld = idxOld + 1 /\ ins'.idxNew = idxNew
    BY <1>1, <1>3 DEF StateInv, StateTypeOK, Insertion
  <2>2. StateTypeOK'
    BY <1>2, <1>3, <2>1 DEF StateInv, StateTypeOK
  <2>3. PackInv'
    BY <1>1, <1>3, <2>1 DEF PackInv
  <2> QED
    BY <1>2, <1>3, <2>2, <2>3 DEF StateInv, GoodState, CoveredBy, PendingHeaps, Pending
<1>4. ASSUME idxOld # idxNew, status # JS_FAIL,
             cont' = [cont EXCEPT ![dst] = EraseExisting(merged, idxOld)],
             ins' = [ins EXCEPT !.idxNew = IF idxOld < @ THEN @ - 1 ELSE @]
      PROVE  StateInv'
  <2> DEFINE new == EraseExisting(merged, idxOld)
             idx == IF idxOld < idxNew THEN idxNew - 1 ELSE idxNew
  <2>1. /\ GoodState(merged, arrived[dst], processed[dst])
        /\ Len(merged.heaps) = n /\ ~merged.done[idxNew]
        /\ <<merged.heaps[idxNew], merged.heaps[idxOld]>> \in Covers
    <3> DEFINE arr == arrived[dst]
               proc == processed[dst]
               allow == ins.allowThreeWay
    <3> HIDE DEF arr, proc, allow, st, idxOld, idxNew
    <3>1. /\ arr \in SUBSET Heap /\ proc \in SUBSET Heap /\ GoodState(st, arr, proc)
          /\ idxOld \in 1..Len(st.heaps) /\ idxNew \in 1..Len(st.heaps)
          /\ ~st.done[idxNew] /\ idxOld # idxNew
          /\ JoinStatus(st.heaps[idxOld], st.heaps[idxNew], allow) # JS_FAIL
      BY <1>1, <1>4 DEF arr, proc, allow
    <3> DEFINE m == Merged(st, idxOld, idxNew,
                           JoinStatus(st.heaps[idxOld], st.heaps[idxNew], allow))
    <3>2. GoodState(m, arr, proc)
      BY <3>1, MergedIsGood
    <3>3. Len(m.heaps) = Len(st.heaps)
      <4> DEFINE old == st.heaps[idxOld]
                 other == st.heaps[idxNew]
                 stat == JoinStatus(old, other, allow)
      <4>1. /\ st \in State /\ Len(st.heaps) = Len(st.done)
            /\ old \in Heap /\ other \in Heap
        BY <3>1, StateFacts DEF GoodState
      <4> HIDE DEF old, other
      <4>2. stat \in EJoinStatus /\ (stat = JS_THREE_WAY => JoinResult(old, other) \in Heap)
        BY <4>1, JoinFacts
      <4>3. stat = JoinStatus(st.heaps[idxOld], st.heaps[idxNew], allow)
        BY DEF old, other
      <4> HIDE DEF stat
      <4>4. Len(Merged(st, idxOld, idxNew, stat).heaps) = Len(st.heaps)
        BY <3>1, <4>1, <4>2, <4>3, MergedFacts DEF old, other
      <4> QED
        BY <4>3, <4>4
    <3>4. ~m.done[idxNew]
      BY <3>1, MergedIsGood
    <3>5. <<m.heaps[idxNew], m.heaps[idxOld]>> \in Covers
      BY <3>1, MergedIsGood
    <3> QED
      BY <3>2, <3>3, <3>4, <3>5 DEF arr, proc, allow
  <2> HIDE DEF merged, status
  <2>2. GoodState(new, arrived[dst], processed[dst])
    BY <1>1, <1>4, <2>1, EraseExistingIsGood
  <2>3. /\ Len(new.heaps) = n - 1 /\ Len(new.done) = n - 1
        /\ \A i \in 1..(n - 1) :
              new.done[i] = merged.done[IF i < idxOld THEN i ELSE i + 1]
    <3>1. merged \in State /\ Len(merged.heaps) = Len(merged.done)
      BY <2>1 DEF GoodState
    <3>2. /\ Len(new.heaps) = Len(merged.heaps) - 1
          /\ Len(new.done) = Len(merged.heaps) - 1
          /\ \A i \in 1..(Len(merged.heaps) - 1) :
                new.done[i] = merged.done[IF i < idxOld THEN i ELSE i + 1]
      BY <1>1, <2>1, <3>1, EraseExistingFacts
    <3> QED
      BY <2>1, <3>2
  <2> HIDE DEF new
  <2>4. /\ idx \in 1..(n - 1)
        /\ (IF idx < idxOld THEN idx ELSE idx + 1) = idxNew
    BY <1>1, <1>4
  <2>5. ~new.done[idx]
    BY <2>1, <2>3, <2>4
  <2>6. /\ cont' \in [Key -> State] /\ cont'[dst] = new
        /\ \A k \in Key : k # dst => cont'[k] = cont[k]
    BY <1>1, <1>4, <2>2 DEF StateInv, StateTypeOK, GoodState, new
  <2>7. /\ ins' \in Insertion /\ ins'.dst = dst /\ ins'.pc = ins.pc
        /\ ins'.idxOld = idxOld /\ ins'.idxNew = idx
    BY <1>1, <1>4, <2>4 DEF StateInv, StateTypeOK, Insertion
  <2>8. StateTypeOK'
    BY <1>2, <2>6, <2>7 DEF StateInv, StateTypeOK
  <2>9. \A k \in Key : GoodState(cont'[k], arrived'[k], processed'[k])
    BY <1>2, <2>2, <2>6 DEF StateInv
  <2>10. PackInv'
    <3>1. /\ cont'[ins'.dst] = new /\ ins'.idxNew = idx
          /\ ins'.idxNew \in 1..Len(cont'[ins'.dst].heaps)
          /\ ~cont'[ins'.dst].done[ins'.idxNew]
      BY <2>3, <2>4, <2>5, <2>6, <2>7
    <3> HIDE DEF idx
    <3> QED
      BY <1>1, <2>3, <2>4, <2>7, <3>1 DEF PackInv
  <2> QED
    BY <2>8, <2>9, <2>10 DEF StateInv, GoodState, CoveredBy, PendingHeaps, Pending
<1> QED
  BY <1>3, <1>4 DEF PackStep, Accepts

(* The end of packState() *)
LEMMA PackDoneKeepsInv ==
  ASSUME StateInv, PackDone
  PROVE  StateInv'
<1> DEFINE dst == ins.dst
           st == cont[dst]
<1>1. /\ dst \in Key /\ GoodState(st, arrived[dst], processed[dst])
      /\ arrived[dst] \in SUBSET Heap /\ processed[dst] \in SUBSET Heap
      /\ ins.idxNew \in 1..Len(st.heaps)
  BY DEF StateInv, StateTypeOK, Insertion, PackInv, PackDone
<1>2. GoodState(RotateExisting(st, ins.idxNew), arrived[dst], processed[dst])
  BY <1>1, RotateExistingIsGood
<1>3. arrived' = arrived /\ processed' = processed /\ arrived \in [Key -> SUBSET Heap]
  BY DEF PackDone, StateInv, StateTypeOK
<1> QED
  BY <1>1, <1>2, <1>3, ReturnKeepsInv DEF PackDone

(* insert() has returned. *)
LEMMA InsertReturnKeepsInv ==
  ASSUME StateInv, InsertReturn
  PROVE  StateInv'
<1>1. ins' \in Insertion /\ ins'.pc = "idle"
  BY DEF StateInv, StateTypeOK, InsertReturn, Insertion
<1>2. cont' = cont /\ arrived' = arrived /\ processed' = processed
  BY DEF InsertReturn
<1> QED
  BY <1>1, <1>2 DEF StateInv, StateTypeOK, PackInv, GoodState, CoveredBy,
                    PendingHeaps, Pending

(* A container and its history change while no call of insert() runs. *)
LEMMA UpdateKeepsInv ==
  ASSUME StateInv, ins.pc = "idle", ins' = ins, NEW key \in Key, NEW st, NEW proc,
         cont' = [cont EXCEPT ![key] = st], arrived' = arrived,
         processed' = [processed EXCEPT ![key] = proc], proc \in SUBSET Heap,
         GoodState(st, arrived[key], proc)
  PROVE  StateInv'
<1>1. /\ cont' \in [Key -> State] /\ cont'[key] = st
      /\ processed' \in [Key -> SUBSET Heap] /\ processed'[key] = proc
      /\ \A k \in Key : k # key => cont'[k] = cont[k] /\ processed'[k] = processed[k]
  BY DEF StateInv, StateTypeOK, GoodState
<1>2. StateTypeOK'
  BY <1>1 DEF StateInv, StateTypeOK
<1>3. \A k \in Key : GoodState(cont'[k], arrived'[k], processed'[k])
  BY <1>1 DEF StateInv
<1>4. PackInv'
  BY DEF PackInv
<1> QED
  BY <1>2, <1>3, <1>4 DEF StateInv, GoodState, CoveredBy, PendingHeaps, Pending

(* setDone() on behalf of the heap itself *)
LEMMA SetDoneKeepsInv ==
  ASSUME StateInv, NEW key \in Key, NEW nth \in Pending(cont[key]),
         SetDone(key, nth, cont[key].heaps[nth])
  PROVE  StateInv'
<1> DEFINE st == cont[key]
           proc == processed[key] \cup {st.heaps[nth]}
<1>1. /\ GoodState(st, arrived[key], processed[key])
      /\ arrived[key] \in SUBSET Heap /\ processed[key] \in SUBSET Heap
  BY DEF StateInv, StateTypeOK
<1>2. nth \in 1..Len(st.heaps) /\ st.heaps[nth] \in Heap
  BY <1>1, StateFacts DEF GoodState, Pending
<1>3. GoodState(MarkDone(st, nth), arrived[key], proc) /\ proc \in SUBSET Heap
  BY <1>1, <1>2, MarkDoneIsGood
<1>4. /\ ins.pc = "idle" /\ ins' = ins /\ arrived' = arrived
      /\ cont' = [cont EXCEPT ![key] = MarkDone(st, nth)]
      /\ processed' = [processed EXCEPT ![key] = proc]
  BY DEF SetDone
<1> HIDE DEF proc
<1> QED
  BY <1>3, <1>4, UpdateKeepsInv

(* The end of pruneOrigin() *)
LEMMA ClearIfDoneKeepsInv ==
  ASSUME StateInv, NEW key \in Key, ClearIfDone(key)
  PROVE  StateInv'
<1> DEFINE st == cont[key]
           new == IF Pending(st) = {} THEN ClearState(st) ELSE st
<1>1. /\ GoodState(st, arrived[key], processed[key])
      /\ arrived[key] \in SUBSET Heap /\ processed[key] \in SUBSET Heap
  BY DEF StateInv, StateTypeOK
<1>2. GoodState(new, arrived[key], processed[key])
  BY <1>1, ClearStateIsGood
<1>3. /\ ins.pc = "idle" /\ ins' = ins /\ arrived' = arrived
      /\ cont' = [cont EXCEPT ![key] = new]
      /\ processed' = [processed EXCEPT ![key] = processed[key]]
  BY DEF ClearIfDone, StateInv, StateTypeOK
<1> HIDE DEF new
<1> QED
  BY <1>1, <1>2, <1>3, UpdateKeepsInv

(* Every step of the containers keeps the invariant. *)
LEMMA StateInvNext ==
  StateInv /\ [StateNext]_stateVars => StateInv'
<1> SUFFICES ASSUME StateInv, [StateNext]_stateVars
             PROVE  StateInv'
  OBVIOUS
<1> USE DEF Key
<1>1. CASE ClientInsert
  BY <1>1, InsertBeginKeepsInv, SymStateAssumption DEF ClientInsert
<1>2. CASE PackStep
  BY <1>2, PackStepKeepsInv
<1>3. CASE PackDone
  BY <1>3, PackDoneKeepsInv
<1>4. CASE InsertReturn
  BY <1>4, InsertReturnKeepsInv
<1>5. CASE ClientSetDone
  BY <1>5, SetDoneKeepsInv, SymStateAssumption DEF ClientSetDone
<1>6. CASE ClientClear
  BY <1>6, ClearIfDoneKeepsInv, SymStateAssumption DEF ClientClear
<1>7. CASE UNCHANGED stateVars
  BY <1>7 DEF stateVars, StateInv, StateTypeOK, PackInv, GoodState, CoveredBy,
              PendingHeaps, Pending
<1> QED
  BY <1>1, <1>2, <1>3, <1>4, <1>5, <1>6, <1>7 DEF StateNext

-------------------------------------------------------------------------------
(* Isomorphic heaps. *)

Distinct(st) ==
  \A i, j \in 1..Len(st.heaps) : st.heaps[i] = st.heaps[j] => i = j

(***************************************************************************)
(* In packState(): only the new heap may be there twice, and none of the   *)
(* heaps it has been compared with covers it.  As the new heap only grows, *)
(* it can never become one of those.                                       *)
(***************************************************************************)
DistinctBut(st, idxNew, idxOld) ==
  /\ \A i, j \in (1..Len(st.heaps)) \ {idxNew} : st.heaps[i] = st.heaps[j] => i = j
  /\ \A i \in (1..Len(st.heaps)) \ {idxNew} :
        i < idxOld => <<st.heaps[i], st.heaps[idxNew]>> \notin Covers

IsoInv ==
  \A k \in Block : ~BypassesChecks(k) =>
     IF ins.pc = "pack" /\ ins.dst = k
     THEN DistinctBut(cont[k], ins.idxNew, ins.idxOld)
     ELSE Distinct(cont[k])

(* Which blocks bypass the checks is given by the program and the options. *)
LEMMA BypassIsFixed ==
  ASSUME prog' = prog, conf' = conf
  PROVE  \A k : BypassesChecks(k)' <=> BypassesChecks(k)
<1>1. \A b : Targets(b)' = Targets(b) /\ Insns(b)' = Insns(b)
  BY DEF Targets, LastInsn, Insns
<1>2. \A b : InboundCnt(b)' = InboundCnt(b)
  BY <1>1 DEF InboundCnt
<1>3. \A b : IsTrivial(b)' <=> IsTrivial(b)
  BY <1>1 DEF IsTrivial, FirstInsn, LastInsn
<1> QED
  BY <1>2, <1>3 DEF BypassesChecks

(* insertNew() of a heap that is not there *)
LEMMA InsertNewDistinct ==
  ASSUME NEW st \in State, NEW sh \in Heap, Distinct(st),
         \A i \in 1..Len(st.heaps) : st.heaps[i] # sh
  PROVE  Distinct(InsertNew(st, sh))
<1> DEFINE new == InsertNew(st, sh)
           heaps == Append(st.heaps, sh)
           n == Len(st.heaps)
<1>1. n \in Nat /\ st.heaps \in Seq(Heap)
  BY StateFacts
<1>2. /\ Len(heaps) = n + 1 /\ heaps[n + 1] = sh
      /\ \A i \in 1..n : heaps[i] = st.heaps[i]
  BY <1>1, AppendFacts
<1>3. new.heaps = heaps
  BY DEF InsertNew, State
<1> HIDE DEF new, heaps
<1>4. ASSUME NEW i \in 1..(n + 1), NEW j \in 1..(n + 1), heaps[i] = heaps[j]
      PROVE  i = j
  <2>1. CASE i = n + 1 /\ j # n + 1
    BY <1>1, <1>2, <1>4, <2>1
  <2>2. CASE i # n + 1 /\ j = n + 1
    BY <1>1, <1>2, <1>4, <2>2
  <2>3. CASE i \in 1..n /\ j \in 1..n
    BY <1>2, <1>4, <2>3 DEF Distinct
  <2> QED
    BY <1>1, <2>1, <2>2, <2>3
<1> QED
  BY <1>2, <1>3, <1>4 DEF Distinct, new

(* rotateExisting() *)
LEMMA RotateDistinct ==
  ASSUME NEW st \in State, Len(st.heaps) = Len(st.done),
         NEW nth \in 1..Len(st.heaps), Distinct(st)
  PROVE  Distinct(RotateExisting(st, nth))
<1> DEFINE new == RotateExisting(st, nth)
           n == Len(st.heaps)
           from(i) == IF i <= n - nth + 1 THEN i + nth - 1 ELSE i - (n - nth + 1)
<1>1. n \in Nat
  BY StateFacts
<1>2. /\ Len(new.heaps) = n
      /\ \A i \in 1..n : new.heaps[i] = st.heaps[from(i)]
  BY RotateExistingFacts
<1>3. /\ \A i \in 1..n : from(i) \in 1..n
      /\ \A i, j \in 1..n : from(i) = from(j) => i = j
  BY <1>1, RotateIndices
<1> HIDE DEF new, from
<1>4. ASSUME NEW i \in 1..n, NEW j \in 1..n, new.heaps[i] = new.heaps[j]
      PROVE  i = j
  <2>1. st.heaps[from(i)] = st.heaps[from(j)]
    BY <1>2, <1>4
  <2>2. from(i) = from(j)
    BY <1>3, <2>1 DEF Distinct
  <2> QED
    BY <1>3, <2>2
<1> QED
  BY <1>2, <1>4 DEF Distinct, new

(* swapExisting() before packState() *)
LEMMA SwapDistinct ==
  ASSUME NEW st \in State, Len(st.heaps) = Len(st.done),
         NEW nth \in 1..Len(st.heaps), NEW sh \in Heap, Distinct(st)
  PROVE  DistinctBut(SwapExisting(st, nth, sh), nth, 1)
<1> DEFINE new == SwapExisting(st, nth, sh)
<1>1. /\ Len(new.heaps) = Len(st.heaps)
      /\ \A i \in 1..Len(st.heaps) : i # nth => new.heaps[i] = st.heaps[i]
  BY SwapExistingFacts
<1>2. Len(st.heaps) \in Nat
  BY StateFacts
<1> HIDE DEF new
<1> QED
  BY <1>1, <1>2 DEF Distinct, DistinctBut, new

(* insert() has returned with a container. *)
LEMMA ReturnKeepsIso ==
  ASSUME StateInv, IsoInv, prog' = prog, conf' = conf,
         NEW dst \in Key, NEW st \in State, NEW size, NEW changed,
         Return(dst, st, size, changed), ins.pc = "pack" => ins.dst = dst,
         dst \in Block /\ ~BypassesChecks(dst) => Distinct(st)
  PROVE  IsoInv'
<1>1. /\ cont'[dst].heaps = st.heaps
      /\ \A k \in Key : k # dst => cont'[k] = cont[k]
  BY DEF Return, NoteHit, StateInv, StateTypeOK, State
<1>2. ins'.pc = "done"
  BY DEF Return, StateInv, StateTypeOK, Insertion
<1> SUFFICES ASSUME NEW k \in Block, ~BypassesChecks(k) PROVE Distinct(cont'[k])
  BY <1>2, BypassIsFixed DEF IsoInv, Distinct
<1>3. CASE k = dst
  BY <1>1, <1>3 DEF Distinct
<1>4. CASE k # dst
  BY <1>1, <1>4 DEF IsoInv, Key
<1> QED
  BY <1>3, <1>4

(* A call of insert() *)
LEMMA InsertBeginKeepsIso ==
  ASSUME StateInv, IsoInv, prog' = prog, conf' = conf,
         NEW dst \in Key, NEW sh \in Heap, NEW allow \in BOOLEAN,
         InsertBegin(dst, sh, allow)
  PROVE  IsoInv'
<1> DEFINE st == cont[dst]
           n == Len(st.heaps)
           status(i) == JoinStatus(st.heaps[i], sh, allow)
<1>1. /\ st \in State /\ n = Len(st.done) /\ n \in Nat
      /\ \A i \in 1..n : st.heaps[i] \in Heap
      /\ InsertNew(st, sh) \in State
      /\ \A i \in 1..n : RotateExisting(st, i) \in State
  <2>1. st \in State /\ n = Len(st.done) /\ GoodState(st, arrived[dst], processed[dst])
    BY DEF StateInv, StateTypeOK, GoodState
  <2>2. GoodState(InsertNew(st, sh), arrived[dst] \cup {sh}, processed[dst])
    BY <2>1, InsertNewIsGood DEF StateInv, StateTypeOK
  <2>3. \A i \in 1..n : RotateExisting(st, i) \in State
    BY <2>1, RotateExistingFacts
  <2> QED
    BY <2>1, <2>2, <2>3, StateFacts DEF GoodState
<1>2. ins.pc = "idle"
  BY DEF InsertBegin
<1>3. dst \in Block /\ ~BypassesChecks(dst) => Distinct(st)
  BY <1>2 DEF IsoInv
<1>4. CASE BypassesChecks(dst) /\ Return(dst, InsertNew(st, sh), n, TRUE)
  BY <1>1, <1>2, <1>4, ReturnKeepsIso
<1>5. CASE Return(dst, InsertNew(st, sh), n, TRUE) /\ \A i \in 1..n : st.heaps[i] # sh
  BY <1>1, <1>2, <1>3, <1>5, InsertNewDistinct, ReturnKeepsIso
<1>6. ASSUME NEW i \in 1..n, NEW st2, st2 \in {st, RotateExisting(st, i)},
             Return(dst, st2, n, FALSE)
      PROVE  IsoInv'
  <2>1. dst \in Block /\ ~BypassesChecks(dst) => Distinct(st2)
    BY <1>1, <1>3, <1>6, RotateDistinct
  <2> QED
    BY <1>1, <1>2, <1>6, <2>1, ReturnKeepsIso
<1>7. ASSUME NEW i \in 1..n, NEW new \in Heap,
             cont' = [cont EXCEPT ![dst] = SwapExisting(st, i, new)],
             ins' = [pc |-> "pack", dst |-> dst, allowThreeWay |-> allow,
                     idxNew |-> i, idxOld |-> 1, size |-> n, changed |-> TRUE]
      PROVE  IsoInv'
  <2>1. /\ cont'[dst] = SwapExisting(st, i, new)
        /\ \A k \in Key : k # dst => cont'[k] = cont[k]
    BY <1>7 DEF StateInv, StateTypeOK
  <2> HIDE DEF st
  <2>2. Distinct(st) => DistinctBut(SwapExisting(st, i, new), i, 1)
    BY <1>1, <1>7, SwapDistinct
  <2> SUFFICES ASSUME NEW k \in Block, ~BypassesChecks(k)
               PROVE  IF k = dst THEN DistinctBut(cont'[k], i, 1) ELSE Distinct(cont'[k])
    BY <1>7, BypassIsFixed DEF IsoInv, Distinct, DistinctBut
  <2>3. CASE k = dst
    BY <1>3, <2>1, <2>2, <2>3
  <2>4. CASE k # dst
    BY <1>2, <2>1, <2>4 DEF IsoInv, Key
  <2> QED
    BY <2>3, <2>4
<1>8. CASE UnionInsert(dst, sh)
  BY <1>5, <1>6, <1>8 DEF UnionInsert
<1>9. CASE JoinInsert(dst, sh, allow)
  <2>1. ASSUME NEW i \in 1..n
        PROVE  /\ st.heaps[i] = sh => Accepts(status(i))
               /\ status(i) = JS_THREE_WAY => JoinResult(st.heaps[i], sh) \in Heap
    <3> DEFINE old == st.heaps[i]
    <3>1. old \in Heap
      BY <1>1
    <3> HIDE DEF old
    <3>2. LET s == JoinStatus(old, sh, allow)
          IN  (s = JS_USE_ANY <=> old = sh) /\ (s = JS_THREE_WAY => JoinResult(old, sh) \in Heap)
      BY <3>1, JoinFacts
    <3> QED
      BY <3>2 DEF old, Accepts, JS_USE_ANY, JS_FAIL, JS_USE_SH2
  <2>2. CASE Joinable(st, sh, allow) = {} /\ Return(dst, InsertNew(st, sh), n, TRUE)
    <3>1. \A i \in 1..n : st.heaps[i] # sh
      BY <2>1, <2>2 DEF Joinable
    <3> QED
      BY <1>5, <2>2, <3>1
  <2>3. ASSUME NEW i \in 1..n,
               Return(dst, IF conf.ordering > 0 THEN RotateExisting(st, i) ELSE st,
                      n, FALSE)
        PROVE  IsoInv'
    BY <1>6, <2>3
  <2>4. ASSUME NEW i \in 1..n, status(i) \in {JS_USE_SH2, JS_THREE_WAY},
               cont' = [cont EXCEPT ![dst] =
                  SwapExisting(st, i, IF status(i) = JS_USE_SH2
                                      THEN sh ELSE JoinResult(st.heaps[i], sh))],
               ins' = [pc |-> "pack", dst |-> dst, allowThreeWay |-> allow,
                       idxNew |-> i, idxOld |-> 1, size |-> n, changed |-> TRUE]
        PROVE  IsoInv'
    <3> DEFINE new == IF status(i) = JS_USE_SH2 THEN sh ELSE JoinResult(st.heaps[i], sh)
    <3>1. new \in Heap
      BY <2>1, <2>4
    <3> HIDE DEF new, st
    <3> QED
      BY <1>7, <2>4, <3>1 DEF new
  <2> QED
    BY <1>9, <2>2, <2>3, <2>4 DEF JoinInsert, Joinable
<1> QED
  BY <1>4, <1>8, <1>9 DEF InsertBegin

(* packState(): the heap at idxOld does not cover the new one, go on. *)
LEMMA PackGoesOn ==
  ASSUME NEW st \in State, NEW allow, NEW idxOld \in 1..Len(st.heaps),
         NEW idxNew \in 1..Len(st.heaps), DistinctBut(st, idxNew, idxOld),
         idxOld = idxNew
            \/ ~Accepts(JoinStatus(st.heaps[idxOld], st.heaps[idxNew], allow))
  PROVE  DistinctBut(st, idxNew, idxOld + 1)
<1> DEFINE old == st.heaps[idxOld]
           new == st.heaps[idxNew]
<1>1. old \in Heap /\ new \in Heap /\ Len(st.heaps) \in Nat
  BY StateFacts
<1> HIDE DEF old, new
<1>2. LET s == JoinStatus(old, new, allow)
      IN  s \in {JS_USE_ANY, JS_USE_SH1} <=> <<old, new>> \in Covers
  BY <1>1, JoinFacts
<1>3. idxOld # idxNew => <<old, new>> \notin Covers
  BY <1>2 DEF Accepts, JS_USE_ANY, JS_USE_SH1, JS_USE_SH2, JS_FAIL, old, new
<1>4. ASSUME NEW i \in (1..Len(st.heaps)) \ {idxNew}, i < idxOld + 1
      PROVE  <<st.heaps[i], new>> \notin Covers
  <2>1. i < idxOld \/ i = idxOld
    BY <1>1, <1>4
  <2> QED
    BY <1>3, <1>4, <2>1 DEF DistinctBut, old, new
<1> QED
  BY <1>4 DEF DistinctBut, new

(* packState(): the heap at idxOld is joined into the new one and erased. *)
LEMMA PackErases ==
  ASSUME NEW st, NEW arr \in SUBSET Heap, NEW proc \in SUBSET Heap, NEW allow,
         NEW idxOld \in 1..Len(st.heaps), NEW idxNew \in 1..Len(st.heaps),
         GoodState(st, arr, proc), ~st.done[idxNew], idxOld # idxNew,
         JoinStatus(st.heaps[idxOld], st.heaps[idxNew], allow) # JS_FAIL,
         DistinctBut(st, idxNew, idxOld)
  PROVE  LET status == JoinStatus(st.heaps[idxOld], st.heaps[idxNew], allow)
             merged == Merged(st, idxOld, idxNew, status)
             idx == IF idxOld < idxNew THEN idxNew - 1 ELSE idxNew
         IN  DistinctBut(EraseExisting(merged, idxOld), idx, idxOld)
<1> DEFINE n == Len(st.heaps)
           status == JoinStatus(st.heaps[idxOld], st.heaps[idxNew], allow)
           merged == Merged(st, idxOld, idxNew, status)
           new == EraseExisting(merged, idxOld)
           from(i) == IF i < idxOld THEN i ELSE i + 1
           idx == IF idxOld < idxNew THEN idxNew - 1 ELSE idxNew
<1>1. st \in State /\ n = Len(st.done) /\ n \in Nat /\ \A i \in 1..n : st.heaps[i] \in Heap
  BY StateFacts DEF GoodState
<1>2. /\ Len(merged.heaps) = n
      /\ \A i \in 1..n : i # idxNew => merged.heaps[i] = st.heaps[i]
  <2> DEFINE old == st.heaps[idxOld]
             other == st.heaps[idxNew]
             stat == JoinStatus(old, other, allow)
  <2>1. old \in Heap /\ other \in Heap
    BY <1>1
  <2> HIDE DEF old, other
  <2>2. stat \in EJoinStatus /\ (stat = JS_THREE_WAY => JoinResult(old, other) \in Heap)
    BY <2>1, JoinFacts
  <2>3. stat = status
    BY DEF old, other
  <2> HIDE DEF stat
  <2>4. LET m == Merged(st, idxOld, idxNew, stat)
        IN  /\ Len(m.heaps) = n
            /\ \A i \in 1..n : i # idxNew => m.heaps[i] = st.heaps[i]
    BY <1>1, <2>2, <2>3, MergedFacts DEF old, other
  <2> QED
    BY <2>3, <2>4
<1>3. /\ merged \in State /\ Len(merged.done) = n
      /\ Len(merged.heaps) = n
      /\ <<merged.heaps[idxNew], st.heaps[idxNew]>> \in Covers
  <2>1. GoodState(merged, arr, proc)
    BY MergedIsGood
  <2>3. Len(merged.heaps) = n
    BY <1>2
  <2>2. <<merged.heaps[idxNew], st.heaps[idxNew]>> \in Covers
    BY MergedIsGood
  <2> HIDE DEF merged
  <2> QED
    BY <2>1, <2>2, <2>3 DEF GoodState
<1> HIDE DEF merged, status
<1>4. /\ Len(new.heaps) = n - 1
      /\ \A i \in 1..(n - 1) : new.heaps[i] = merged.heaps[from(i)]
  BY <1>3, EraseExistingFacts
<1>5. /\ \A i \in 1..(n - 1) : from(i) \in 1..n
      /\ \A i, j \in 1..(n - 1) : from(i) = from(j) => i = j
      /\ idx \in 1..(n - 1) /\ from(idx) = idxNew
      /\ \A i \in 1..(n - 1) : i < idxOld => from(i) = i
  BY <1>1
<1> HIDE DEF new, from, idx
<1>6. \A i \in (1..(n - 1)) \ {idx} :
         /\ from(i) \in (1..n) \ {idxNew}
         /\ new.heaps[i] = st.heaps[from(i)]
  BY <1>2, <1>4, <1>5
<1>7. ASSUME NEW i \in (1..(n - 1)) \ {idx}, NEW j \in (1..(n - 1)) \ {idx},
             new.heaps[i] = new.heaps[j]
      PROVE  i = j
  <2>1. st.heaps[from(i)] = st.heaps[from(j)]
    BY <1>6, <1>7
  <2>2. from(i) = from(j)
    BY <1>6, <2>1 DEF DistinctBut
  <2> QED
    BY <1>5, <2>2
<1>8. ASSUME NEW i \in (1..(n - 1)) \ {idx}, i < idxOld,
             <<new.heaps[i], new.heaps[idx]>> \in Covers
      PROVE  FALSE
  <2>1. new.heaps[i] = st.heaps[i] /\ i \in (1..n) \ {idxNew}
    BY <1>5, <1>6, <1>8
  <2>2. new.heaps[idx] = merged.heaps[idxNew]
    BY <1>4, <1>5
  <2>3. <<st.heaps[i], st.heaps[idxNew]>> \in Covers
    <3>1. merged.heaps[idxNew] \in Heap /\ st.heaps[i] \in Heap /\ st.heaps[idxNew] \in Heap
      BY <1>1, <1>3, <2>1, StateFacts
    <3> QED
      BY <1>3, <1>8, <2>1, <2>2, <3>1, SymJoinAssumption
  <2> QED
    BY <1>8, <2>1, <2>3 DEF DistinctBut
<1> QED
  BY <1>4, <1>7, <1>8 DEF DistinctBut, new, idx, merged, status

(* One turn of the loop in packState() *)
LEMMA PackStepKeepsIso ==
  ASSUME StateInv, IsoInv, prog' = prog, conf' = conf, PackStep
  PROVE  IsoInv'
<1> DEFINE dst == ins.dst
           st == cont[dst]
           n == Len(st.heaps)
           idxOld == ins.idxOld
           idxNew == ins.idxNew
           allow == ins.allowThreeWay
           status == JoinStatus(st.heaps[idxOld], st.heaps[idxNew], allow)
           merged == Merged(st, idxOld, idxNew, status)
           idx == IF idxOld < idxNew THEN idxNew - 1 ELSE idxNew
<1>1. /\ dst \in Key /\ ins.pc = "pack" /\ ins \in Insertion
      /\ GoodState(st, arrived[dst], processed[dst]) /\ st \in State
      /\ arrived[dst] \in SUBSET Heap /\ processed[dst] \in SUBSET Heap
      /\ idxOld \in 1..n /\ idxNew \in 1..n /\ ~st.done[idxNew]
  <2>1. /\ dst \in Key /\ idxOld \in Nat /\ ins \in Insertion /\ ins.pc = "pack"
        /\ arrived[dst] \in SUBSET Heap /\ processed[dst] \in SUBSET Heap
        /\ GoodState(st, arrived[dst], processed[dst])
    BY DEF StateInv, StateTypeOK, Insertion, PackStep
  <2>2. st \in State /\ n \in Nat
    BY <2>1, StateFacts DEF GoodState
  <2>3. idxOld > 0 /\ idxOld <= n /\ idxNew \in 1..n /\ ~st.done[idxNew]
    BY DEF StateInv, PackInv, PackStep
  <2> QED
    BY <2>1, <2>2, <2>3
<1>2. ASSUME NEW new, NEW i, NEW o, ins'.pc = "pack", ins'.dst = dst,
             ins'.idxNew = i, ins'.idxOld = o, cont'[dst] = new,
             \A k \in Key : k # dst => cont'[k] = cont[k],
             DistinctBut(st, idxNew, idxOld) => DistinctBut(new, i, o)
      PROVE  IsoInv'
  <2> SUFFICES ASSUME NEW k \in Block, ~BypassesChecks(k)
               PROVE  IF k = dst THEN DistinctBut(new, i, o) ELSE Distinct(cont'[k])
    BY <1>2, BypassIsFixed DEF IsoInv, Distinct, DistinctBut
  <2>1. CASE k = dst
    BY <1>1, <1>2, <2>1 DEF IsoInv
  <2>2. CASE k # dst
    BY <1>1, <1>2, <2>2 DEF IsoInv, Key
  <2> QED
    BY <2>1, <2>2
<1>3. CASE /\ idxOld = idxNew \/ ~Accepts(status)
           /\ ins' = [ins EXCEPT !.idxOld = @ + 1] /\ cont' = cont
  <2>1. /\ ins'.pc = "pack" /\ ins'.dst = dst /\ ins'.idxNew = idxNew
        /\ ins'.idxOld = idxOld + 1
    BY <1>1, <1>3 DEF Insertion
  <2>2. DistinctBut(st, idxNew, idxOld) => DistinctBut(st, idxNew, idxOld + 1)
    <3> HIDE DEF st, idxOld, idxNew, allow
    <3> QED
      BY <1>1, <1>3, PackGoesOn
  <2> QED
    BY <1>2, <1>3, <2>1, <2>2
<1>4. CASE /\ idxOld # idxNew /\ status # JS_FAIL
           /\ cont' = [cont EXCEPT ![dst] = EraseExisting(merged, idxOld)]
           /\ ins' = [ins EXCEPT !.idxNew = IF idxOld < @ THEN @ - 1 ELSE @]
  <2>1. /\ ins'.pc = "pack" /\ ins'.dst = dst /\ ins'.idxNew = idx
        /\ ins'.idxOld = idxOld
    BY <1>1, <1>4 DEF Insertion
  <2>2. /\ cont'[dst] = EraseExisting(merged, idxOld)
        /\ \A k \in Key : k # dst => cont'[k] = cont[k]
    BY <1>1, <1>4 DEF StateInv, StateTypeOK
  <2>3. DistinctBut(st, idxNew, idxOld) => DistinctBut(EraseExisting(merged, idxOld), idx, idxOld)
    <3> DEFINE arr == arrived[dst]
               proc == processed[dst]
    <3> HIDE DEF st, idxOld, idxNew, allow, arr, proc
    <3>1. arr \in SUBSET Heap /\ proc \in SUBSET Heap /\ GoodState(st, arr, proc)
      BY <1>1 DEF arr, proc
    <3> QED
      BY <1>1, <1>4, <3>1, PackErases
  <2> HIDE DEF merged, idx
  <2> QED
    BY <1>2, <2>1, <2>2, <2>3
<1>5. Accepts(status) => status # JS_FAIL
  BY DEF Accepts
<1> HIDE DEF status
<1>6. \/ /\ ~(idxOld # idxNew /\ Accepts(status))
         /\ ins' = [ins EXCEPT !.idxOld = @ + 1] /\ cont' = cont
      \/ /\ idxOld # idxNew /\ Accepts(status)
         /\ cont' = [cont EXCEPT ![dst] = EraseExisting(merged, idxOld)]
         /\ ins' = [ins EXCEPT !.idxNew = IF idxOld < @ THEN @ - 1 ELSE @]
  BY DEF PackStep, status
<1> QED
  BY <1>3, <1>4, <1>5, <1>6

(* At the end of packState() the new heap has been compared with all others. *)
LEMMA PackDoneKeepsIso ==
  ASSUME StateInv, IsoInv, prog' = prog, conf' = conf, PackDone
  PROVE  IsoInv'
<1> DEFINE dst == ins.dst
           st == cont[dst]
           idxNew == ins.idxNew
<1>1. /\ dst \in Key /\ ins.pc = "pack" /\ st \in State /\ Len(st.heaps) = Len(st.done)
      /\ idxNew \in 1..Len(st.heaps) /\ ins.idxOld > Len(st.heaps)
      /\ ins.idxOld \in Nat
  BY DEF StateInv, StateTypeOK, GoodState, Insertion, PackInv, PackDone
<1>2. dst \in Block /\ ~BypassesChecks(dst) => Distinct(st)
  <2> SUFFICES ASSUME DistinctBut(st, idxNew, ins.idxOld) PROVE Distinct(st)
    BY <1>1 DEF IsoInv
  <2>1. \A i \in (1..Len(st.heaps)) \ {idxNew} :
           <<st.heaps[i], st.heaps[idxNew]>> \notin Covers
    BY <1>1, StateFacts DEF DistinctBut
  <2>2. <<st.heaps[idxNew], st.heaps[idxNew]>> \in Covers
    BY <1>1, StateFacts, SymJoinAssumption
  <2>3. \A i \in (1..Len(st.heaps)) \ {idxNew} : st.heaps[i] # st.heaps[idxNew]
    BY <2>1, <2>2
  <2> QED
    BY <2>3 DEF Distinct, DistinctBut
<1>3. dst \in Block /\ ~BypassesChecks(dst) => Distinct(RotateExisting(st, idxNew))
  BY <1>1, <1>2, RotateDistinct
<1>4. RotateExisting(st, idxNew) \in State
  BY <1>1, RotateExistingFacts
<1>5. PICK new \in {st, RotateExisting(st, idxNew)} : Return(dst, new, ins.size, TRUE)
  BY DEF PackDone
<1> QED
  BY <1>1, <1>2, <1>3, <1>4, <1>5, ReturnKeepsIso

(* A step that leaves the heaps of all blocks alone, or clears them *)
LEMMA OtherKeepsIso ==
  ASSUME IsoInv, prog' = prog, conf' = conf, ins.pc # "pack", ins'.pc # "pack",
         \A k \in Block : cont'[k].heaps \in {cont[k].heaps, <<>>}
  PROVE  IsoInv'
<1> SUFFICES ASSUME NEW k \in Block, ~BypassesChecks(k) PROVE Distinct(cont'[k])
  BY BypassIsFixed DEF IsoInv, Distinct
<1>1. CASE cont'[k].heaps = cont[k].heaps
  BY <1>1 DEF IsoInv, Distinct
<1>2. CASE cont'[k].heaps = <<>>
  BY <1>2 DEF Distinct
<1> QED
  BY <1>1, <1>2

LEMMA IsoInvNext ==
  StateInv /\ IsoInv /\ [StateNext]_stateVars => IsoInv'
<1> SUFFICES ASSUME StateInv, IsoInv, [StateNext]_stateVars PROVE IsoInv'
  OBVIOUS
<1>0. prog' = prog /\ conf' = conf
  BY DEF StateNext, stateVars
<1>1. CASE ClientInsert
  BY <1>0, <1>1, InsertBeginKeepsIso, SymStateAssumption DEF ClientInsert, Key
<1>2. CASE PackStep
  BY <1>0, <1>2, PackStepKeepsIso
<1>3. CASE PackDone
  BY <1>0, <1>3, PackDoneKeepsIso
<1>4. CASE InsertReturn
  <2>1. ins.pc # "pack" /\ ins'.pc # "pack" /\ cont' = cont
    BY <1>4 DEF InsertReturn, StateInv, StateTypeOK, Insertion
  <2> QED
    BY <1>0, <2>1, OtherKeepsIso
<1>5. CASE ClientSetDone
  <2>1. PICK key, nth : key \in Key /\ SetDone(key, nth, cont[key].heaps[nth])
    BY <1>5, SymStateAssumption DEF ClientSetDone, Key
  <2>2. ins.pc # "pack" /\ ins'.pc # "pack" /\ cont' = [cont EXCEPT ![key] = MarkDone(@, nth)]
    BY <2>1 DEF SetDone
  <2>3. \A k \in Block : cont'[k].heaps = cont[k].heaps
    BY <2>2 DEF StateInv, StateTypeOK, State, MarkDone, Key
  <2> QED
    BY <1>0, <2>2, <2>3, OtherKeepsIso
<1>6. CASE ClientClear
  <2>1. PICK key \in Block : ClearIfDone(key)
    BY <1>6 DEF ClientClear
  <2>2. /\ ins.pc # "pack" /\ ins'.pc # "pack"
        /\ \/ cont' = [cont EXCEPT ![key] = ClearState(@)]
           \/ cont' = [cont EXCEPT ![key] = @]
    BY <2>1 DEF ClearIfDone
  <2>3. \A k \in Block : cont'[k].heaps \in {cont[k].heaps, <<>>}
    BY <2>2 DEF StateInv, StateTypeOK, State, ClearState, Key
  <2> QED
    BY <1>0, <2>2, <2>3, OtherKeepsIso
<1>7. CASE UNCHANGED stateVars
  <2>1. ins' = ins /\ cont' = cont
    BY <1>7 DEF stateVars
  <2> QED
    BY <1>0, <2>1, BypassIsFixed DEF IsoInv, Distinct, DistinctBut
<1> QED
  BY <1>1, <1>2, <1>3, <1>4, <1>5, <1>6, <1>7 DEF StateNext

LEMMA IsoInvInit == StateInit => IsoInv
<1> SUFFICES ASSUME StateInit, NEW k \in Block PROVE Distinct(cont[k]) /\ ins.pc = "idle"
  BY DEF IsoInv
<1>1. cont[k].heaps = <<>> /\ ins.pc = "idle"
  BY DEF StateInit, InitSymState, EmptyState, IdleInsertion, Key
<1> QED
  BY <1>1 DEF Distinct

-------------------------------------------------------------------------------
(* The theorems. *)

(***************************************************************************)
(* The containers of symbolic heaps keep their types.                      *)
(***************************************************************************)
THEOREM StateTypeCorrect == StateSpec => []StateTypeOK
<1>1. StateSpec => []StateInv
  BY StateInvInit, StateInvNext, PTL DEF StateSpec
<1> QED
  BY <1>1, StateInvImplies, PTL

(***************************************************************************)
(* A heap that carries the done_ mark of a SymStateMarked was processed in *)
(* exactly the form it has: no join, erasure or rotation hands a mark over *)
(* to another heap.                                                        *)
(***************************************************************************)
THEOREM MarksAreTrue == StateSpec => []DoneIsProcessed
<1>1. StateSpec => []StateInv
  BY StateInvInit, StateInvNext, PTL DEF StateSpec
<1> QED
  BY <1>1, StateInvImplies, PTL

(***************************************************************************)
(* Whatever insert(), packState(), setDone() and the pruning do, each heap *)
(* that was inserted is covered by one that has been or will be processed. *)
(***************************************************************************)
THEOREM NothingIsLost == StateSpec => []NothingLost
<1>1. StateSpec => []StateInv
  BY StateInvInit, StateInvNext, PTL DEF StateSpec
<1> QED
  BY <1>1, StateInvImplies, PTL

(***************************************************************************)
(* After insert(), and whatever packState() has joined on the way, the     *)
(* state of a block that does not bypass the checks has no two isomorphic  *)
(* heaps, although packState() never looks back at the heaps that it has   *)
(* compared with an earlier form of the new one.                           *)
(***************************************************************************)
THEOREM NoPairIsIsomorphic == StateSpec => []NoIsomorphicPair
<1>1. StateInit => StateInv /\ IsoInv
  BY StateInvInit, IsoInvInit
<1>2. StateInv /\ IsoInv /\ [StateNext]_stateVars => StateInv' /\ IsoInv'
  BY StateInvNext, IsoInvNext
<1>3. IsoInv => NoIsomorphicPair
  BY DEF IsoInv, Distinct, NoIsomorphicPair
<1> QED
  BY <1>1, <1>2, <1>3, PTL DEF StateSpec

-------------------------------------------------------------------------------
(***************************************************************************)
(* No block consists of a jump to itself.  On such a block, "for (;;);",   *)
(* insert() reorders the heaps that execInsn() walks over (see the run     *)
(* self_jump): the theorems are about all other functions.                 *)
(***************************************************************************)
NoSelfJump ==
  \A p \in Programs, b \in Block :
     p.insns[b][1].code = "jmp" => p.insns[b][1].targets[1] # b

(* run() is in the middle of a block. *)
Running == pc \in {"insn", "emit", "wait", "join"}

Update == [dst : Block, heap : Heap]

EngineTypeOK ==
  /\ prog \in Programs /\ conf \in Confs /\ entry \in Heap
  /\ pc \in {"getNext", "insn", "emit", "wait", "join", "done"}
  /\ block \in Block
  /\ insnIdx \in Nat /\ insnIdx > 0 /\ (Running => insnIdx <= Len(Insns(block)))
  /\ heapIdx \in Nat /\ heapIdx > 0
  /\ localState \in Seq(Heap) /\ nextLocalState \in Seq(Heap)
  /\ emit \in Seq(Update)
  /\ callResults \in Seq(Heap) /\ results \in Seq(Heap)
  /\ endReached \in BOOLEAN
  /\ todo \subseteq Block /\ sched \in Seq(Block)

(* Where run() is, which instruction it is at and what it has in its hands. *)
ControlInv ==
  /\ Running => heapIdx <= Len(localState) + 1
  /\ pc = "emit" => heapIdx <= Len(localState) /\ CurInsn.code \in {"jmp", "cond"}
  /\ pc # "emit" => emit = <<>>
  /\ pc \in {"wait", "join"} => heapIdx > 1 /\ CurInsn.code = "call"
  /\ pc = "wait" => localState[heapIdx - 1] \notin ExitHeap
  /\ Running /\ CurInsn.code \in TermCodes => nextLocalState = <<>>

(***************************************************************************)
(* A call of insert() is one of updateState() or of joinCallResults(), and *)
(* the heap it was called for, or its abstraction, has arrived.  Nobody    *)
(* sets the marks of the container that joinCallResults() uses.            *)
(***************************************************************************)
InsertInv ==
  /\ ins.pc # "idle" =>
        \/ /\ pc = "emit" /\ emit # <<>> /\ ins.dst = emit[1].dst
           /\ \E sh \in arrived[ins.dst] : <<sh, emit[1].heap>> \in Covers
        \/ /\ pc = "join" /\ callResults # <<>> /\ ins.dst = CallResults
           /\ callResults[1] \in arrived[CallResults]
  /\ ins.pc = "pack" => ins.changed
  /\ processed[CallResults] = {}

(***************************************************************************)
(* While the first instruction walks over localState_, the state of the    *)
(* block is still the one that localState_ is a copy of, and the heaps     *)
(* that it has passed carry the mark.                                      *)
(***************************************************************************)
WalkInv ==
  Running /\ insnIdx = 1 =>
     /\ localState = cont[block].heaps
     /\ \A i \in 1..Len(localState) :
           i < heapIdx \/ (i = heapIdx /\ pc = "emit") => cont[block].done[i]
     /\ pc = "emit" => \A i \in 1..Len(emit) : emit[i].dst # block

(* PendingIsScheduled, with nothing said of a run() that is over. *)
PendingInv ==
  \A b \in Block : \A i \in Pending(cont[b]) :
     \/ b \in todo
     \/ Running /\ b = block /\ insnIdx = 1 /\ heapIdx <= i
     \/ b = ins.dst /\ ins.pc \in {"pack", "done"} /\ ins.changed

EngineInv ==
  /\ StateInv /\ IsoInv /\ EngineTypeOK /\ ControlInv /\ InsertInv
  /\ WalkInv /\ QueueMatchesTodo /\ PendingInv

-------------------------------------------------------------------------------
(* The scheduler. *)

(* Every block of S is in the queue q, once. *)
Queues(q, S) ==
  /\ S = {q[i] : i \in 1..Len(q)}
  /\ \A i, j \in 1..Len(q) : q[i] = q[j] => i = j

(* A new entry at the end *)
LEMMA AppendQueues ==
  ASSUME NEW q \in Seq(Block), NEW S, Queues(q, S), NEW bb \in Block, bb \notin S
  PROVE  Append(q, bb) \in Seq(Block) /\ Queues(Append(q, bb), S \cup {bb})
<1> DEFINE r == Append(q, bb)
           n == Len(q)
<1>1. /\ n \in Nat /\ r \in Seq(Block) /\ Len(r) = n + 1
      /\ \A i \in 1..n : r[i] = q[i]
      /\ r[n + 1] = bb
  BY LenProperties, AppendProperties
<1> HIDE DEF r
<1>2. \A i \in 1..(n + 1) : i = n + 1 \/ i \in 1..n
  BY <1>1
<1>3. \A i \in 1..n : q[i] \in S
  BY DEF Queues
<1>4. \A i, j \in 1..(n + 1) : r[i] = r[j] => i = j
  BY <1>1, <1>2, <1>3 DEF Queues
<1>5. S \cup {bb} = {r[i] : i \in 1..(n + 1)}
  BY <1>1, <1>2 DEF Queues
<1> QED
  BY <1>1, <1>4, <1>5 DEF Queues, r

(* The element at the end moves to the place first. *)
LEMMA RotateFromProps ==
  ASSUME NEW S, NEW q \in Seq(S), NEW first \in 1..Len(q)
  PROVE  LET n == Len(q)
             r == RotateFrom(q, first, n)
         IN  /\ r \in Seq(S) /\ Len(r) = n
             /\ \A i \in 1..n : r[i] = IF i < first THEN q[i]
                                       ELSE IF i = first THEN q[n] ELSE q[i - 1]
<1> DEFINE n == Len(q)
           s1 == SubSeq(q, 1, first - 1)
           s2 == SubSeq(q, n, n)
           s3 == SubSeq(q, first, n - 1)
<1>1. n \in Nat /\ first \in Nat /\ 1 <= first /\ first <= n
      /\ \A i \in 1..n : q[i] \in S
  BY LenProperties, ElementOfSeq
<1>2. /\ s1 \in Seq(S) /\ Len(s1) = first - 1
      /\ \A i \in 1..(first - 1) : s1[i] = q[i]
  <2>1. \A i \in 1..(first - 1) : q[i] \in S
    BY <1>1
  <2> QED
    BY <1>1, <2>1, SubSeqProperties
<1>3. s2 \in Seq(S) /\ Len(s2) = 1 /\ s2[1] = q[n]
  <2>1. \A i \in n..n : q[i] \in S
    BY <1>1
  <2> QED
    BY <1>1, <2>1, SubSeqProperties
<1>4. /\ s3 \in Seq(S) /\ Len(s3) = n - first
      /\ \A i \in 1..(n - first) : s3[i] = q[first + i - 1]
  <2>1. \A i \in first..(n - 1) : q[i] \in S
    BY <1>1
  <2> QED
    BY <1>1, <2>1, SubSeqProperties
<1>5. RotateFrom(q, first, n) = (s1 \o s2) \o s3
  BY DEF RotateFrom
<1> HIDE DEF n, s1, s2, s3
<1> DEFINE s12 == s1 \o s2
<1>6. /\ s12 \in Seq(S) /\ Len(s12) = Len(s1) + Len(s2)
      /\ \A i \in 1..(Len(s1) + Len(s2)) :
            s12[i] = IF i <= Len(s1) THEN s1[i] ELSE s2[i - Len(s1)]
  BY <1>2, <1>3, ConcatProperties, Zenon
<1> HIDE DEF s12
<1>7. Len(s12) = first /\ \A i \in 1..first : s12[i] = IF i < first THEN q[i] ELSE q[n]
  <2>1. Len(s1) + Len(s2) = first
    BY <1>1, <1>2, <1>3
  <2>2. ASSUME NEW i \in 1..first PROVE s12[i] = IF i < first THEN q[i] ELSE q[n]
    <3>1. CASE i < first
      <4>1. i \in 1..(first - 1) /\ i <= Len(s1)
        BY <1>1, <1>2, <3>1
      <4> QED
        BY <1>2, <1>6, <2>1, <3>1, <4>1
    <3>2. CASE i = first
      <4>1. ~(i <= Len(s1)) /\ i - Len(s1) = 1 /\ ~(i < first)
        BY <1>1, <1>2, <3>2
      <4> QED
        BY <1>3, <1>6, <2>1, <4>1
    <3> QED
      BY <1>1, <3>1, <3>2
  <2> QED
    BY <1>6, <2>1, <2>2
<1> DEFINE r == s12 \o s3
<1>8. /\ r \in Seq(S) /\ Len(r) = Len(s12) + Len(s3)
      /\ \A i \in 1..(Len(s12) + Len(s3)) :
            r[i] = IF i <= Len(s12) THEN s12[i] ELSE s3[i - Len(s12)]
  <2>1. s12 \in Seq(S) /\ s3 \in Seq(S)
    BY <1>4, <1>6
  <2> QED
    BY <2>1, ConcatProperties
<1> HIDE DEF r
<1>9. /\ Len(r) = n
      /\ \A i \in 1..n : r[i] = IF i < first THEN q[i]
                                ELSE IF i = first THEN q[n] ELSE q[i - 1]
  <2>1. Len(r) = n
    BY <1>1, <1>4, <1>7, <1>8
  <2>2. ASSUME NEW i \in 1..n PROVE r[i] = IF i <= first THEN s12[i] ELSE s3[i - first]
    BY <1>1, <1>4, <1>7, <1>8
  <2>3. ASSUME NEW i \in 1..n, i > first PROVE s3[i - first] = q[i - 1]
    <3>1. i - first \in 1..(n - first) /\ first + (i - first) - 1 = i - 1
      BY <1>1, <2>3
    <3> QED
      BY <1>4, <3>1
  <2> QED
    BY <1>1, <1>7, <2>1, <2>2, <2>3
<1> QED
  BY <1>5, <1>8, <1>9 DEF n, r, s12

(* The queue is only reordered for a block that waits already. *)
LEMMA PrioritizeQueues ==
  ASSUME NEW q \in Seq(Block), NEW S, Queues(q, S), NEW bb \in S
  PROVE  Prioritize(q, bb) \in Seq(Block) /\ Queues(Prioritize(q, bb), S)
<1> DEFINE idx == CHOOSE i \in 1..Len(q) : q[i] = bb
           n == Len(q)
           r == RotateFrom(q, idx, n)
<1>1. idx \in 1..n /\ n \in Nat
  BY LenProperties DEF Queues
<1>2. Prioritize(q, bb) = IF idx = n THEN q ELSE r
  BY DEF Prioritize
<1> HIDE DEF idx
<1>3. /\ r \in Seq(Block) /\ Len(r) = n
      /\ \A i \in 1..n : r[i] = IF i < idx THEN q[i]
                                ELSE IF i = idx THEN q[n] ELSE q[i - 1]
  BY <1>1, RotateFromProps
<1> HIDE DEF r
<1> DEFINE from(i) == IF i < idx THEN i ELSE IF i = idx THEN n ELSE i - 1
           to(i) == IF i < idx THEN i ELSE IF i = n THEN idx ELSE i + 1
<1>4. /\ \A i \in 1..n : from(i) \in 1..n /\ to(i) \in 1..n /\ from(to(i)) = i
      /\ \A i, j \in 1..n : from(i) = from(j) => i = j
      /\ \A i \in 1..n : r[i] = q[from(i)]
  BY <1>1, <1>3
<1> HIDE DEF from, to, n
<1>5. \A i, j \in 1..n : r[i] = r[j] => i = j
  <2>1. \A i, j \in 1..n : q[i] = q[j] => i = j
    BY DEF Queues, n
  <2>2. ASSUME NEW i \in 1..n, NEW j \in 1..n, r[i] = r[j] PROVE i = j
    <3>1. from(i) \in 1..n /\ from(j) \in 1..n /\ q[from(i)] = q[from(j)]
      BY <1>4, <2>2
    <3>2. from(i) = from(j)
      BY <2>1, <3>1
    <3> QED
      BY <1>4, <3>2
  <2> QED
    BY <2>2
<1>6. {r[i] : i \in 1..n} = {q[i] : i \in 1..n}
  <2>1. \A i \in 1..n : r[i] \in {q[j] : j \in 1..n}
    BY <1>4
  <2>2. \A i \in 1..n : r[to(i)] = q[i] /\ to(i) \in 1..n
    BY <1>4
  <2> QED
    BY <2>1, <2>2
<1>7. Queues(r, S) /\ r \in Seq(Block)
  BY <1>3, <1>5, <1>6 DEF Queues, n
<1> QED
  BY <1>2, <1>7

(* schedule() *)
LEMMA ScheduleKeepsQueue ==
  ASSUME conf \in Conf, conf' = conf, sched \in Seq(Block), todo \subseteq Block,
         QueueMatchesTodo, NEW bb \in Block, Schedule(bb)
  PROVE  /\ sched' \in Seq(Block) /\ todo' \subseteq Block
         /\ QueueMatchesTodo' /\ todo' = todo \cup {bb}
<1>1. conf.schedKind \in 0..3
  BY DEF Conf
<1>2. todo' = todo \cup {bb}
  BY DEF Schedule
<1>3. conf.schedKind < 3 => Queues(sched, todo)
  BY DEF QueueMatchesTodo, Queues
<1>4. SUFFICES sched' \in Seq(Block) /\ (conf.schedKind < 3 => Queues(sched', todo'))
  BY <1>2 DEF QueueMatchesTodo, Queues
<1>5. CASE bb \notin todo
  BY <1>1, <1>2, <1>3, <1>5, AppendQueues, ZenonT(40) DEF Schedule
<1>6. CASE bb \in todo
  <2>1. todo' = todo
    BY <1>2, <1>6
  <2>2. CASE conf.schedKind = 2
    <3>1. sched' = Prioritize(sched, bb)
      BY <1>6, <2>2 DEF Schedule
    <3> QED
      BY <1>3, <1>6, <2>1, <2>2, <3>1, PrioritizeQueues
  <2>3. CASE conf.schedKind # 2
    <3>1. sched' = sched
      BY <1>6, <2>3 DEF Schedule
    <3> QED
      BY <1>3, <2>1, <3>1
  <2> QED
    BY <2>2, <2>3
<1> QED
  BY <1>5, <1>6

(* getNext() *)
LEMMA GetNextKeepsQueue ==
  ASSUME conf \in Conf, conf' = conf, sched \in Seq(Block), todo \subseteq Block,
         QueueMatchesTodo, NEW bb \in todo, NEW cnt, GetNextBlock(bb, cnt)
  PROVE  sched' \in Seq(Block) /\ todo' = todo \ {bb} /\ QueueMatchesTodo'
<1> DEFINE n == Len(sched)
<1>1. conf.schedKind \in 0..3
  BY DEF Conf
<1>2. todo' = todo \ {bb}
  BY DEF GetNextBlock
<1>3. CASE conf.schedKind = 3
  BY <1>2, <1>3 DEF GetNextBlock, QueueMatchesTodo
<1>4. CASE conf.schedKind # 3
  <2>1. /\ Queues(sched, todo) /\ n \in Nat /\ n > 0 /\ sched # <<>>
        /\ \A i \in 1..n : sched[i] \in Block
    BY <1>1, <1>4, LenProperties, ElementOfSeq, EmptySeq DEF QueueMatchesTodo, Queues
  <2>2. SUFFICES sched' \in Seq(Block) /\ Queues(sched', todo \ {bb})
    BY <1>2 DEF QueueMatchesTodo, Queues
  <2>3. CASE conf.schedKind = 0
    <3>1. bb = sched[1] /\ sched' = Tail(sched)
      BY <2>3 DEF GetNextBlock
    <3>2. /\ sched' \in Seq(Block) /\ Len(sched') = n - 1
          /\ \A i \in 1..(n - 1) : sched'[i] = sched[i + 1]
      BY <2>1, <3>1, HeadTailProperties
    <3>3. \A i, j \in 1..(n - 1) : sched'[i] = sched'[j] => i = j
      BY <2>1, <3>2 DEF Queues
    <3>4. \A i \in 1..(n - 1) : sched'[i] \in todo \ {bb}
      BY <2>1, <3>1, <3>2 DEF Queues
    <3>5. \A x \in todo \ {bb} : \E i \in 1..(n - 1) : sched'[i] = x
      <4> SUFFICES ASSUME NEW x \in todo \ {bb} PROVE \E i \in 1..(n - 1) : sched'[i] = x
        OBVIOUS
      <4>1. PICK i \in 1..n : sched[i] = x
        BY <2>1 DEF Queues
      <4>2. i - 1 \in 1..(n - 1) /\ (i - 1) + 1 = i
        BY <2>1, <3>1, <4>1
      <4> QED
        BY <3>2, <4>1, <4>2
    <3> QED
      BY <3>2, <3>3, <3>4, <3>5, SMTT(40) DEF Queues
  <2>4. CASE conf.schedKind \in {1, 2}
    <3>1. bb = sched[n] /\ sched' = SubSeq(sched, 1, n - 1)
      BY <2>4 DEF GetNextBlock, Last, Front
    <3> DEFINE m == n - 1
    <3>2. m \in Nat /\ \A i \in 1..m : sched[i] \in Block
      BY <2>1
    <3> HIDE DEF m
    <3>3. /\ SubSeq(sched, 1, m) \in Seq(Block) /\ Len(SubSeq(sched, 1, m)) = m
          /\ \A i \in 1..m : SubSeq(sched, 1, m)[i] = sched[i]
      BY <3>2, SubSeqProperties
    <3>4. /\ sched' \in Seq(Block) /\ Len(sched') = m
          /\ \A i \in 1..m : sched'[i] = sched[i]
      BY <3>1, <3>3 DEF m
    <3>5. \A i \in 1..n : i = n \/ i \in 1..m
      BY <2>1 DEF m
    <3>6. 1..m \subseteq 1..n /\ n \notin 1..m /\ n \in 1..n
      BY <2>1 DEF m
    <3> HIDE DEF n
    <3> QED
      BY <2>1, <3>1, <3>4, <3>5, <3>6, SMTT(40) DEF Queues, n
  <2> QED
    BY <1>1, <1>4, <2>3, <2>4
<1> QED
  BY <1>3, <1>4

-------------------------------------------------------------------------------
(* Instructions and what they yield. *)

LEMMA InsnFacts ==
  ASSUME prog \in Programs, NEW b \in Block
  PROVE  /\ Len(Insns(b)) \in Nat /\ Len(Insns(b)) > 0
         /\ \A i \in 1..Len(Insns(b)) : LET insn == Insns(b)[i] IN
               /\ insn.code \in TermCodes <=> i = Len(Insns(b))
               /\ insn.code = "cond" => i > 1
               /\ insn.code \in {"op", "call", "ret"} => insn.fns[1] \in Fn
               /\ insn.code = "jmp" => insn.targets[1] \in Block
               /\ insn.code = "cond" => /\ insn.fns[1] \in Fn /\ insn.fns[2] \in Fn
                                        /\ insn.targets[1] \in Block
                                        /\ insn.targets[2] \in Block
<1> DEFINE insns == Insns(b)
<1>1. WellFormedBlock(insns)
  BY ControlFlowAssumption DEF Insns
<1>2. insns \in Seq(Insn) /\ Len(insns) \in Nat /\ Len(insns) > 0
  BY <1>1, LenProperties DEF WellFormedBlock
<1>3. ASSUME NEW i \in 1..Len(insns)
      PROVE  /\ insns[i].code \in TermCodes <=> i = Len(insns)
             /\ insns[i].code = "cond" => i > 1
             /\ insns[i].code \in {"op", "call", "ret"} => Len(insns[i].fns) = 1
             /\ insns[i].code = "jmp" => Len(insns[i].targets) = 1
             /\ insns[i].code = "cond" => /\ Len(insns[i].targets) = 2
                                          /\ Len(insns[i].fns) = 2
             /\ insns[i].fns \in Seq(Fn) /\ insns[i].targets \in Seq(Block)
  <2>1. insns[i] \in Insn
    BY <1>2, ElementOfSeq
  <2> QED
    BY <1>1, <2>1 DEF WellFormedBlock, Insn
<1> HIDE DEF insns
<1>4. ASSUME NEW S, NEW s \in Seq(S) PROVE /\ Len(s) = 1 => s[1] \in S
                                           /\ Len(s) = 2 => s[1] \in S /\ s[2] \in S
  BY ElementOfSeq
<1> QED
  BY <1>2, <1>3, <1>4 DEF insns

LEMMA PostType ==
  ASSUME NEW f \in Fn, NEW sh \in Heap
  PROVE  Post[f][sh] \in Seq(Heap)
<1>1. Post \in [Fn -> [Heap -> Seq(Heap)]]
  BY EngineAssumption, Zenon
<1> QED
  BY <1>1

LEMMA UpdatesType ==
  ASSUME NEW heaps \in Seq(Heap), NEW target \in Block
  PROVE  /\ Updates(heaps, target) \in Seq(Update)
         /\ \A i \in 1..Len(Updates(heaps, target)) :
               Updates(heaps, target)[i].dst = target
<1>1. Len(heaps) \in Nat /\ \A i \in 1..Len(heaps) : heaps[i] \in Heap
  BY LenProperties, ElementOfSeq
<1>2. \A i \in 1..Len(heaps) : [dst |-> target, heap |-> heaps[i]] \in Update
  BY <1>1 DEF Update
<1> DEFINE n == Len(heaps)
           u == Updates(heaps, target)
<1>3. u = [i \in 1..n |-> [dst |-> target, heap |-> heaps[i]]]
  BY DEF Updates
<1>4. n \in Nat /\ \A i \in 1..n : u[i] \in Update /\ u[i].dst = target
  BY <1>1, <1>2, <1>3
<1> HIDE DEF n
<1>5. u \in [1..n -> Update]
  BY <1>2, <1>3 DEF n
<1>6. u \in Seq(Update) /\ Len(u) = n
  BY <1>4, <1>5, IsASeq, LenProperties, SeqDef
<1> QED
  BY <1>4, <1>6

-------------------------------------------------------------------------------
(* What the engine sees of the containers. *)

LEMMA SameContainers ==
  ASSUME StateInv, IsoInv, prog' = prog, conf' = conf, UNCHANGED svars
  PROVE  StateInv' /\ IsoInv'
<1>1. cont' = cont /\ ins' = ins /\ arrived' = arrived /\ processed' = processed
  BY DEF svars
<1>2. StateInv'
  BY <1>1 DEF StateInv, StateTypeOK, PackInv, GoodState, CoveredBy, PendingHeaps, Pending
<1>3. IsoInv'
  BY <1>1, BypassIsFixed DEF IsoInv, Distinct, DistinctBut
<1> QED
  BY <1>2, <1>3

(* The state of a container is one, and its two vectors are in step. *)
LEMMA ContFacts ==
  ASSUME StateInv, NEW k \in Key
  PROVE  /\ cont[k] \in State /\ Len(cont[k].heaps) = Len(cont[k].done)
         /\ cont[k].heaps \in Seq(Heap) /\ Len(cont[k].heaps) \in Nat
         /\ \A i \in 1..Len(cont[k].heaps) : cont[k].heaps[i] \in Heap
         /\ \A i \in 1..Len(cont[k].done) : cont[k].done[i] \in BOOLEAN
<1>1. cont[k] \in State /\ Len(cont[k].heaps) = Len(cont[k].done)
  BY DEF StateInv, GoodState
<1> QED
  BY <1>1, StateFacts

(* A rotation does not make a heap pending. *)
LEMMA RotatePending ==
  ASSUME NEW st \in State, Len(st.heaps) = Len(st.done),
         NEW nth \in 1..Len(st.heaps), Pending(RotateExisting(st, nth)) # {}
  PROVE  Pending(st) # {}
<1> DEFINE new == RotateExisting(st, nth)
           n == Len(st.heaps)
           from(i) == IF i <= n - nth + 1 THEN i + nth - 1 ELSE i - (n - nth + 1)
<1>1. n \in Nat
  BY StateFacts
<1>2. Len(new.done) = n /\ \A i \in 1..n : new.done[i] = st.done[from(i)]
  BY RotateExistingFacts
<1>3. \A i \in 1..n : from(i) \in 1..n
  BY <1>1, RotateIndices
<1>4. PICK i \in 1..n : ~new.done[i]
  BY <1>2 DEF Pending
<1> HIDE DEF new, from
<1> QED
  BY <1>2, <1>3, <1>4 DEF Pending

(* A call of insert() that reports no change has made no heap pending. *)
LEMMA InsertBeginFacts ==
  ASSUME StateInv, NEW dst \in Key, NEW sh \in Heap, NEW allow \in BOOLEAN,
         InsertBegin(dst, sh, allow)
  PROVE  /\ ins'.dst = dst /\ ins'.pc \in {"pack", "done"}
         /\ ins'.pc = "pack" => ins'.changed
         /\ \A k \in Key : k # dst => cont'[k] = cont[k]
         /\ ~ins'.changed /\ Pending(cont'[dst]) # {} => Pending(cont[dst]) # {}
         /\ sh \in arrived'[dst] /\ processed' = processed
<1> DEFINE st == cont[dst]
           n == Len(st.heaps)
<1>0. sh \in arrived'[dst] /\ processed' = processed
  BY DEF InsertBegin, StateInv, StateTypeOK
<1>1. st \in State /\ Len(st.heaps) = Len(st.done)
  BY ContFacts
<1>2. ASSUME NEW new, NEW size, NEW changed \in BOOLEAN, Return(dst, new, size, changed)
      PROVE  /\ ins'.dst = dst /\ ins'.pc = "done" /\ ins'.changed = changed
             /\ \A k \in Key : k # dst => cont'[k] = cont[k]
             /\ cont'[dst] = NoteHit(new, size)
  BY <1>2 DEF Return, StateInv, StateTypeOK, Insertion
<1>3. ASSUME NEW new \in State, NEW size PROVE Pending(NoteHit(new, size)) = Pending(new)
  BY DEF NoteHit, State, Pending
<1>4. ASSUME NEW new, NEW size, Return(dst, new, size, TRUE)
      PROVE  /\ ins'.dst = dst /\ ins'.pc = "done" /\ ins'.changed
             /\ \A k \in Key : k # dst => cont'[k] = cont[k]
  BY <1>2, <1>4
<1>5. ASSUME NEW i \in 1..n, NEW new \in {st, RotateExisting(st, i)}, NEW size,
             Return(dst, new, size, FALSE)
      PROVE  /\ ins'.dst = dst /\ ins'.pc = "done"
             /\ \A k \in Key : k # dst => cont'[k] = cont[k]
             /\ Pending(cont'[dst]) # {} => Pending(cont[dst]) # {}
  <2>1. RotateExisting(st, i) \in State
    BY <1>1, RotateExistingFacts
  <2>2. new \in State
    BY <1>1, <2>1, <1>5
  <2>3. /\ ins'.dst = dst /\ ins'.pc = "done" /\ cont'[dst] = NoteHit(new, size)
        /\ \A k \in Key : k # dst => cont'[k] = cont[k]
    BY <1>2, <1>5
  <2>4. Pending(cont'[dst]) = Pending(new)
    BY <1>3, <2>2, <2>3
  <2> QED
    BY <1>1, <1>5, <2>3, <2>4, RotatePending
<1>6. CASE UnionInsert(dst, sh)
  BY <1>0, <1>4, <1>5, <1>6 DEF UnionInsert
<1>7. CASE JoinInsert(dst, sh, allow)
  <2>1. CASE Return(dst, InsertNew(st, sh), n, TRUE)
    BY <1>0, <1>4, <2>1
  <2>2. CASE \E i \in 1..n : \E new \in {st, RotateExisting(st, i)} :
                Return(dst, new, n, FALSE)
    BY <1>0, <1>5, <2>2
  <2>3. CASE \E new, i : /\ cont' = [cont EXCEPT ![dst] = new]
                         /\ ins' = [pc |-> "pack", dst |-> dst, allowThreeWay |-> allow,
                                    idxNew |-> i, idxOld |-> 1, size |-> n, changed |-> TRUE]
    BY <1>0, <2>3 DEF StateInv, StateTypeOK
  <2> QED
    BY <1>7, <2>1, <2>2, <2>3 DEF JoinInsert, Joinable
<1> QED
  BY <1>0, <1>4, <1>6, <1>7 DEF InsertBegin

LEMMA PackFacts ==
  ASSUME StateInv, PackStep \/ PackDone, ins.changed
  PROVE  /\ ins'.dst = ins.dst /\ ins'.pc \in {"pack", "done"} /\ ins'.changed
         /\ \A k \in Key : k # ins.dst => cont'[k] = cont[k]
         /\ arrived' = arrived /\ processed' = processed
<1>1. cont \in [Key -> State] /\ ins \in Insertion /\ ins.dst \in Key
  BY DEF StateInv, StateTypeOK, Insertion
<1>2. CASE PackStep
  BY <1>1, <1>2 DEF PackStep, Insertion
<1>3. CASE PackDone
  BY <1>1, <1>3 DEF PackDone, Return, Insertion
<1> QED
  BY <1>2, <1>3

(* SymStateMarked::swap() and operator= *)
LEMMA ImportFacts ==
  ASSUME NEW st \in State, NEW heaps \in Seq(Heap)
  PROVE  LET new == ImportHeaps(st, heaps)
         IN  /\ new \in State /\ new.heaps = heaps /\ Len(new.done) = Len(heaps)
             /\ \A i \in 1..Len(heaps) : new.done[i] = FALSE
<1>1. PICK n \in Nat : n = Len(heaps)
  BY LenProperties
<1> DEFINE marks == [i \in 1..n |-> FALSE]
<1>2. marks \in Seq(BOOLEAN) /\ Len(marks) = n /\ \A i \in 1..n : marks[i] = FALSE
  BY <1>1
<1>a. marks = [i \in 1..Len(heaps) |-> FALSE]
  BY <1>1
<1> HIDE DEF marks
<1>3. PICK new : new = [st EXCEPT !.heaps = heaps, !.done = marks, !.cntPending = n]
  OBVIOUS
<1>4. ImportHeaps(st, heaps) = new
  BY <1>1, <1>a, <1>3 DEF ImportHeaps
<1>5. n \in Int
  BY <1>1
<1>6. new \in State /\ new.heaps = heaps /\ new.done = marks
  BY <1>2, <1>3, <1>5 DEF State
<1> QED
  BY <1>1, <1>2, <1>4, <1>6

(* The container of joinCallResults() gets the given heaps. *)
LEMMA ImportKeepsInv ==
  ASSUME StateInv, IsoInv, prog' = prog, conf' = conf, NEW heaps \in Seq(Heap),
         Import(CallResults, heaps)
  PROVE  /\ StateInv' /\ IsoInv' /\ ins' = ins /\ ins.pc = "idle"
         /\ \A k \in Block : cont'[k] = cont[k]
         /\ processed'[CallResults] = {}
<1> DEFINE key == CallResults
           st == cont[key]
           n == Len(heaps)
           all == {heaps[i] : i \in 1..n}
           new == ImportHeaps(st, heaps)
<1>1. key \in Key /\ key \notin Block /\ \A k \in Block : k \in Key
  BY SymStateAssumption DEF Key
<1>2. /\ ins' = ins /\ ins.pc = "idle" /\ ins \in Insertion
      /\ cont' \in [Key -> State] => StateTypeOK'
      /\ cont' = [cont EXCEPT ![key] = new]
      /\ \A k \in Key : k # key => /\ arrived'[k] = arrived[k]
                                   /\ processed'[k] = processed[k]
      /\ arrived'[key] = all /\ processed'[key] = {}
  <2>1. n \in Nat /\ all \in SUBSET Heap
    BY LenProperties, ElementOfSeq
  <2> HIDE DEF all
  <2> QED
    BY <1>1, <2>1 DEF Import, StateInv, StateTypeOK, all
<1>3. /\ new \in State /\ new.heaps = heaps /\ Len(new.done) = n
      /\ \A i \in 1..n : new.done[i] = FALSE
  BY <1>1, ContFacts, ImportFacts
<1> HIDE DEF new
<1>4. GoodState(new, all, {})
  <2>1. \A sh \in all : sh \in PendingHeaps(new) /\ sh \in Heap
    <3> SUFFICES ASSUME NEW i \in 1..n
                 PROVE  heaps[i] \in PendingHeaps(new) /\ heaps[i] \in Heap
      OBVIOUS
    <3>1. heaps[i] \in Heap
      BY ElementOfSeq
    <3>2. i \in Pending(new)
      BY <1>3 DEF Pending
    <3> QED
      BY <1>3, <3>1, <3>2 DEF PendingHeaps
  <2>2. \A sh \in all : CoveredBy(sh, {} \cup PendingHeaps(new))
    BY <2>1, SymJoinAssumption DEF CoveredBy
  <2> HIDE DEF all
  <2> QED
    BY <1>3, <2>2 DEF GoodState
<1>5. /\ cont' \in [Key -> State] /\ cont'[key] = new
      /\ \A k \in Key : k # key => cont'[k] = cont[k]
  BY <1>1, <1>2, <1>3 DEF StateInv, StateTypeOK
<1> HIDE DEF all
<1>6. \A k \in Key : GoodState(cont'[k], arrived'[k], processed'[k])
  BY <1>1, <1>2, <1>4, <1>5 DEF StateInv
<1>7. StateInv'
  BY <1>2, <1>5, <1>6 DEF StateInv, PackInv, GoodState, CoveredBy, PendingHeaps, Pending
<1>8. IsoInv'
  BY <1>1, <1>2, <1>5, OtherKeepsIso
<1> QED
  BY <1>1, <1>2, <1>5, <1>7, <1>8

-------------------------------------------------------------------------------
(* The loop over localState_ in execInsn(). *)

(* The current heap is marked if this is the first instruction. *)
LEMMA TakeHeapFacts ==
  ASSUME EngineInv, prog' = prog, conf' = conf, TakeHeap
  PROVE  /\ StateInv' /\ IsoInv' /\ ins' = ins /\ ins.pc = "idle"
         /\ CurHeap \in Heap /\ processed'[CallResults] = {}
         /\ \A b \in Block : Pending(cont'[b]) \subseteq Pending(cont[b])
         /\ insnIdx = 1 =>
               /\ cont'[block].heaps = cont[block].heaps
               /\ heapIdx \notin Pending(cont'[block])
               /\ \A i \in 1..Len(localState) : i <= heapIdx => cont'[block].done[i]
<1>1. /\ StateInv /\ IsoInv /\ WalkInv /\ block \in Block /\ block \in Key
      /\ pc = "insn" /\ Running /\ heapIdx \in 1..Len(localState) /\ heapIdx \in Nat
      /\ localState \in Seq(Heap) /\ Len(localState) \in Nat
  BY LenProperties DEF EngineInv, EngineTypeOK, TakeHeap, AtHeap, Running, Key
<1>2. CurHeap \in Heap
  BY <1>1, ElementOfSeq DEF CurHeap
<1>3. ins.pc = "idle" /\ processed[CallResults] = {}
  BY <1>1 DEF EngineInv, InsertInv
<1>4. CASE insnIdx > 1 /\ UNCHANGED svars
  <2>1. cont' = cont /\ ins' = ins /\ processed' = processed /\ insnIdx # 1
    BY <1>4 DEF svars, EngineInv, EngineTypeOK
  <2> QED
    BY <1>1, <1>2, <1>3, <1>4, <2>1, SameContainers
<1>5. CASE insnIdx = 1 /\ ~cont[block].done[heapIdx] /\ SetDone(block, heapIdx, CurHeap)
  <2> DEFINE st == cont[block]
  <2>1. /\ st \in State /\ Len(st.heaps) = Len(st.done) /\ localState = st.heaps
        /\ \A i \in 1..Len(localState) : i < heapIdx => st.done[i]
    BY <1>1, <1>5, ContFacts DEF WalkInv
  <2>2. heapIdx \in Pending(st) /\ CurHeap = st.heaps[heapIdx]
    BY <1>1, <1>5, <2>1 DEF Pending, CurHeap
  <2>3. StateInv'
    BY <1>1, <1>5, <2>2, SetDoneKeepsInv
  <2>4. /\ ins' = ins /\ cont' = [cont EXCEPT ![block] = MarkDone(st, heapIdx)]
    BY <1>5 DEF SetDone
  <2>5. cont'[block] = MarkDone(st, heapIdx)
        /\ \A k \in Key : k # block => cont'[k] = cont[k]
    BY <1>1, <2>4 DEF StateInv, StateTypeOK
  <2>6. /\ MarkDone(st, heapIdx).heaps = st.heaps
        /\ MarkDone(st, heapIdx).done = [st.done EXCEPT ![heapIdx] = TRUE]
    BY <2>1 DEF MarkDone, State
  <2>7. /\ cont'[block].heaps = st.heaps
        /\ cont'[block].done = [st.done EXCEPT ![heapIdx] = TRUE]
    BY <2>5, <2>6
  <2> DEFINE marks == [st.done EXCEPT ![heapIdx] = TRUE]
             n == Len(localState)
  <2>8. /\ st.done \in Seq(BOOLEAN) /\ Len(st.done) = n
    BY <2>1, StateFacts
  <2>9. /\ Len(marks) = n /\ marks[heapIdx]
        /\ \A i \in 1..n : i # heapIdx => marks[i] = st.done[i]
    BY <1>1, <2>8
  <2> HIDE DEF marks
  <2>10. Pending(cont'[block]) \subseteq Pending(st) /\ heapIdx \notin Pending(cont'[block])
    BY <2>7, <2>8, <2>9 DEF Pending, marks
  <2>11. \A i \in 1..n : i <= heapIdx => cont'[block].done[i]
    <3> SUFFICES ASSUME NEW i \in 1..n, i <= heapIdx PROVE marks[i]
      BY <2>7 DEF marks
    <3>1. i = heapIdx \/ i < heapIdx
      BY <1>1
    <3> QED
      BY <2>1, <2>9, <3>1
  <2>12. \A k \in Block : cont'[k].heaps = cont[k].heaps
    BY <2>5, <2>7 DEF Key
  <2>13. IsoInv'
    BY <1>1, <1>3, <2>4, <2>12, OtherKeepsIso
  <2>14. \A b \in Block : Pending(cont'[b]) \subseteq Pending(cont[b])
    BY <2>5, <2>10 DEF Key
  <2>15. processed'[CallResults] = {}
    BY <1>1, <1>3, <1>5, SymStateAssumption DEF SetDone, StateInv, StateTypeOK, Key
  <2> QED
    BY <1>2, <1>3, <2>3, <2>4, <2>7, <2>10, <2>11, <2>13, <2>14, <2>15
<1> QED
  BY <1>4, <1>5 DEF TakeHeap

(***************************************************************************)
(* What the instructions have in common: the current heap is taken and     *)
(* passed, and what the instruction yields is of the right type.           *)
(***************************************************************************)
Passes ==
  /\ TakeHeap
  /\ prog' = prog /\ conf' = conf /\ entry' = entry
  /\ pc' \in {"insn", "wait", "emit"}
  /\ heapIdx' = IF pc' = "emit" THEN heapIdx ELSE heapIdx + 1
  /\ nextLocalState' \in Seq(Heap) /\ emit' \in Seq(Update)
  /\ callResults' \in Seq(Heap) /\ results' \in Seq(Heap) /\ endReached' \in BOOLEAN
  /\ CurInsn.code \in TermCodes => nextLocalState' = nextLocalState
  /\ pc' = "wait" => CurInsn.code = "call" /\ CurHeap \notin ExitHeap
  /\ pc' # "emit" => emit' = emit
  /\ pc' = "emit" => /\ CurInsn.code \in {"jmp", "cond"}
                     /\ insnIdx = 1 => \A i \in 1..Len(emit') : emit'[i].dst # block

LEMMA PassesKeepsInv ==
  ASSUME EngineInv, Passes
  PROVE  EngineInv'
<1>1. /\ prog' = prog /\ conf' = conf /\ entry' = entry /\ TakeHeap
      /\ pc' \in {"insn", "wait", "emit"} /\ pc = "insn"
      /\ todo' = todo /\ sched' = sched /\ block' = block /\ insnIdx' = insnIdx
      /\ localState' = localState
      /\ heapIdx' = IF pc' = "emit" THEN heapIdx ELSE heapIdx + 1
  BY DEF Passes, TakeHeap, AtHeap
<1>2. /\ heapIdx \in Nat /\ heapIdx > 0 /\ heapIdx <= Len(localState)
      /\ Len(localState) \in Nat /\ localState \in Seq(Heap) /\ block \in Block
  BY <1>1, LenProperties DEF EngineInv, EngineTypeOK, TakeHeap, AtHeap
<1>3. Running /\ Running' /\ CurInsn' = CurInsn
  BY <1>1 DEF Running, CurInsn, Insns
<1>4. /\ StateInv' /\ IsoInv' /\ ins' = ins /\ ins.pc = "idle"
      /\ processed'[CallResults] = {}
      /\ \A b \in Block : Pending(cont'[b]) \subseteq Pending(cont[b])
      /\ insnIdx = 1 =>
            /\ cont'[block].heaps = cont[block].heaps
            /\ heapIdx \notin Pending(cont'[block])
            /\ \A i \in 1..Len(localState) : i <= heapIdx => cont'[block].done[i]
  BY <1>1, TakeHeapFacts
<1>5. EngineTypeOK'
  BY <1>1, <1>2, <1>3 DEF EngineInv, EngineTypeOK, Passes, Insns
<1>6. ControlInv'
  <2>1. (heapIdx + 1) - 1 = heapIdx
    BY <1>2
  <2>2. pc' = "wait" => localState'[heapIdx' - 1] \notin ExitHeap
    BY <1>1, <2>1 DEF Passes, CurHeap
  <2>3. heapIdx' <= Len(localState') + 1 /\ (pc' = "wait" => heapIdx' > 1)
    BY <1>1, <1>2
  <2> QED
    BY <1>1, <1>2, <1>3, <2>2, <2>3 DEF EngineInv, ControlInv, Passes
<1>7. InsertInv'
  BY <1>4 DEF InsertInv
<1>8. WalkInv'
  <2> SUFFICES ASSUME insnIdx = 1 PROVE WalkInv'
    BY <1>1 DEF WalkInv
  <2>1. localState' = cont'[block].heaps
    BY <1>1, <1>3, <1>4 DEF EngineInv, WalkInv
  <2>2. \A i \in 1..Len(localState) :
           i < heapIdx' \/ (i = heapIdx' /\ pc' = "emit") => cont'[block].done[i]
    <3> SUFFICES ASSUME NEW i \in 1..Len(localState),
                        i < heapIdx' \/ (i = heapIdx' /\ pc' = "emit")
                 PROVE  i <= heapIdx
      BY <1>4
    <3> QED
      BY <1>1, <1>2
  <2>3. pc' = "emit" => \A i \in 1..Len(emit') : emit'[i].dst # block
    BY DEF Passes
  <2> QED
    BY <1>1, <2>1, <2>2, <2>3 DEF WalkInv
<1>9. QueueMatchesTodo'
  BY <1>1 DEF EngineInv, QueueMatchesTodo
<1>10. PendingInv'
  <2> SUFFICES ASSUME NEW b \in Block, NEW i \in Pending(cont'[b])
               PROVE  \/ b \in todo
                      \/ b = block /\ insnIdx = 1 /\ heapIdx' <= i
    BY <1>1, <1>3 DEF PendingInv, Pending
  <2>1. i \in Pending(cont[b])
    BY <1>4
  <2>2. b \in todo \/ (b = block /\ insnIdx = 1 /\ heapIdx <= i)
    BY <1>4, <2>1 DEF EngineInv, PendingInv
  <2>3. ASSUME b = block, insnIdx = 1, heapIdx <= i PROVE heapIdx' <= i
    <3>1. i # heapIdx /\ i \in Int
      BY <1>4, <2>3 DEF Pending
    <3> QED
      BY <1>1, <1>2, <2>3, <3>1
  <2> QED
    BY <2>2, <2>3
<1> QED
  BY <1>4, <1>5, <1>6, <1>7, <1>8, <1>9, <1>10 DEF EngineInv

(* The current instruction, for whatever execInsn() does with it *)
LEMMA CurInsnFacts ==
  ASSUME EngineInv, Running
  PROVE  /\ insnIdx \in 1..Len(Insns(block)) /\ block \in Block
         /\ CurInsn.code \in TermCodes <=> insnIdx = Len(Insns(block))
         /\ CurInsn.code = "cond" => insnIdx > 1
         /\ CurInsn.code \in {"op", "call", "ret"} => CurInsn.fns[1] \in Fn
         /\ CurInsn.code = "jmp" => CurInsn.targets[1] \in Block
         /\ CurInsn.code = "cond" => /\ CurInsn.fns[1] \in Fn /\ CurInsn.fns[2] \in Fn
                                     /\ CurInsn.targets[1] \in Block
                                     /\ CurInsn.targets[2] \in Block
<1>1. prog \in Programs /\ block \in Block
  BY DEF EngineInv, EngineTypeOK
<1>2. insnIdx \in 1..Len(Insns(block))
  BY <1>1, InsnFacts DEF EngineInv, EngineTypeOK
<1> QED
  BY <1>1, <1>2, InsnFacts DEF CurInsn

LEMMA InsnKeepsInv ==
  ASSUME NoSelfJump, EngineInv, prog' = prog, conf' = conf, entry' = entry,
         \/ LookAheadCond \/ HandleExitPoint \/ ExecNontermInsn \/ SuspendForCall
         \/ ExecReturn \/ ExecAbort \/ ExecJump \/ ExecCondInsn
  PROVE  EngineInv'
<1> SUFFICES Passes
  BY PassesKeepsInv
<1>1. TakeHeap /\ pc = "insn" /\ Running
  BY DEF LookAheadCond, HandleExitPoint, ExecNontermInsn, SuspendForCall, ExecReturn,
         ExecAbort, ExecJump, ExecCondInsn, Executes, TakeHeap, AtHeap, Running
<1>2. CurHeap \in Heap
  BY <1>1, TakeHeapFacts
<1>3. /\ nextLocalState \in Seq(Heap) /\ emit \in Seq(Update)
      /\ callResults \in Seq(Heap) /\ results \in Seq(Heap) /\ endReached \in BOOLEAN
      /\ prog \in Programs
  BY DEF EngineInv, EngineTypeOK
<1>4. <<>> \in Seq(Heap)
  BY EmptySeq
<1>5. CASE LookAheadCond
  BY <1>1, <1>3, <1>5 DEF LookAheadCond, Passes
<1>6. CASE HandleExitPoint
  <2>1. Destroy[CurHeap] \in Heap
    BY <1>6, EngineAssumption, SymJoinAssumption DEF HandleExitPoint
  <2>2. Append(results, Destroy[CurHeap]) \in Seq(Heap)
    BY <1>3, <2>1, AppendProperties
  <2> QED
    BY <1>1, <1>3, <1>6, <2>2 DEF HandleExitPoint, Passes
<1>7. CASE ExecNontermInsn
  <2>1. Post[CurInsn.fns[1]][CurHeap] \in Seq(Heap)
    BY <1>1, <1>2, <1>7, CurInsnFacts, PostType DEF ExecNontermInsn, Executes
  <2>2. nextLocalState' \in Seq(Heap)
    BY <1>3, <1>7, <2>1, ConcatProperties DEF ExecNontermInsn
  <2>3. endReached' \in BOOLEAN
    BY <1>7 DEF ExecNontermInsn
  <2>4. CurInsn.code \notin TermCodes
    BY <1>7 DEF ExecNontermInsn, Executes, TermCodes
  <2> QED
    BY <1>1, <1>3, <1>7, <2>2, <2>3, <2>4 DEF ExecNontermInsn, Passes
<1>8. CASE SuspendForCall
  BY <1>1, <1>3, <1>4, <1>8 DEF SuspendForCall, Executes, Passes
<1>9. CASE ExecReturn
  <2>1. Post[CurInsn.fns[1]][CurHeap] \in Seq(Heap)
    BY <1>1, <1>2, <1>9, CurInsnFacts, PostType DEF ExecReturn, Executes
  <2>2. results' \in Seq(Heap)
    BY <1>3, <1>9, <2>1, ConcatProperties DEF ExecReturn
  <2> QED
    BY <1>1, <1>3, <1>9, <2>2 DEF ExecReturn, Passes
<1>10. CASE ExecAbort
  <2>1. Destroy[SetExit[CurHeap]] \in Heap
    BY <1>2, EngineAssumption, SymJoinAssumption
  <2>2. Append(results, Destroy[SetExit[CurHeap]]) \in Seq(Heap)
    BY <1>3, <2>1, AppendProperties
  <2> QED
    BY <1>1, <1>3, <1>10, <2>2 DEF ExecAbort, Passes
<1>11. CASE ExecJump
  <2> DEFINE t == CurInsn.targets[1]
  <2>1. CurInsn.code = "jmp" /\ t \in Block
    BY <1>1, <1>11, CurInsnFacts DEF ExecJump, Executes
  <2>2. <<CurHeap>> \in Seq(Heap)
    BY <1>2
  <2> HIDE DEF t
  <2>3. /\ Updates(<<CurHeap>>, t) \in Seq(Update)
        /\ \A i \in 1..Len(Updates(<<CurHeap>>, t)) : Updates(<<CurHeap>>, t)[i].dst = t
    BY <2>1, <2>2, UpdatesType
  <2>4. emit' = Updates(<<CurHeap>>, t) /\ pc' = "emit"
    BY <1>11 DEF ExecJump, t
  <2>5. insnIdx = 1 => t # block
    BY <1>1, <1>3, <2>1, CurInsnFacts DEF NoSelfJump, CurInsn, Insns, t
  <2>6. emit' \in Seq(Update) /\ (insnIdx = 1 => \A i \in 1..Len(emit') : emit'[i].dst # block)
    BY <2>3, <2>4, <2>5
  <2> QED
    BY <1>1, <1>3, <1>11, <2>1, <2>4, <2>6 DEF ExecJump, Passes
<1>12. CASE ExecCondInsn
  <2> DEFINE t(i) == CurInsn.targets[i]
             h(i) == Post[CurInsn.fns[i]][CurHeap]
  <2>1. /\ CurInsn.code = "cond" /\ insnIdx > 1 /\ insnIdx \in Nat
        /\ t(1) \in Block /\ t(2) \in Block /\ h(1) \in Seq(Heap) /\ h(2) \in Seq(Heap)
    <3>1. CurInsn.code = "cond"
      BY <1>12 DEF ExecCondInsn, Executes
    <3>2. /\ insnIdx \in 1..Len(Insns(block)) /\ insnIdx > 1
          /\ CurInsn.fns[1] \in Fn /\ CurInsn.fns[2] \in Fn /\ t(1) \in Block /\ t(2) \in Block
      BY <1>1, <3>1, CurInsnFacts
    <3>3. h(1) \in Seq(Heap) /\ h(2) \in Seq(Heap)
      BY <1>2, <3>2, PostType
    <3>4. insnIdx \in Nat
      BY <3>2
    <3> QED
      BY <3>1, <3>2, <3>3, <3>4
  <2>2. Updates(h(1), t(1)) \in Seq(Update) /\ Updates(h(2), t(2)) \in Seq(Update)
    BY <2>1, UpdatesType
  <2>3. emit' \in Seq(Update) /\ pc' = "emit"
    BY <1>12, <2>2, ConcatProperties DEF ExecCondInsn
  <2>4. insnIdx # 1
    BY <2>1
  <2> QED
    BY <1>1, <1>3, <1>12, <2>1, <2>3, <2>4 DEF ExecCondInsn, Passes
<1> QED
  BY <1>5, <1>6, <1>7, <1>8, <1>9, <1>10, <1>11, <1>12

(* A heap that carries the mark is passed. *)
LEMMA SkipDoneKeepsInv ==
  ASSUME EngineInv, prog' = prog, conf' = conf, entry' = entry, SkipDone
  PROVE  EngineInv'
<1>1. /\ pc = "insn" /\ insnIdx = 1 /\ heapIdx <= Len(localState) /\ Running /\ Running'
      /\ cont[block].done[heapIdx] /\ heapIdx' = heapIdx + 1 /\ UNCHANGED svars
      /\ cont' = cont /\ ins' = ins /\ arrived' = arrived
      /\ processed' = processed /\ todo' = todo /\ sched' = sched /\ pc' = pc
      /\ block' = block /\ insnIdx' = insnIdx /\ localState' = localState
      /\ nextLocalState' = nextLocalState /\ emit' = emit
      /\ callResults' = callResults /\ results' = results /\ endReached' = endReached
  BY DEF SkipDone, AtHeap, Running, svars
<1>2. heapIdx \in Nat /\ ins.pc = "idle" /\ Len(localState) \in Nat
  BY <1>1, LenProperties DEF EngineInv, EngineTypeOK, InsertInv
<1>3. CurInsn' = CurInsn
  BY <1>1 DEF CurInsn, Insns
<1>4. StateInv' /\ IsoInv'
  BY <1>1, SameContainers DEF EngineInv
<1>5. EngineTypeOK'
  BY <1>1, <1>2, <1>3 DEF EngineInv, EngineTypeOK, Insns
<1>a. ControlInv' /\ InsertInv'
  BY <1>1, <1>2, <1>3 DEF EngineInv, ControlInv, InsertInv
<1>6. WalkInv'
  <2>1. localState' = cont'[block'].heaps
    BY <1>1 DEF EngineInv, WalkInv
  <2>2. \A i \in 1..Len(localState) : i < heapIdx + 1 => cont[block].done[i]
    <3> SUFFICES ASSUME NEW i \in 1..Len(localState), i < heapIdx + 1
                 PROVE  cont[block].done[i]
      OBVIOUS
    <3>1. i = heapIdx \/ i < heapIdx
      BY <1>2
    <3> QED
      BY <1>1, <3>1 DEF EngineInv, WalkInv
  <2> QED
    BY <1>1, <2>1, <2>2 DEF WalkInv
<1>7. QueueMatchesTodo'
  BY <1>1 DEF EngineInv, QueueMatchesTodo
<1>8. PendingInv'
  <2> SUFFICES ASSUME NEW b \in Block, NEW i \in Pending(cont[b])
               PROVE  b \in todo \/ (b = block /\ heapIdx + 1 <= i)
    BY <1>1 DEF PendingInv, Pending
  <2>1. b \in todo \/ (b = block /\ heapIdx <= i)
    BY <1>2 DEF EngineInv, PendingInv
  <2>2. b = block => i # heapIdx
    BY <1>1 DEF Pending
  <2> QED
    BY <1>2, <2>1, <2>2 DEF Pending
<1> QED
  BY <1>4, <1>5, <1>a, <1>6, <1>7, <1>8 DEF EngineInv

-------------------------------------------------------------------------------
(* updateState() and joinCallResults(). *)

(***************************************************************************)
(* A step inside of insert(): only the container it was called for has     *)
(* changed, and a heap that is now pending was pending before or is going  *)
(* to be reported.                                                         *)
(***************************************************************************)
LEMMA InsertStepKeepsInv ==
  ASSUME EngineInv, prog' = prog, conf' = conf, UNCHANGED <<todo, sched, engineVars>>,
         StateInv', IsoInv',
         \/ /\ pc = "emit" /\ emit # <<>> /\ ins'.dst = emit[1].dst
            /\ \E sh \in arrived'[ins'.dst] : <<sh, emit[1].heap>> \in Covers
         \/ /\ pc = "join" /\ callResults # <<>> /\ ins'.dst = CallResults
            /\ callResults[1] \in arrived'[CallResults],
         processed' = processed,
         ins'.pc \in {"pack", "done"}, ins'.pc = "pack" => ins'.changed,
         ins.pc # "idle" => ins'.dst = ins.dst /\ ins'.changed,
         \A k \in Key : k # ins'.dst => cont'[k] = cont[k],
         ~ins'.changed /\ Pending(cont'[ins'.dst]) # {} => Pending(cont[ins'.dst]) # {}
  PROVE  EngineInv'
<1>1. /\ entry' = entry /\ pc' = pc /\ block' = block /\ insnIdx' = insnIdx
      /\ heapIdx' = heapIdx /\ localState' = localState
      /\ nextLocalState' = nextLocalState /\ emit' = emit
      /\ callResults' = callResults /\ results' = results /\ endReached' = endReached
      /\ todo' = todo /\ sched' = sched
  BY DEF engineVars
<1>2. CurInsn' = CurInsn /\ (Running' <=> Running)
  BY <1>1 DEF CurInsn, Insns, Running
<1>3. EngineTypeOK' /\ ControlInv' /\ InsertInv'
  BY <1>1, <1>2 DEF EngineInv, EngineTypeOK, ControlInv, InsertInv, Insns
<1>4. QueueMatchesTodo'
  BY <1>1 DEF EngineInv, QueueMatchesTodo
<1>5. insnIdx = 1 => ins'.dst # block
  <2> SUFFICES ASSUME insnIdx = 1 PROVE ins'.dst # block
    OBVIOUS
  <2>1. CASE pc = "emit" /\ emit # <<>> /\ ins'.dst = emit[1].dst
    <3>1. emit \in Seq(Update) /\ Running /\ WalkInv
      BY <2>1 DEF EngineInv, EngineTypeOK, Running
    <3>2. 1 \in 1..Len(emit)
      BY <2>1, <3>1
    <3> QED
      BY <2>1, <3>1, <3>2 DEF WalkInv
  <2>2. CASE ins'.dst = CallResults
    BY <2>2, SymStateAssumption DEF EngineInv, EngineTypeOK
  <2> QED
    BY <2>1, <2>2
<1>6. WalkInv'
  <2> SUFFICES ASSUME insnIdx = 1 PROVE WalkInv'
    BY <1>1 DEF WalkInv
  <2>1. cont'[block] = cont[block]
    BY <1>5 DEF EngineInv, EngineTypeOK, Key
  <2> QED
    BY <1>1, <1>2, <2>1 DEF EngineInv, WalkInv
<1>7. PendingInv'
  <2> SUFFICES ASSUME NEW b \in Block, NEW i \in Pending(cont'[b])
               PROVE  \/ b \in todo
                      \/ Running /\ b = block /\ insnIdx = 1 /\ heapIdx <= i
                      \/ b = ins'.dst /\ ins'.changed
    BY <1>1, <1>2 DEF PendingInv, Pending
  <2>1. CASE b # ins'.dst
    <3>1. i \in Pending(cont[b])
      BY <2>1 DEF Key
    <3> QED
      BY <2>1, <3>1 DEF EngineInv, PendingInv
  <2>2. CASE b = ins'.dst /\ ~ins'.changed
    <3>1. PICK j : j \in Pending(cont[b])
      BY <2>2
    <3>2. ins.pc = "idle"
      BY <2>2 DEF EngineInv, StateInv, StateTypeOK, Insertion
    <3> QED
      BY <1>5, <2>2, <3>1, <3>2 DEF EngineInv, PendingInv
  <2> QED
    BY <2>1, <2>2
<1> QED
  BY <1>3, <1>4, <1>6, <1>7 DEF EngineInv

LEMMA UpdateStateKeepsInv ==
  ASSUME EngineInv, prog' = prog, conf' = conf, UpdateState
  PROVE  EngineInv'
<1> DEFINE dst == emit[1].dst
           sh == emit[1].heap
           closing == IsLoopClosingEdge(block, dst)
<1>1. pc = "emit" /\ emit # <<>> /\ UNCHANGED <<todo, sched, engineVars>>
  BY DEF UpdateState
<1>2. PICK heap \in {sh, Abstract[sh]}, allow \in BOOLEAN : InsertBegin(dst, heap, allow)
  <2>1. InsertBegin(dst, IF closing THEN Abstract[sh] ELSE sh, closing \/ conf.joinMode = 0)
    BY DEF UpdateState
  <2> QED
    BY <2>1 DEF IsLoopClosingEdge
<1>3. emit[1] \in Update
  BY <1>1, HeadTailProperties DEF EngineInv, EngineTypeOK
<1>4. dst \in Block /\ dst \in Key /\ heap \in Heap
  BY <1>2, <1>3, EngineAssumption DEF Update, Key
<1>5. StateInv /\ IsoInv
  BY DEF EngineInv
<1>6. StateInv' /\ IsoInv'
  BY <1>2, <1>4, <1>5, InsertBeginKeepsInv, InsertBeginKeepsIso
<1>7. /\ ins'.dst = dst /\ ins'.pc \in {"pack", "done"}
      /\ ins'.pc = "pack" => ins'.changed
      /\ \A k \in Key : k # dst => cont'[k] = cont[k]
      /\ ~ins'.changed /\ Pending(cont'[dst]) # {} => Pending(cont[dst]) # {}
      /\ heap \in arrived'[dst] /\ processed' = processed
  BY <1>2, <1>4, <1>5, InsertBeginFacts
<1>8. ins.pc = "idle"
  BY <1>2 DEF InsertBegin
<1>9. \E a \in arrived'[dst] : <<a, sh>> \in Covers
  <2>1. sh \in Heap
    BY <1>3 DEF Update
  <2>2. <<heap, sh>> \in Covers
    BY <1>2, <2>1, SymJoinAssumption, EngineAssumption
  <2> QED
    BY <1>7, <2>2
<1> QED
  BY <1>1, <1>6, <1>7, <1>8, <1>9, InsertStepKeepsInv

LEMMA JoinCallResultKeepsInv ==
  ASSUME EngineInv, prog' = prog, conf' = conf, JoinCallResult
  PROVE  EngineInv'
<1> DEFINE dst == CallResults
           sh == Head(callResults)
<1>1. /\ pc = "join" /\ callResults # <<>> /\ UNCHANGED <<todo, sched, engineVars>>
      /\ InsertBegin(dst, sh, TRUE)
  BY DEF JoinCallResult
<1>2. sh \in Heap /\ dst \in Key /\ TRUE \in BOOLEAN
  BY <1>1, HeadTailProperties DEF EngineInv, EngineTypeOK, Key
<1>3. StateInv /\ IsoInv
  BY DEF EngineInv
<1> HIDE DEF sh
<1>4. StateInv' /\ IsoInv'
  BY <1>1, <1>2, <1>3, InsertBeginKeepsInv, InsertBeginKeepsIso
<1>5. /\ ins'.dst = dst /\ ins'.pc \in {"pack", "done"}
      /\ ins'.pc = "pack" => ins'.changed
      /\ \A k \in Key : k # dst => cont'[k] = cont[k]
      /\ ~ins'.changed /\ Pending(cont'[dst]) # {} => Pending(cont[dst]) # {}
      /\ sh \in arrived'[dst] /\ processed' = processed
  BY <1>1, <1>2, <1>3, InsertBeginFacts
<1>6. ins.pc = "idle"
  BY <1>1 DEF InsertBegin
<1> QED
  BY <1>1, <1>4, <1>5, <1>6, InsertStepKeepsInv DEF sh

LEMMA PackKeepsInv ==
  ASSUME EngineInv, prog' = prog, conf' = conf, Pack
  PROVE  EngineInv'
<1>1. (PackStep \/ PackDone) /\ UNCHANGED <<todo, sched, engineVars>>
  BY DEF Pack
<1>2. StateInv /\ IsoInv /\ InsertInv /\ ins.pc = "pack"
  BY <1>1 DEF EngineInv, PackStep, PackDone
<1>3. ins.changed
  BY <1>2 DEF InsertInv
<1>4. StateInv' /\ IsoInv'
  BY <1>1, <1>2, PackStepKeepsInv, PackDoneKeepsInv, PackStepKeepsIso, PackDoneKeepsIso
<1>5. /\ ins'.dst = ins.dst /\ ins'.pc \in {"pack", "done"} /\ ins'.changed
      /\ \A k \in Key : k # ins.dst => cont'[k] = cont[k]
      /\ arrived' = arrived /\ processed' = processed
  BY <1>1, <1>2, <1>3, PackFacts
<1> QED
  BY <1>1, <1>2, <1>4, <1>5, InsertStepKeepsInv DEF InsertInv

(* The target of the update is scheduled before anybody looks. *)
LEMMA ScheduleTargetKeepsInv ==
  ASSUME EngineInv, prog' = prog, conf' = conf, entry' = entry, ScheduleTarget
  PROVE  EngineInv'
<1>1. /\ pc = "emit" /\ InsertReturn /\ ins.pc = "done" /\ emit' = Tail(emit)
      /\ IF ins.changed THEN Schedule(ins.dst) ELSE UNCHANGED <<todo, sched>>
      /\ pc' = pc /\ block' = block /\ insnIdx' = insnIdx /\ heapIdx' = heapIdx
      /\ localState' = localState /\ nextLocalState' = nextLocalState
      /\ callResults' = callResults /\ results' = results /\ endReached' = endReached
      /\ cont' = cont /\ arrived' = arrived /\ processed' = processed
  BY DEF ScheduleTarget, InsertReturn
<1>2. emit # <<>> /\ ins.dst = emit[1].dst /\ emit \in Seq(Update)
  BY <1>1 DEF EngineInv, InsertInv, EngineTypeOK
<1>3. /\ emit' \in Seq(Update) /\ Len(emit') = Len(emit) - 1 /\ Len(emit) \in Nat
      /\ \A i \in 1..Len(emit') : emit'[i] = emit[i + 1]
  BY <1>1, <1>2, HeadTailProperties, LenProperties
<1>4. ins.dst \in Block
  <2>1. emit[1] \in Update
    BY <1>2, HeadTailProperties
  <2> QED
    BY <1>2, <2>1 DEF Update
<1>5. ins'.pc = "idle" /\ ins.pc # "pack"
  BY <1>1 DEF InsertReturn, EngineInv, StateInv, StateTypeOK, Insertion
<1>6. StateInv'
  BY <1>1, InsertReturnKeepsInv DEF EngineInv
<1>7. IsoInv'
  BY <1>1, <1>5, OtherKeepsIso DEF EngineInv
<1>8. /\ sched' \in Seq(Block) /\ todo' \subseteq Block /\ QueueMatchesTodo'
      /\ todo \subseteq todo' /\ (ins.changed => ins.dst \in todo')
  <2>1. /\ conf \in Conf /\ sched \in Seq(Block) /\ todo \subseteq Block
        /\ QueueMatchesTodo
    BY ControlFlowAssumption DEF EngineInv, EngineTypeOK
  <2>2. CASE ins.changed
    BY <1>1, <1>4, <2>1, <2>2, ScheduleKeepsQueue
  <2>3. CASE ~ins.changed
    BY <1>1, <2>1, <2>3 DEF QueueMatchesTodo
  <2> QED
    BY <2>2, <2>3
<1>9. CurInsn' = CurInsn /\ Running /\ Running'
  BY <1>1 DEF CurInsn, Insns, Running
<1>10. EngineTypeOK' /\ ControlInv' /\ InsertInv'
  BY <1>1, <1>3, <1>5, <1>8, <1>9
     DEF EngineInv, EngineTypeOK, ControlInv, InsertInv, Insns
<1>11. WalkInv'
  <2>1. \A i \in 1..Len(emit') : i + 1 \in 1..Len(emit)
    BY <1>3
  <2> QED
    BY <1>1, <1>3, <1>9, <2>1 DEF EngineInv, WalkInv
<1>12. PendingInv'
  <2> SUFFICES ASSUME NEW b \in Block, NEW i \in Pending(cont[b])
               PROVE  b \in todo' \/ (b = block /\ insnIdx = 1 /\ heapIdx <= i)
    BY <1>1, <1>9 DEF PendingInv, Pending
  <2> QED
    BY <1>8 DEF EngineInv, PendingInv
<1> QED
  BY <1>6, <1>7, <1>8, <1>10, <1>11, <1>12 DEF EngineInv

(* The terminal instruction is done with a heap. *)
LEMMA UpdatesDoneKeepsInv ==
  ASSUME EngineInv, prog' = prog, conf' = conf, entry' = entry, UpdatesDone
  PROVE  EngineInv'
<1>1. /\ pc = "emit" /\ emit = <<>> /\ pc' = "insn" /\ heapIdx' = heapIdx + 1
      /\ UNCHANGED svars /\ cont' = cont /\ ins' = ins /\ arrived' = arrived
      /\ processed' = processed /\ todo' = todo /\ sched' = sched
      /\ block' = block /\ insnIdx' = insnIdx /\ localState' = localState
      /\ nextLocalState' = nextLocalState /\ emit' = emit
      /\ callResults' = callResults /\ results' = results /\ endReached' = endReached
  BY DEF UpdatesDone, svars
<1>2. /\ heapIdx \in Nat /\ heapIdx > 0 /\ ins.pc = "idle" /\ heapIdx <= Len(localState)
      /\ Len(localState) \in Nat /\ block \in Block
  BY <1>1, LenProperties DEF EngineInv, EngineTypeOK, InsertInv, ControlInv
<1>3. CurInsn' = CurInsn /\ Running /\ Running'
  BY <1>1 DEF CurInsn, Insns, Running
<1>4. StateInv' /\ IsoInv'
  BY <1>1, SameContainers DEF EngineInv
<1>5. EngineTypeOK'
  BY <1>1, <1>2, <1>3 DEF EngineInv, EngineTypeOK, Insns
<1>a. ControlInv' /\ InsertInv'
  BY <1>1, <1>2, <1>3 DEF EngineInv, ControlInv, InsertInv
<1>6. WalkInv'
  <2> SUFFICES ASSUME insnIdx = 1 PROVE WalkInv'
    BY <1>1 DEF WalkInv
  <2>1. \A i \in 1..Len(localState) : i < heapIdx + 1 => i < heapIdx \/ i = heapIdx
    BY <1>2
  <2> QED
    BY <1>1, <1>3, <2>1 DEF EngineInv, WalkInv
<1>7. QueueMatchesTodo'
  BY <1>1 DEF EngineInv, QueueMatchesTodo
<1>8. PendingInv'
  <2> SUFFICES ASSUME NEW b \in Block, NEW i \in Pending(cont[b])
               PROVE  b \in todo \/ (b = block /\ insnIdx = 1 /\ heapIdx + 1 <= i)
    BY <1>1, <1>3 DEF PendingInv, Pending
  <2>1. b \in todo \/ (b = block /\ insnIdx = 1 /\ heapIdx <= i)
    BY <1>2 DEF EngineInv, PendingInv
  <2>2. b = block /\ insnIdx = 1 => i # heapIdx
    BY <1>1, <1>2, <1>3 DEF Pending, EngineInv, WalkInv
  <2> QED
    BY <1>2, <2>1, <2>2 DEF Pending
<1> QED
  BY <1>4, <1>5, <1>a, <1>6, <1>7, <1>8 DEF EngineInv

-------------------------------------------------------------------------------
(* The main loop. *)

(* At the end of the first instruction no heap of the block is pending. *)
LEMMA AllDoneAtEnd ==
  ASSUME EngineInv, pc = "insn", insnIdx = 1, heapIdx > Len(localState)
  PROVE  Pending(cont[block]) = {}
<1>1. /\ WalkInv /\ Running /\ block \in Key /\ heapIdx \in Nat /\ StateInv
      /\ block \in Block
  BY DEF EngineInv, EngineTypeOK, Key, Running
<1>2. Len(cont[block].heaps) = Len(cont[block].done) /\ Len(cont[block].heaps) \in Nat
  BY <1>1, ContFacts
<1>3. \A i \in 1..Len(cont[block].done) : i < heapIdx
  BY <1>1, <1>2 DEF WalkInv
<1> QED
  BY <1>1, <1>2, <1>3 DEF WalkInv, Pending

(* pruneOrigin() makes nothing pending. *)
LEMMA PruneKeepsInv ==
  ASSUME EngineInv, prog' = prog, conf' = conf, pc = "insn", insnIdx = 1, PruneOrigin
  PROVE  /\ StateInv' /\ IsoInv' /\ ins' = ins
         /\ processed' = processed
         /\ \A b \in Block : Pending(cont'[b]) \subseteq Pending(cont[b])
<1>1. StateInv /\ IsoInv /\ block \in Block /\ block \in Key /\ ins.pc = "idle"
  BY DEF EngineInv, EngineTypeOK, Key, InsertInv
<1>2. CASE UNCHANGED svars
  <2>1. cont' = cont /\ ins' = ins /\ processed' = processed
    BY <1>2 DEF svars
  <2> QED
    BY <1>1, <1>2, <2>1, SameContainers
<1>3. CASE ClearIfDone(block)
  <2>1. StateInv'
    BY <1>1, <1>3, ClearIfDoneKeepsInv
  <2>2. PICK new \in {cont[block], ClearState(cont[block])} :
           /\ cont' = [cont EXCEPT ![block] = new]
           /\ ins' = ins /\ processed' = processed
    BY <1>3 DEF ClearIfDone
  <2>3. /\ \A k \in Key : k # block => cont'[k] = cont[k]
        /\ cont'[block] = new /\ cont[block] \in State
    BY <1>1, <2>2 DEF StateInv, StateTypeOK
  <2>4. \/ new = cont[block]
        \/ new.heaps = <<>> /\ new.done = <<>>
    BY <2>3 DEF ClearState, State
  <2>5. \A k \in Block : cont'[k].heaps \in {cont[k].heaps, <<>>}
    BY <2>3, <2>4 DEF Key
  <2>6. IsoInv'
    BY <1>1, <2>2, <2>5, OtherKeepsIso
  <2>7. new.done = <<>> => Pending(new) = {}
    BY DEF Pending
  <2> QED
    BY <2>1, <2>2, <2>3, <2>4, <2>6, <2>7 DEF Key
<1> QED
  BY <1>2, <1>3 DEF PruneOrigin

LEMMA EndOfInsnKeepsInv ==
  ASSUME EngineInv, prog' = prog, conf' = conf, entry' = entry, EndOfInsn
  PROVE  EngineInv'
<1> DEFINE nextState == IF CurInsn.code = "cmp" THEN localState ELSE nextLocalState
<1>1. /\ pc = "insn" /\ heapIdx > Len(localState) /\ nextLocalState' = <<>>
      /\ todo' = todo /\ sched' = sched /\ block' = block /\ emit' = emit
      /\ callResults' = callResults /\ results' = results /\ endReached' = endReached
      /\ Running
  BY DEF EndOfInsn, Running
<1>2. /\ insnIdx \in Nat /\ insnIdx > 0 /\ ins.pc = "idle" /\ <<>> \in Seq(Heap)
      /\ localState \in Seq(Heap) /\ nextLocalState \in Seq(Heap)
      /\ heapIdx \in Nat /\ heapIdx > 0
  BY <1>1, EmptySeq DEF EngineInv, EngineTypeOK, InsertInv
<1>3. /\ StateInv' /\ IsoInv' /\ ins' = ins /\ processed' = processed
      /\ \A b \in Block : Pending(cont'[b]) \subseteq Pending(cont[b])
  <2>1. CASE insnIdx = 1
    BY <1>1, <2>1, PruneKeepsInv DEF EndOfInsn
  <2>2. CASE insnIdx # 1
    <3>1. UNCHANGED svars /\ cont' = cont /\ ins' = ins /\ processed' = processed
      BY <2>2 DEF EndOfInsn, svars
    <3> QED
      BY <3>1, SameContainers DEF EngineInv
  <2> QED
    BY <2>1, <2>2
<1>4. \/ /\ pc' = "getNext" /\ insnIdx' = insnIdx
         /\ heapIdx' = heapIdx /\ localState' = localState
      \/ /\ pc' = "insn" /\ insnIdx' = insnIdx + 1
         /\ heapIdx' = 1 /\ localState' = nextState /\ nextState # <<>>
  BY <1>1 DEF EndOfInsn
<1>5. nextState # <<>> => insnIdx + 1 <= Len(Insns(block))
  <2> SUFFICES ASSUME nextState # <<>> PROVE insnIdx + 1 <= Len(Insns(block))
    OBVIOUS
  <2>1. CurInsn.code \notin TermCodes
    BY <1>1 DEF EngineInv, ControlInv, TermCodes
  <2>2. insnIdx \in 1..Len(Insns(block)) /\ insnIdx # Len(Insns(block))
    BY <1>1, <2>1, CurInsnFacts
  <2>3. Len(Insns(block)) \in Nat
    BY InsnFacts DEF EngineInv, EngineTypeOK
  <2> QED
    BY <2>2, <2>3
<1>6. nextState \in Seq(Heap)
  BY <1>2
<1> HIDE DEF nextState
<1>7. EngineTypeOK'
  BY <1>1, <1>2, <1>4, <1>5, <1>6 DEF EngineInv, EngineTypeOK, Running, Insns
<1>8. ControlInv' /\ InsertInv'
  <2>1. pc' = "insn" => heapIdx' <= Len(localState') + 1
    BY <1>4, <1>6, LenProperties
  <2>2. emit = <<>> /\ processed[CallResults] = {}
    BY <1>1 DEF EngineInv, ControlInv, InsertInv
  <2> QED
    BY <1>1, <1>2, <1>3, <1>4, <2>1, <2>2 DEF ControlInv, InsertInv, Running
<1>9. WalkInv'
  BY <1>2, <1>4 DEF WalkInv, Running
<1>10. QueueMatchesTodo'
  BY <1>1 DEF EngineInv, QueueMatchesTodo
<1>11. PendingInv'
  <2> SUFFICES ASSUME NEW b \in Block, NEW i \in Pending(cont'[b]) PROVE b \in todo
    BY <1>1 DEF PendingInv, Pending
  <2>1. i \in Pending(cont[b])
    BY <1>3
  <2>2. b \in todo \/ (b = block /\ insnIdx = 1)
    BY <1>2, <2>1 DEF EngineInv, PendingInv
  <2> QED
    BY <1>1, <2>1, <2>2, AllDoneAtEnd
<1> QED
  BY <1>3, <1>7, <1>8, <1>9, <1>10, <1>11 DEF EngineInv

LEMMA GetNextKeepsInv ==
  ASSUME EngineInv, prog' = prog, conf' = conf, entry' = entry, GetNext
  PROVE  EngineInv'
<1>1. /\ pc = "getNext" /\ insnIdx' = 1 /\ heapIdx' = 1 /\ nextLocalState' = <<>>
      /\ pc' = "insn" /\ UNCHANGED svars /\ cont' = cont /\ ins' = ins
      /\ processed' = processed
      /\ emit' = emit /\ callResults' = callResults /\ results' = results
      /\ endReached' = endReached
  BY DEF GetNext, svars
<1>2. PICK bb \in todo : /\ GetNextBlock(bb, PendingCnt) /\ block' = bb
                         /\ localState' = cont[bb].heaps
  BY DEF GetNext
<1>3. ins.pc = "idle" /\ ~Running /\ Running' /\ todo \subseteq Block /\ bb \in Block
  BY <1>1 DEF EngineInv, InsertInv, Running, EngineTypeOK
<1>4. sched' \in Seq(Block) /\ todo' = todo \ {bb} /\ QueueMatchesTodo'
  BY <1>2, GetNextKeepsQueue, ControlFlowAssumption DEF EngineInv, EngineTypeOK
<1>5. StateInv' /\ IsoInv'
  BY <1>1, SameContainers DEF EngineInv
<1>6. cont[bb].heaps \in Seq(Heap) /\ <<>> \in Seq(Heap)
  BY <1>3, ContFacts, EmptySeq DEF EngineInv, Key
<1>7. Len(Insns(bb)) \in Nat /\ Len(Insns(bb)) > 0
  BY <1>3, InsnFacts DEF EngineInv, EngineTypeOK
<1>8. EngineTypeOK'
  BY <1>1, <1>2, <1>3, <1>4, <1>6, <1>7 DEF EngineInv, EngineTypeOK, Insns
<1>9. ControlInv' /\ InsertInv'
  <2>1. heapIdx' <= Len(localState') + 1
    BY <1>1, <1>2, <1>6, LenProperties
  <2>2. emit = <<>> /\ processed[CallResults] = {}
    BY <1>1 DEF EngineInv, ControlInv, InsertInv
  <2> QED
    BY <1>1, <1>3, <2>1, <2>2 DEF ControlInv, InsertInv
<1>10. WalkInv'
  BY <1>1, <1>2 DEF WalkInv
<1>11. PendingInv'
  <2> SUFFICES ASSUME NEW b \in Block, NEW i \in Pending(cont[b])
               PROVE  b \in todo' \/ (b = block' /\ 1 <= i)
    BY <1>1, <1>3 DEF PendingInv, Pending
  <2>1. b \in todo
    BY <1>3 DEF EngineInv, PendingInv
  <2> QED
    BY <1>2, <1>4, <2>1 DEF Pending
<1> QED
  BY <1>4, <1>5, <1>8, <1>9, <1>10, <1>11 DEF EngineInv

(* The results of a call arrive, are joined and become the next state. *)
LEMMA CallKeepsInv ==
  ASSUME EngineInv, prog' = prog, conf' = conf, entry' = entry,
         CallReturns \/ CallResultJoined \/ CallResultsDone
  PROVE  EngineInv'
<1>1. /\ pc \in {"wait", "join"} /\ pc' \in {"join", "insn"} /\ todo' = todo
      /\ sched' = sched /\ block' = block /\ insnIdx' = insnIdx /\ heapIdx' = heapIdx
      /\ localState' = localState /\ emit' = emit /\ results' = results
  BY DEF CallReturns, CallResultJoined, CallResultsDone
<1>2. /\ StateInv /\ IsoInv /\ CallResults \in Key /\ CurInsn.code = "call"
      /\ heapIdx \in 2..(Len(localState) + 1) /\ localState \in Seq(Heap)
      /\ Len(localState) \in Nat /\ nextLocalState \in Seq(Heap)
      /\ callResults \in Seq(Heap) /\ <<>> \in Seq(Heap)
  BY <1>1, EmptySeq, LenProperties DEF EngineInv, EngineTypeOK, ControlInv, Key, Running
<1>3. CurInsn' = CurInsn /\ Running /\ Running' /\ CurInsn.code \notin TermCodes
  BY <1>1, <1>2 DEF CurInsn, Insns, Running, TermCodes
<1>4. /\ StateInv' /\ IsoInv' /\ ins'.pc = "idle" /\ \A k \in Block : cont'[k] = cont[k]
      /\ nextLocalState' \in Seq(Heap) /\ callResults' \in Seq(Heap)
      /\ endReached' \in BOOLEAN /\ processed'[CallResults] = {}
  <2>1. CASE CallReturns
    <3>1. localState[heapIdx - 1] \in Heap
      BY <1>2, ElementOfSeq
    <3>2. callResults' \in Seq(Heap)
      BY <1>2, <1>3, <2>1, <3>1, CurInsnFacts, PostType DEF CallReturns
    <3>3. nextLocalState' = nextLocalState /\ endReached' \in BOOLEAN
          /\ Import(CallResults, nextLocalState)
      BY <2>1 DEF CallReturns
    <3>4. /\ StateInv' /\ IsoInv' /\ ins' = ins /\ ins.pc = "idle"
          /\ \A k \in Block : cont'[k] = cont[k]
          /\ processed'[CallResults] = {}
      BY <1>2, <3>3, ImportKeepsInv
    <3> QED
      BY <1>2, <3>2, <3>3, <3>4
  <2>2. CASE CallResultJoined
    <3>1. /\ InsertReturn /\ ins.pc = "done" /\ cont' = cont /\ pc = "join"
          /\ processed' = processed /\ callResults' = Tail(callResults) /\ nextLocalState' = nextLocalState
          /\ endReached' = endReached
      BY <2>2 DEF CallResultJoined, InsertReturn
    <3>2. ins'.pc = "idle" /\ callResults # <<>> /\ processed[CallResults] = {}
      BY <3>1 DEF InsertReturn, EngineInv, StateInv, StateTypeOK, Insertion, InsertInv
    <3>3. callResults' \in Seq(Heap)
      BY <1>2, <3>1, <3>2, HeadTailProperties
    <3>4. StateInv'
      BY <1>2, <3>1, InsertReturnKeepsInv
    <3>5. IsoInv'
      BY <1>2, <3>1, <3>2, OtherKeepsIso
    <3> QED
      BY <1>2, <3>1, <3>2, <3>3, <3>4, <3>5 DEF EngineInv, EngineTypeOK
  <2>3. CASE CallResultsDone
    <3>1. /\ Import(CallResults, <<>>) /\ nextLocalState' = cont[CallResults].heaps
          /\ callResults' = callResults /\ endReached' = endReached
      BY <2>3 DEF CallResultsDone
    <3>2. /\ StateInv' /\ IsoInv' /\ ins' = ins /\ ins.pc = "idle"
          /\ \A k \in Block : cont'[k] = cont[k]
          /\ processed'[CallResults] = {}
      BY <1>2, <3>1, ImportKeepsInv
    <3>3. cont[CallResults].heaps \in Seq(Heap)
      BY <1>2, ContFacts
    <3> QED
      BY <1>2, <3>1, <3>2, <3>3 DEF EngineInv, EngineTypeOK
  <2> QED
    BY <2>1, <2>2, <2>3
<1>5. EngineTypeOK' /\ ControlInv' /\ InsertInv'
  BY <1>1, <1>2, <1>3, <1>4
     DEF EngineInv, EngineTypeOK, ControlInv, InsertInv, Insns
<1>6. WalkInv'
  BY <1>1, <1>3, <1>4 DEF EngineInv, EngineTypeOK, WalkInv
<1>7. QueueMatchesTodo'
  BY <1>1 DEF EngineInv, QueueMatchesTodo
<1>8. PendingInv'
  <2> SUFFICES ASSUME NEW b \in Block, NEW i \in Pending(cont[b])
               PROVE  b \in todo \/ (b = block /\ insnIdx = 1 /\ heapIdx <= i)
    BY <1>1, <1>3, <1>4 DEF PendingInv, Pending
  <2>1. b # ins.dst \/ ins.pc = "idle"
    <3>1. ins.pc # "idle" => ins.dst = CallResults
      BY <1>1 DEF EngineInv, InsertInv
    <3> QED
      BY <3>1, SymStateAssumption
  <2> QED
    BY <2>1 DEF EngineInv, PendingInv
<1> QED
  BY <1>4, <1>5, <1>6, <1>7, <1>8 DEF EngineInv

(* run() has returned, or nothing happens at all. *)
LEMMA IdleKeepsInv ==
  ASSUME EngineInv, prog' = prog, conf' = conf, entry' = entry,
         \/ Complete
         \/ UNCHANGED <<svars, todo, sched, engineVars>>
  PROVE  EngineInv'
<1>1. /\ UNCHANGED svars /\ cont' = cont /\ ins' = ins /\ arrived' = arrived
      /\ processed' = processed /\ todo' = todo /\ sched' = sched
      /\ block' = block /\ insnIdx' = insnIdx /\ heapIdx' = heapIdx
      /\ localState' = localState /\ nextLocalState' = nextLocalState /\ emit' = emit
      /\ callResults' = callResults /\ results' = results /\ endReached' = endReached
      /\ pc' = pc \/ (pc = "getNext" /\ pc' = "done")
  BY DEF Complete, svars, engineVars
<1>2. CurInsn' = CurInsn /\ (Running' <=> Running)
  BY <1>1 DEF CurInsn, Insns, Running
<1>3. StateInv' /\ IsoInv'
  BY <1>1, SameContainers DEF EngineInv
<1>4. EngineTypeOK' /\ ControlInv' /\ InsertInv'
  BY <1>1, <1>2 DEF EngineInv, EngineTypeOK, ControlInv, InsertInv, Insns
<1>5. WalkInv' /\ QueueMatchesTodo'
  BY <1>1, <1>2 DEF EngineInv, WalkInv, QueueMatchesTodo
<1>6. PendingInv'
  BY <1>1, <1>2 DEF EngineInv, PendingInv, Pending
<1> QED
  BY <1>3, <1>4, <1>5, <1>6 DEF EngineInv

(* initEngine() *)
LEMMA EngineInvInit == Init => EngineInv
<1> SUFFICES ASSUME Init PROVE EngineInv
  OBVIOUS
<1> DEFINE bb == prog.entry
           first == InsertNew(EmptyState, entry)
<1>1. /\ prog \in Programs /\ conf \in Confs /\ bb \in Block /\ entry \in Heap
      /\ bb \in Key /\ CallResults \in Key
  BY ControlFlowAssumption, EngineAssumption DEF Init, InitControlFlow, Key
<1>2. /\ <<>> \in Seq(Heap) /\ <<>> \in Seq(BOOLEAN) /\ <<>> \in Seq(Update)
      /\ <<>> \in Seq(Block) /\ Len(<<>>) = 0 /\ <<bb>> \in Seq(Block)
  BY <1>1, EmptySeq
<1>3. /\ GoodState(EmptyState, {}, {}) /\ EmptyState \in State
      /\ EmptyState.heaps = <<>> /\ EmptyState.done = <<>>
  BY <1>2 DEF GoodState, EmptyState, State
<1>4. GoodState(first, {entry}, {}) /\ first \in State
  <2>1. GoodState(first, {} \cup {entry}, {})
    BY <1>1, <1>3, InsertNewIsGood
  <2>2. {} \cup {entry} = {entry}
    OBVIOUS
  <2> QED
    BY <2>1, <2>2 DEF GoodState
<1>5. Distinct(EmptyState) /\ Distinct(first)
  <2>1. Distinct(EmptyState) /\ \A i \in 1..Len(EmptyState.heaps) : FALSE
    BY <1>2, <1>3 DEF Distinct
  <2> QED
    BY <1>1, <1>3, <2>1, InsertNewDistinct
<1> HIDE DEF first
<1>6. /\ cont = [k \in Key |-> IF k = bb THEN first ELSE EmptyState]
      /\ arrived = [k \in Key |-> IF k = bb THEN {entry} ELSE {}]
      /\ processed = [k \in Key |-> {}] /\ ins = IdleInsertion /\ todo = {bb}
      /\ sched = IF conf.schedKind < 3 THEN <<bb>> ELSE <<>>
      /\ pc = "getNext" /\ block = bb /\ insnIdx = 1 /\ heapIdx = 1
      /\ localState = <<>> /\ nextLocalState = <<>> /\ emit = <<>>
      /\ callResults = <<>> /\ results = <<>> /\ endReached = FALSE
  BY DEF Init, first
<1>7. ins \in Insertion /\ ins.pc = "idle"
  BY <1>1, <1>6 DEF IdleInsertion, Insertion
<1>8. StateInv
  BY <1>1, <1>3, <1>4, <1>6, <1>7 DEF StateInv, StateTypeOK, PackInv
<1>9. IsoInv
  BY <1>5, <1>6, <1>7 DEF IsoInv, Key
<1>10. EngineTypeOK
  <2>1. sched \in Seq(Block) /\ todo \subseteq Block
    BY <1>1, <1>2, <1>6
  <2>2. insnIdx \in Nat /\ insnIdx > 0 /\ heapIdx \in Nat /\ heapIdx > 0
    BY <1>6
  <2>3. ~Running /\ pc \in {"getNext", "insn", "emit", "wait", "join", "done"}
    BY <1>6 DEF Running
  <2>4. endReached \in BOOLEAN
    BY <1>6
  <2> QED
    BY <1>1, <1>2, <1>6, <2>1, <2>2, <2>3, <2>4 DEF EngineTypeOK
<1>11. ControlInv /\ InsertInv /\ WalkInv
  BY <1>1, <1>6, <1>7 DEF ControlInv, InsertInv, WalkInv, Running
<1>12. QueueMatchesTodo
  BY <1>6 DEF QueueMatchesTodo
<1>13. PendingInv
  BY <1>2, <1>3, <1>6 DEF PendingInv, Pending, Key
<1> QED
  BY <1>8, <1>9, <1>10, <1>11, <1>12, <1>13 DEF EngineInv

LEMMA EngineInvNext ==
  ASSUME NoSelfJump
  PROVE  EngineInv /\ [Next]_vars => EngineInv'
<1> SUFFICES ASSUME EngineInv, [Next]_vars PROVE EngineInv'
  OBVIOUS
<1>1. prog' = prog /\ conf' = conf /\ entry' = entry
  BY DEF Next, vars, engineVars
<1>2. CASE UNCHANGED vars \/ Terminated \/ Complete
  BY <1>1, <1>2, IdleKeepsInv DEF vars, Terminated
<1>3. CASE GetNext
  BY <1>1, <1>3, GetNextKeepsInv
<1>4. CASE SkipDone
  BY <1>1, <1>4, SkipDoneKeepsInv
<1>5. CASE \/ LookAheadCond \/ HandleExitPoint \/ ExecNontermInsn \/ SuspendForCall
           \/ ExecReturn \/ ExecAbort \/ ExecJump \/ ExecCondInsn
  BY <1>1, <1>5, InsnKeepsInv
<1>6. CASE UpdateState
  BY <1>1, <1>6, UpdateStateKeepsInv
<1>7. CASE ScheduleTarget
  BY <1>1, <1>7, ScheduleTargetKeepsInv
<1>8. CASE UpdatesDone
  BY <1>1, <1>8, UpdatesDoneKeepsInv
<1>9. CASE Pack
  BY <1>1, <1>9, PackKeepsInv
<1>10. CASE EndOfInsn
  BY <1>1, <1>10, EndOfInsnKeepsInv
<1>11. CASE JoinCallResult
  BY <1>1, <1>11, JoinCallResultKeepsInv
<1>12. CASE CallReturns \/ CallResultJoined \/ CallResultsDone
  BY <1>1, <1>12, CallKeepsInv
<1> QED
  BY <1>2, <1>3, <1>4, <1>5, <1>6, <1>7, <1>8, <1>9, <1>10, <1>11, <1>12 DEF Next

LEMMA EngineInvariant ==
  ASSUME NoSelfJump
  PROVE  Spec => []EngineInv
<1>1. Init => EngineInv
  BY EngineInvInit
<1>2. EngineInv /\ [Next]_vars => EngineInv'
  BY EngineInvNext
<1> QED
  BY <1>1, <1>2, PTL DEF Spec

-------------------------------------------------------------------------------
(* Theorems. *)

(***************************************************************************)
(* The variables of run() have their types: no index leaves its sequence,  *)
(* the engine never runs off the end of a block, and the queue holds       *)
(* blocks (SymExecEngine::run() and execBlock()).                          *)
(***************************************************************************)
THEOREM EngineTypeCorrect ==
  ASSUME NoSelfJump
  PROVE  Spec => [](EngineTypeOK /\ StateTypeOK)
<1>1. EngineInv => EngineTypeOK /\ StateTypeOK
  BY DEF EngineInv, StateInv
<1> QED
  BY <1>1, EngineInvariant, PTL

(***************************************************************************)
(* PendingIsScheduled: updateState() and the scheduler never leave a heap  *)
(* of a block behind that nobody is going to process.                      *)
(***************************************************************************)
THEOREM WorkIsScheduled ==
  ASSUME NoSelfJump
  PROVE  Spec => []PendingIsScheduled
<1>1. EngineInv => PendingIsScheduled
  <2> SUFFICES ASSUME PendingInv PROVE PendingIsScheduled
    BY DEF EngineInv
  <2> QED
    BY DEF PendingInv, PendingIsScheduled, Running
<1> QED
  BY <1>1, EngineInvariant, PTL

(***************************************************************************)
(* SkippedIsProcessed: the index into the copy, localState_, is an index   *)
(* into the original, and a heap that execInsn() skips has been processed. *)
(***************************************************************************)
THEOREM SkippingIsSound ==
  ASSUME NoSelfJump
  PROVE  Spec => []SkippedIsProcessed
<1>1. EngineInv => SkippedIsProcessed
  <2> SUFFICES ASSUME EngineInv, AtHeap, insnIdx = 1
               PROVE  /\ heapIdx \in DOMAIN cont[block].done
                      /\ cont[block].done[heapIdx] => CurHeap \in processed[block]
    BY DEF SkippedIsProcessed
  <2>1. /\ StateInv /\ block \in Block /\ block \in Key /\ heapIdx \in Nat
        /\ heapIdx > 0 /\ heapIdx <= Len(localState) /\ localState = cont[block].heaps
    BY DEF EngineInv, EngineTypeOK, Key, AtHeap, WalkInv, Running
  <2>2. cont[block] \in State /\ Len(cont[block].heaps) = Len(cont[block].done)
    BY <2>1, ContFacts
  <2>3. cont[block].done \in Seq(BOOLEAN) /\ Len(cont[block].done) \in Nat
    BY <2>2, StateFacts
  <2>4. heapIdx \in 1..Len(cont[block].heaps) /\ heapIdx \in 1..Len(cont[block].done)
    BY <2>1, <2>2, <2>3
  <2>5. DOMAIN cont[block].done = 1..Len(cont[block].done)
    BY <2>3, LenProperties
  <2>6. cont[block].done[heapIdx] => cont[block].heaps[heapIdx] \in processed[block]
    BY <2>1, <2>4 DEF StateInv, GoodState
  <2> QED
    BY <2>1, <2>4, <2>5, <2>6 DEF CurHeap
<1> QED
  BY <1>1, EngineInvariant, PTL

(***************************************************************************)
(* PruneNeverFails: when pruneOrigin() is called, every heap of the block  *)
(* carries the mark, so that it never traps.                               *)
(***************************************************************************)
THEOREM PruningIsSafe ==
  ASSUME NoSelfJump
  PROVE  Spec => []PruneNeverFails
<1>1. EngineInv => PruneNeverFails
  BY AllDoneAtEnd DEF PruneNeverFails
<1> QED
  BY <1>1, EngineInvariant, PTL

(***************************************************************************)
(* QueueMatchesTodo: d->sched and d->todo of BlockScheduler stay in step   *)
(* under every scheduler, so that getNext() and schedule() never trap.     *)
(***************************************************************************)
THEOREM QueueIsConsistent ==
  ASSUME NoSelfJump
  PROVE  Spec => []QueueMatchesTodo
<1>1. EngineInv => QueueMatchesTodo
  BY DEF EngineInv
<1> QED
  BY <1>1, EngineInvariant, PTL

(* When run() has returned nothing waits and no insert() is under way. *)
FinishedInv == pc = "done" => todo = {} /\ ins.pc = "idle"

LEMMA FinishedInit == Init => FinishedInv
BY DEF Init, FinishedInv

LEMMA FinishedStep ==
  ASSUME EngineInv, FinishedInv, [Next]_vars
  PROVE  FinishedInv'
<1> SUFFICES ASSUME pc' = "done"
             PROVE  todo' = {} /\ ins'.pc = "idle"
  BY DEF FinishedInv
<1>1. CASE pc = "done"
  <2>1. todo = {} /\ ins.pc = "idle"
    BY <1>1 DEF FinishedInv
  <2>2. todo' = todo /\ ins' = ins
    BY <1>1, <2>1 DEF Next, vars, svars, engineVars, GetNext, Complete, SkipDone,
         LookAheadCond, HandleExitPoint, ExecNontermInsn, SuspendForCall, ExecReturn,
         ExecAbort, ExecJump, ExecCondInsn, Executes, TakeHeap, AtHeap, UpdateState,
         ScheduleTarget, UpdatesDone, Pack, PackStep, PackDone, EndOfInsn, CallReturns,
         JoinCallResult, CallResultJoined, CallResultsDone, Terminated
  <2> QED
    BY <2>1, <2>2
<1>2. CASE pc # "done"
  <2>1. Complete
    BY <1>2 DEF Next, vars, engineVars, GetNext, SkipDone,
         LookAheadCond, HandleExitPoint, ExecNontermInsn, SuspendForCall, ExecReturn,
         ExecAbort, ExecJump, ExecCondInsn, UpdateState,
         ScheduleTarget, UpdatesDone, Pack, EndOfInsn, CallReturns,
         JoinCallResult, CallResultJoined, CallResultsDone, Terminated, TakeHeap, AtHeap,
         Executes
  <2>2. todo = {} /\ todo' = todo /\ ins' = ins /\ pc = "getNext"
    BY <2>1 DEF Complete, svars
  <2> QED
    BY <2>2 DEF EngineInv, InsertInv
<1> QED
  BY <1>1, <1>2

LEMMA NothingPending ==
  ASSUME EngineInv, FinishedInv, pc = "done", NEW b \in Block
  PROVE  PendingHeaps(cont[b]) = {}
<1>1. Pending(cont[b]) = {}
  BY DEF EngineInv, PendingInv, Running, FinishedInv
<1> QED
  BY <1>1 DEF PendingHeaps

(***************************************************************************)
(* When run() returns, every heap that ever arrived at a block, directly   *)
(* or through a join, is covered by one that has been processed there: the *)
(* fixed point misses nothing it was given.                                *)
(***************************************************************************)
AllProcessed ==
  pc = "done" => \A b \in Block : \A sh \in arrived[b] : CoveredBy(sh, processed[b])

THEOREM FixedPointIsReached ==
  ASSUME NoSelfJump
  PROVE  Spec => []AllProcessed
<1>1. EngineInv /\ FinishedInv => AllProcessed
  <2> SUFFICES ASSUME EngineInv, FinishedInv, pc = "done",
                      NEW b \in Block, NEW sh \in arrived[b]
               PROVE  CoveredBy(sh, processed[b])
    BY DEF AllProcessed
  <2>1. CoveredBy(sh, processed[b] \cup PendingHeaps(cont[b]))
    BY DEF EngineInv, StateInv, GoodState, Key
  <2> QED
    BY <2>1, NothingPending
<1>2. EngineInv /\ FinishedInv /\ [Next]_vars => FinishedInv'
  BY FinishedStep
<1> QED
  BY <1>1, <1>2, FinishedInit, EngineInvariant, PTL DEF Spec

===============================================================================
