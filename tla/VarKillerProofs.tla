---------------------------- MODULE VarKillerProofs ----------------------------
(***************************************************************************)
(* Proofs about VarKiller, for every function whose aliases are true: on   *)
(* no path is a variable read after it has been destroyed, and the         *)
(* variables of the caller that the function can reach survive it.         *)
(***************************************************************************)
EXTENDS VarKiller, SequenceTheorems, WellFoundedInduction, TLAPS

-------------------------------------------------------------------------------
(* Induction and recursion *)

(* A set of numbers has a least element: the numbers are well-founded. *)
LEMMA LeastNumber ==
  ASSUME NEW T \in SUBSET Nat, T # {}
  PROVE  \E n \in T : \A m \in T : n <= m
<1> DEFINE R == OpToRel(<, Nat)
<1>1. IsWellFoundedOn(R, Nat)
  BY NatLessThanWellFounded, Zenon
<1>2. \A m, n \in Nat : m < n => <<m, n>> \in R
  BY DEF OpToRel
<1> HIDE DEF R
<1>3. PICK n \in T : \A m \in T : ~(<<m, n>> \in R)
  BY <1>1, WFMin
<1>4. n \in Nat /\ \A m \in T : m \in Nat /\ ~(m < n)
  BY <1>2, <1>3
<1> QED
  BY <1>4

LEMMA Induction ==
  ASSUME NEW S, 0 \in S, \A n \in Nat : n \in S => n + 1 \in S
  PROVE  Nat \subseteq S
<1> SUFFICES ASSUME Nat \ S # {} PROVE FALSE
  OBVIOUS
<1>1. PICK n \in Nat \ S : \A m \in Nat \ S : n <= m
  BY LeastNumber
<1>2. n # 0 /\ n - 1 \in Nat
  BY <1>1
<1>3. n - 1 \in S
  BY <1>1, <1>2
<1> QED
  BY <1>1, <1>2, <1>3

(* Values of X, the first one given and each one made from the one before. *)
Iterates(X, a, step, n) ==
  {u \in [0..n -> X] : u[0] = a /\ \A k \in 1..n : u[k] = step[k][u[k - 1]]}

LEMMA IteratesExist ==
  ASSUME NEW X, NEW a \in X, NEW N \in Nat, NEW step \in [1..N -> [X -> X]]
  PROVE  Iterates(X, a, step, N) # {}
<1> DEFINE S == {n \in Nat : n <= N => Iterates(X, a, step, n) # {}}
<1>1. 0 \in S
  <2>1. [k \in 0..0 |-> a] \in Iterates(X, a, step, 0)
    BY DEF Iterates
  <2> QED
    BY <2>1
<1>2. ASSUME NEW n \in Nat, n \in S PROVE n + 1 \in S
  <2> SUFFICES ASSUME n + 1 <= N PROVE Iterates(X, a, step, n + 1) # {}
    OBVIOUS
  <2>1. PICK u \in [0..n -> X] : u[0] = a /\ \A k \in 1..n : u[k] = step[k][u[k - 1]]
    BY <1>2 DEF Iterates
  <2>2. n + 1 \in 1..N /\ n \in 0..n /\ step[n + 1][u[n]] \in X
    BY <2>1
  <2> DEFINE w == [k \in 0..n + 1 |-> IF k = n + 1 THEN step[n + 1][u[n]] ELSE u[k]]
  <2>3. w \in [0..n + 1 -> X] /\ w[0] = a /\ w[n + 1] = step[n + 1][u[n]]
    BY <2>1, <2>2
  <2>4. \A k \in 0..n : w[k] = u[k]
    OBVIOUS
  <2>5. ASSUME NEW k \in 1..n + 1 PROVE w[k] = step[k][w[k - 1]]
    <3>1. k - 1 \in 0..n /\ w[k - 1] = u[k - 1]
      BY <2>4
    <3>2. CASE k = n + 1
      <4>1. k - 1 = n
        BY <3>2
      <4> QED
        BY <2>3, <3>1, <3>2, <4>1
    <3>3. CASE k # n + 1
      <4>1. k \in 1..n /\ k \in 0..n
        BY <3>3
      <4> QED
        BY <2>1, <2>4, <3>1, <4>1
    <3> QED
      BY <3>2, <3>3
  <2> HIDE DEF w
  <2>6. w \in Iterates(X, a, step, n + 1)
    BY <2>3, <2>5 DEF Iterates
  <2> QED
    BY <2>6
<1> HIDE DEF S
<1>3. N \in S
  BY <1>1, <1>2, Induction
<1> QED
  BY <1>3 DEF S

-------------------------------------------------------------------------------
(* The function and its instructions *)

DataRec == [gen : SUBSET Uids, kill : SUBSET Uids]

LEMMA FunctionFacts ==
  ASSUME fnc \in Programs
  PROVE  /\ IsFunction(fnc) /\ AliasesAreTrue(fnc)
         /\ MaxUid \in Nat /\ 1 \in Blocks
BY VarKillerAssumption DEF IsFunction, Blocks

LEMMA BlockFacts ==
  ASSUME fnc \in Programs, NEW b \in Blocks
  PROVE  /\ Body(b) \in Seq(InsnRec) /\ Targets(b) \in Seq(Nat)
         /\ DOMAIN Body(b) = 1..Len(Body(b)) /\ Len(Body(b)) \in Nat
         /\ \A t \in DOMAIN Targets(b) : Targets(b)[t] \in Blocks
<1>1. fnc.cfg \in Seq(BlockRec)
  BY FunctionFacts DEF IsFunction
<1>2. fnc.cfg[b] \in BlockRec
  BY <1>1, ElementOfSeq DEF Blocks
<1>3. Body(b) \in Seq(InsnRec) /\ Targets(b) \in Seq(Nat)
  BY <1>2 DEF BlockRec, Body, Targets
<1>4. \A t \in DOMAIN Targets(b) : Targets(b)[t] \in Blocks
  BY FunctionFacts DEF IsFunction, Targets, Blocks
<1> QED
  BY <1>3, <1>4, LenProperties

LEMMA InsnFacts ==
  ASSUME fnc \in Programs, NEW b \in Blocks, NEW k \in DOMAIN Body(b)
  PROVE  /\ Body(b)[k] \in InsnRec
         /\ Body(b)[k].addr # 0 => Body(b)[k].addr \in Body(b)[k].use
         /\ Body(b)[k].addr # 0 => mayBePointed(Body(b)[k].addr)
         /\ Body(b)[k].addr \notin AliasTargets
<1>1. Body(b)[k] \in InsnRec
  BY BlockFacts, ElementOfSeq
<1>2. Body(b)[k].addr # 0 => Body(b)[k].addr \in Body(b)[k].use
  BY FunctionFacts DEF IsFunction, Body, Blocks
<1>3. \A p \in DOMAIN fnc.alias : Body(b)[k].addr # fnc.alias[p]
  BY FunctionFacts DEF AliasesAreTrue, Body, Blocks
<1>4. mayBePointed(Body(b)[k].addr)
  BY DEF mayBePointed
<1> QED
  BY <1>1, <1>2, <1>3, <1>4 DEF AliasTargets, derefAliases

LEMMA CopyFacts ==
  ASSUME fnc \in Programs, NEW b \in Blocks, NEW k \in DOMAIN Body(b), NEW i, i = Body(b)[k]
  PROVE  /\ i.copy \in DOMAIN derefAliases => i.def \in DOMAIN derefAliases
         /\ i.def \in DOMAIN derefAliases =>
              /\ i.addr = 0
              /\ i.copy # 0 => /\ i.copy \in DOMAIN derefAliases
                               /\ derefAliases[i.copy] = derefAliases[i.def]
BY FunctionFacts DEF AliasesAreTrue, Body, Blocks, derefAliases

LEMMA AliasFacts ==
  ASSUME fnc \in Programs
  PROVE  /\ AliasTargets \subseteq Uids /\ DOMAIN derefAliases \subseteq Uids
         /\ AliasTargets \cap DOMAIN derefAliases = {}
         /\ \A p \in DOMAIN derefAliases : derefAliases[p] \in AliasTargets
         /\ \A p : Aliases(p) \subseteq Uids
         /\ 0 \notin Uids /\ fnc.params \subseteq DOMAIN derefAliases
<1>1. /\ DOMAIN fnc.alias \subseteq Uids /\ fnc.alias \in [DOMAIN fnc.alias -> Uids]
      /\ fnc.params \subseteq DOMAIN fnc.alias
  BY FunctionFacts DEF IsFunction
<1>2. \A p, q \in DOMAIN fnc.alias : fnc.alias[p] # q
  BY FunctionFacts DEF AliasesAreTrue
<1>3. 0 \notin Uids
  BY FunctionFacts DEF Uids
<1>4. \A p \in DOMAIN fnc.alias : fnc.alias[p] \in Uids
  BY <1>1
<1> QED
  BY <1>1, <1>2, <1>3, <1>4 DEF AliasTargets, derefAliases, Aliases

LEMMA InsnVarFacts ==
  ASSUME fnc \in Programs, NEW i \in InsnRec
  PROVE  /\ SrcVars(i) \subseteq Uids /\ DstVars(i) \subseteq Uids
<1>1. i.use \subseteq Uids /\ i.def \in Operand /\ i.load \in Operand /\ i.store \in Operand
  BY DEF InsnRec
<1>2. Aliases(i.load) \subseteq Uids /\ Aliases(i.store) \subseteq Uids
  BY AliasFacts
<1> QED
  BY <1>1, <1>2 DEF SrcVars, DstVars, Operand

LEMMA ScanInsnFacts ==
  ASSUME fnc \in Programs, NEW i \in InsnRec, NEW d \in DataRec
  PROVE  /\ scanInsn(d, i) \in DataRec
         /\ scanInsn(d, i).gen = d.gen \cup (SrcVars(i) \ d.kill)
         /\ scanInsn(d, i).kill = d.kill \cup DstVars(i)
<1>1. SrcVars(i) \subseteq Uids /\ DstVars(i) \subseteq Uids
  BY InsnVarFacts
<1> QED
  BY <1>1 DEF scanInsn, scanVars, DataRec

LEMMA TouchedFacts ==
  ASSUME fnc \in Programs, NEW b \in Blocks, NEW k \in DOMAIN Body(b)
  PROVE  /\ Arena(b, k).gen = SrcVars(Body(b)[k])
         /\ Touched(b, k) = SrcVars(Body(b)[k]) \cup DstVars(Body(b)[k])
         /\ Touched(b, k) \subseteq Uids
<1>1. BlockData \in DataRec /\ BlockData.gen = {} /\ BlockData.kill = {}
  BY DEF BlockData, DataRec
<1>2. Body(b)[k] \in InsnRec
  BY InsnFacts
<1> DEFINE d == BlockData
           i == Body(b)[k]
<1>3. Arena(b, k) = scanInsn(d, i)
  BY DEF Arena
<1> HIDE DEF d, i
<1>4. d \in DataRec /\ i \in InsnRec /\ d.gen = {} /\ d.kill = {}
  BY <1>1, <1>2 DEF d, i
<1>5. /\ scanInsn(d, i).gen = d.gen \cup (SrcVars(i) \ d.kill)
      /\ scanInsn(d, i).kill = d.kill \cup DstVars(i)
  BY <1>4, ScanInsnFacts
<1>6. /\ Arena(b, k).gen = SrcVars(Body(b)[k])
      /\ Arena(b, k).kill = DstVars(Body(b)[k])
  BY <1>3, <1>4, <1>5 DEF i
<1> QED
  BY <1>2, <1>6, InsnVarFacts DEF Touched

LEMMA LiveBeforeFacts ==
  ASSUME fnc \in Programs, NEW b \in Blocks, NEW k \in DOMAIN Body(b), NEW live
  PROVE  LiveBefore(live, b, k) = (live \ DstVars(Body(b)[k])) \cup SrcVars(Body(b)[k])
BY TouchedFacts DEF LiveBefore

(* The scan of a block, instruction by instruction. *)
LEMMA ScannedFacts ==
  ASSUME fnc \in Programs, NEW b \in Blocks
  PROVE  /\ Scanned(b) \in [0..Len(Body(b)) -> DataRec]
         /\ Scanned(b)[0] = BlockData
         /\ \A k \in 1..Len(Body(b)) : Scanned(b)[k] = scanInsn(Scanned(b)[k - 1], Body(b)[k])
<1> DEFINE n == Len(Body(b))
           step == [k \in 1..n |-> [d \in DataRec |-> scanInsn(d, Body(b)[k])]]
           Scan(f) == [k \in 0..n |-> IF k = 0 THEN BlockData ELSE scanInsn(f[k - 1], Body(b)[k])]
<1>1. n \in Nat /\ \A k \in 1..n : Body(b)[k] \in InsnRec
  BY BlockFacts, InsnFacts
<1>2. BlockData \in DataRec
  BY DEF BlockData, DataRec
<1>3. step \in [1..n -> [DataRec -> DataRec]]
  BY <1>1, ScanInsnFacts
<1>4. \A k \in 1..n, d \in DataRec : step[k][d] = scanInsn(d, Body(b)[k])
  OBVIOUS
<1> HIDE DEF step, n
<1>5. PICK u \in [0..n -> DataRec] : u[0] = BlockData /\ \A k \in 1..n : u[k] = step[k][u[k - 1]]
  BY <1>1, <1>2, <1>3, IteratesExist DEF Iterates
<1>6. \A k \in 1..n : k - 1 \in 0..n /\ u[k] = scanInsn(u[k - 1], Body(b)[k])
  BY <1>1, <1>4, <1>5
<1>7. u = Scan(u)
  BY <1>1, <1>5, <1>6
<1>8. Scanned(b) = CHOOSE f : f = Scan(f)
  BY DEF Scanned, n
<1>9. Scanned(b) = Scan(Scanned(b))
  BY <1>7, <1>8, Zenon
<1>10. /\ Scanned(b)[0] = BlockData /\ DOMAIN Scanned(b) = 0..n
       /\ \A k \in 1..n : Scanned(b)[k] = scanInsn(Scanned(b)[k - 1], Body(b)[k])
  BY <1>1, <1>9
<1> DEFINE S == {k \in Nat : k <= n => Scanned(b)[k] \in DataRec}
<1>11. 0 \in S
  BY <1>2, <1>10
<1>12. ASSUME NEW k \in Nat, k \in S PROVE k + 1 \in S
  <2> SUFFICES ASSUME k + 1 <= n PROVE Scanned(b)[k + 1] \in DataRec
    OBVIOUS
  <2>1. k + 1 \in 1..n /\ (k + 1) - 1 = k /\ Scanned(b)[k] \in DataRec
    BY <1>1, <1>12
  <2> QED
    BY <1>1, <1>10, <2>1, ScanInsnFacts
<1> HIDE DEF S
<1>13. Nat \subseteq S
  BY <1>11, <1>12, Induction
<1>14. \A k \in 0..n : Scanned(b)[k] \in DataRec
  BY <1>1, <1>13 DEF S
<1>15. Scanned(b) = [k \in 0..n |-> Scanned(b)[k]]
  BY <1>9
<1>16. Scanned(b) \in [0..n -> DataRec]
  BY <1>14, <1>15
<1> QED
  BY <1>10, <1>16 DEF n

(* Nothing that was generated is taken back. *)
LEMMA ScannedGrows ==
  ASSUME fnc \in Programs, NEW b \in Blocks, NEW k \in 0..Len(Body(b))
  PROVE  Scanned(b)[k].gen \subseteq Scanned(b)[Len(Body(b))].gen
<1> DEFINE n == Len(Body(b))
           S == {j \in Nat : j <= n /\ k <= j => Scanned(b)[k].gen \subseteq Scanned(b)[j].gen}
<1>1. n \in Nat /\ k \in Nat /\ k <= n
  BY BlockFacts
<1>2. 0 \in S
  BY <1>1
<1>3. ASSUME NEW j \in Nat, j \in S PROVE j + 1 \in S
  <2> SUFFICES ASSUME j + 1 <= n, k <= j + 1
               PROVE  Scanned(b)[k].gen \subseteq Scanned(b)[j + 1].gen
    OBVIOUS
  <2>1. CASE k = j + 1
    BY <2>1
  <2>2. CASE k # j + 1
    <3>1. k <= j /\ j \in 0..n /\ j + 1 \in 1..n /\ (j + 1) - 1 = j
      BY <1>1, <2>2
    <3>2. Scanned(b)[k].gen \subseteq Scanned(b)[j].gen
      BY <1>1, <1>3, <3>1
    <3>3. Scanned(b)[j] \in DataRec /\ Scanned(b)[j + 1] = scanInsn(Scanned(b)[j], Body(b)[j + 1])
      BY <3>1, ScannedFacts
    <3>4. Body(b)[j + 1] \in InsnRec
      BY <3>1, BlockFacts, InsnFacts
    <3> QED
      BY <3>2, <3>3, <3>4, ScanInsnFacts
  <2> QED
    BY <2>1, <2>2
<1> HIDE DEF S
<1>4. n \in S
  BY <1>1, <1>2, <1>3, Induction
<1> QED
  BY <1>1, <1>4 DEF S

(* The walk back through a block, instruction by instruction. *)
LEMMA LiveFacts ==
  ASSUME fnc \in Programs, NEW b \in Blocks, LiveBehind(b) \subseteq Uids
  PROVE  /\ Live(b, Len(Body(b))) = LiveBehind(b)
         /\ \A k \in 0..Len(Body(b)) : Live(b, k) \subseteq Uids
         /\ \A k \in 1..Len(Body(b)) :
              Live(b, k - 1) = (Live(b, k) \ DstVars(Body(b)[k])) \cup SrcVars(Body(b)[k])
<1> DEFINE n == Len(Body(b))
           X == SUBSET Uids
           step == [j \in 1..n |-> [live \in X |-> LiveBefore(live, b, n + 1 - j)]]
           Back(f) == [j \in 0..n |-> IF j = 0 THEN LiveBehind(b)
                                      ELSE LiveBefore(f[j - 1], b, n + 1 - j)]
<1>1. n \in Nat /\ \A k \in 1..n : k \in DOMAIN Body(b) /\ Body(b)[k] \in InsnRec
  BY BlockFacts, InsnFacts
<1>2. ASSUME NEW j \in 1..n, NEW live \in X PROVE LiveBefore(live, b, n + 1 - j) \in X
  <2>1. n + 1 - j \in 1..n
    BY <1>1
  <2> DEFINE k == n + 1 - j
  <2>2. k \in DOMAIN Body(b) /\ Body(b)[k] \in InsnRec
    BY <1>1, <2>1
  <2> HIDE DEF k
  <2>3. LiveBefore(live, b, k) = (live \ DstVars(Body(b)[k])) \cup SrcVars(Body(b)[k])
    BY <2>2, LiveBeforeFacts
  <2> QED
    BY <2>2, <2>3, InsnVarFacts DEF k
<1>3. step \in [1..n -> [X -> X]]
  BY <1>2
<1>4. \A j \in 1..n, live \in X : step[j][live] = LiveBefore(live, b, n + 1 - j)
  OBVIOUS
<1> HIDE DEF step, n, X
<1>5. LiveBehind(b) \in X
  BY DEF X
<1> DEFINE a == LiveBehind(b)
<1> HIDE DEF a
<1>6. a \in X
  BY <1>5 DEF a
<1>7. n \in Nat
  BY <1>1
<1>8. Iterates(X, a, step, n) # {}
  BY <1>3, <1>6, <1>7, IteratesExist
<1>9. PICK u \in [0..n -> X] : u[0] = LiveBehind(b) /\ \A j \in 1..n : u[j] = step[j][u[j - 1]]
  BY <1>8 DEF Iterates, a
<1>10. \A j \in 1..n : j - 1 \in 0..n /\ u[j] = LiveBefore(u[j - 1], b, n + 1 - j)
  BY <1>1, <1>4, <1>9
<1>11. u = Back(u)
  BY <1>1, <1>9, <1>10
<1>12. LiveBack(b) = CHOOSE f : f = Back(f)
  BY DEF LiveBack, n
<1>13. LiveBack(b) = Back(LiveBack(b))
  BY <1>11, <1>12, Zenon
<1> DEFINE f == LiveBack(b)
<1> HIDE DEF f
<1>14. f = Back(f)
  BY <1>13 DEF f
<1>15. /\ f[0] = LiveBehind(b)
       /\ \A j \in 1..n : f[j] = LiveBefore(f[j - 1], b, n + 1 - j)
  BY <1>1, <1>14
<1> DEFINE S == {j \in Nat : j <= n => f[j] \in X}
<1>16. 0 \in S
  BY <1>5, <1>15
<1>17. ASSUME NEW j \in Nat, j \in S PROVE j + 1 \in S
  <2> SUFFICES ASSUME j + 1 <= n PROVE f[j + 1] \in X
    OBVIOUS
  <2>1. j + 1 \in 1..n /\ (j + 1) - 1 = j /\ f[j] \in X
    BY <1>1, <1>17
  <2> QED
    BY <1>2, <1>15, <2>1
<1> HIDE DEF S
<1>18. Nat \subseteq S
  BY <1>16, <1>17, Induction
<1>19. \A j \in 0..n : f[j] \in X
  BY <1>1, <1>18 DEF S
<1>20. \A k : Live(b, k) = f[n - k]
  BY DEF Live, f, n
<1>21. Live(b, n) = LiveBehind(b)
  <2>1. n - n = 0
    BY <1>1
  <2> QED
    BY <1>15, <1>20, <2>1
<1>22. ASSUME NEW k \in 0..n PROVE Live(b, k) \subseteq Uids
  <2>1. n - k \in 0..n
    BY <1>1
  <2> QED
    BY <1>19, <1>20, <2>1 DEF X
<1>23. ASSUME NEW k \in 1..n
       PROVE  Live(b, k - 1) = (Live(b, k) \ DstVars(Body(b)[k])) \cup SrcVars(Body(b)[k])
  <2>1. n - (k - 1) \in 1..n /\ (n - (k - 1)) - 1 = n - k /\ n + 1 - (n - (k - 1)) = k
    BY <1>1
  <2>2. Live(b, k - 1) = LiveBefore(Live(b, k), b, k)
    BY <1>15, <1>20, <2>1
  <2> QED
    BY <1>1, <2>2, LiveBeforeFacts
<1> QED
  BY <1>21, <1>22, <1>23 DEF n

-------------------------------------------------------------------------------
(* The destruction of variables *)

Heap == [dead : SUBSET Uids, pts : [Uids -> Operand]]

(***************************************************************************)
(* Nothing points to a destroyed variable, except for the pointers with an *)
(* alias; these point to their aliases or nowhere, and nothing else points *)
(* there.                                                                  *)
(***************************************************************************)
PointersOK(s) ==
  /\ \A p \in Uids : s.pts[p] # 0 /\ s.pts[p] \notin AliasTargets =>
       s.pts[p] \notin s.dead /\ mayBePointed(s.pts[p])
  /\ \A p \in Uids : s.pts[p] \in AliasTargets => p \in DOMAIN derefAliases
  /\ \A p \in DOMAIN derefAliases :
       s.pts[p] = derefAliases[p] \/ s.pts[p] = 0

LEMMA KillVarKeeps ==
  ASSUME fnc \in Programs, NEW s \in Heap, PointersOK(s), NEW v \in Uids, NEW kv,
         kv = [uid |-> v, onlyIfNotPointed |-> isPointedUid(v)]
  PROVE  /\ killVar(s, kv) \in Heap /\ PointersOK(killVar(s, kv))
         /\ killVar(s, kv).dead \subseteq s.dead \cup {v}
<1> DEFINE dd == s.dead \cup {v}
           pp == [s.pts EXCEPT ![v] = 0]
           r == [dead |-> dd, pts |-> pp]
           pointed == \E p \in Uids : s.pts[p] = v
<1>1. kv.uid = v /\ kv.onlyIfNotPointed = isPointedUid(v)
  OBVIOUS
<1>2. CASE pointed /\ isPointedUid(v)
  <2>1. killVar(s, kv) = s
    BY <1>1, <1>2 DEF killVar
  <2> QED
    BY <2>1
<1>3. CASE ~(pointed /\ isPointedUid(v))
  <2>1. killVar(s, kv) = r
    BY <1>1, <1>3 DEF killVar
  <2>2. s.dead \subseteq Uids /\ s.pts \in [Uids -> Operand] /\ 0 \in Operand
    BY DEF Heap, Operand
  <2>3. r.dead = dd /\ r.pts = pp
    OBVIOUS
  <2>4. r \in Heap
    BY <2>2 DEF Heap
  <2>5. \A p \in Uids : pp[p] = IF p = v THEN 0 ELSE s.pts[p]
    BY <2>2
  <2> HIDE DEF pp, r, dd
  <2>6. 0 \notin AliasTargets /\ DOMAIN derefAliases \subseteq Uids
    BY AliasFacts
  <2>7. ASSUME NEW p \in Uids, pp[p] # 0, pp[p] \notin AliasTargets
        PROVE  pp[p] \notin dd /\ mayBePointed(pp[p])
    <3>1. pp[p] = s.pts[p]
      BY <2>5, <2>7
    <3>2. s.pts[p] \notin s.dead /\ mayBePointed(s.pts[p])
      BY <2>7, <3>1 DEF PointersOK
    <3>3. s.pts[p] # v
      BY <1>3, <2>7, <3>1, <3>2 DEF isPointedUid
    <3> QED
      BY <3>1, <3>2, <3>3 DEF dd
  <2>8. ASSUME NEW p \in Uids, pp[p] \in AliasTargets PROVE p \in DOMAIN derefAliases
    BY <2>5, <2>6, <2>8 DEF PointersOK
  <2>9. ASSUME NEW p \in DOMAIN derefAliases
        PROVE  pp[p] = derefAliases[p] \/ pp[p] = 0
    <3>1. s.pts[p] = derefAliases[p] \/ s.pts[p] = 0
      BY DEF PointersOK
    <3>2. p \in Uids
      BY <2>6
    <3> QED
      BY <2>5, <3>1, <3>2
  <2>10. PointersOK(r)
    BY <2>3, <2>7, <2>8, <2>9 DEF PointersOK
  <2> QED
    BY <2>1, <2>3, <2>4, <2>10 DEF dd
<1> QED
  BY <1>2, <1>3

(***************************************************************************)
(* Killing a set of variables destroys no others, and nothing that a       *)
(* pointer without an alias points to.                                     *)
(***************************************************************************)
LEMMA KillAllKeeps ==
  ASSUME fnc \in Programs, NEW s \in Heap, PointersOK(s), NEW T \in SUBSET Uids
  PROVE  /\ killAll(s, KillVars(T)) \in Heap /\ PointersOK(killAll(s, KillVars(T)))
         /\ killAll(s, KillVars(T)).dead \subseteq s.dead \cup T
<1> DEFINE X == {r \in Heap : PointersOK(r) /\ r.dead \subseteq s.dead \cup T}
           K == KillVars(T)
           Kill(r, v) == IF \E kv \in K : kv.uid = v
                         THEN killVar(r, CHOOSE kv \in K : kv.uid = v) ELSE r
           step == [v \in 1..MaxUid |-> [r \in X |-> Kill(r, v)]]
           Done(f) == [v \in 0..MaxUid |-> IF v = 0 THEN s ELSE Kill(f[v - 1], v)]
<1>1. MaxUid \in Nat /\ Uids = 1..MaxUid
  BY FunctionFacts DEF Uids
<1>2. ASSUME NEW r \in X, NEW v \in 1..MaxUid PROVE Kill(r, v) \in X
  <2>1. CASE \E kv \in K : kv.uid = v
    <3> DEFINE kv == CHOOSE kv \in K : kv.uid = v
    <3>1. kv \in K /\ kv.uid = v
      BY <2>1
    <3> HIDE DEF kv
    <3>2. PICK w \in T : kv = [uid |-> w, onlyIfNotPointed |-> isPointedUid(w)]
      BY <3>1 DEF KillVars
    <3>3. w = v
      BY <3>1, <3>2
    <3>4. r \in Heap /\ PointersOK(r) /\ r.dead \subseteq s.dead \cup T /\ w \in Uids
      OBVIOUS
    <3>5. /\ killVar(r, kv) \in Heap /\ PointersOK(killVar(r, kv))
          /\ killVar(r, kv).dead \subseteq r.dead \cup {w}
      BY <3>2, <3>4, KillVarKeeps
    <3>6. killVar(r, kv) \in X
      BY <3>4, <3>5
    <3> QED
      BY <2>1, <3>6 DEF kv
  <2>2. CASE ~\E kv \in K : kv.uid = v
    BY <2>2
  <2> QED
    BY <2>1, <2>2
<1>3. s \in X
  OBVIOUS
<1> HIDE DEF X
<1>4. step \in [1..MaxUid -> [X -> X]] /\ \A v \in 1..MaxUid, r \in X : step[v][r] = Kill(r, v)
  BY <1>2
<1>5. Killed(s, K) = CHOOSE f : f = Done(f)
  BY DEF Killed
<1> HIDE DEF step, K, Kill
<1>6. Iterates(X, s, step, MaxUid) # {}
  BY <1>1, <1>3, <1>4, IteratesExist
<1>7. PICK u \in [0..MaxUid -> X] : u[0] = s /\ \A v \in 1..MaxUid : u[v] = step[v][u[v - 1]]
  BY <1>6 DEF Iterates
<1>8. u = Done(u)
  <2>1. ASSUME NEW v \in 1..MaxUid PROVE u[v] = Kill(u[v - 1], v)
    <3>1. v - 1 \in 0..MaxUid
      BY <1>1
    <3>2. u[v - 1] \in X
      BY <1>7, <3>1
    <3> QED
      BY <1>4, <1>7, <3>2
  <2> QED
    BY <1>1, <1>7, <2>1
<1>9. Killed(s, K) = Done(Killed(s, K))
  BY <1>5, <1>8, Zenon
<1> DEFINE f == Killed(s, K)
<1> HIDE DEF f
<1>10. f[0] = s /\ \A v \in 1..MaxUid : f[v] = Kill(f[v - 1], v)
  <2>1. f = Done(f)
    BY <1>9 DEF f
  <2>2. 0 \in 0..MaxUid /\ \A v \in 1..MaxUid : v \in 0..MaxUid /\ v # 0
    BY <1>1
  <2>3. \A v \in 0..MaxUid : f[v] = IF v = 0 THEN s ELSE Kill(f[v - 1], v)
    BY <2>1, Zenon
  <2> QED
    BY <2>2, <2>3, Zenon
<1> DEFINE S == {v \in Nat : v <= MaxUid => f[v] \in X}
<1>11. 0 \in S
  BY <1>3, <1>10
<1>12. ASSUME NEW v \in Nat, v \in S PROVE v + 1 \in S
  <2> SUFFICES ASSUME v + 1 <= MaxUid PROVE f[v + 1] \in X
    OBVIOUS
  <2>1. v + 1 \in 1..MaxUid /\ (v + 1) - 1 = v /\ f[v] \in X
    BY <1>1, <1>12
  <2> QED
    BY <1>2, <1>10, <2>1
<1> HIDE DEF S
<1>13. Nat \subseteq S
  BY <1>11, <1>12, Induction
<1>14. f[MaxUid] \in X
  BY <1>1, <1>13 DEF S
<1> QED
  BY <1>14 DEF X, f, K, killAll

-------------------------------------------------------------------------------
(* The inductive invariant *)

(***************************************************************************)
(* The data of a block have grown from its scan, and a block that is not   *)
(* scheduled has taken over what its successors generate.                  *)
(***************************************************************************)
AnalysisInv ==
  /\ fnc \in Programs /\ todo \subseteq Blocks
  /\ blocks \in [Blocks -> DataRec]
  /\ \A b \in Blocks : /\ ScanBlock(b).gen \subseteq blocks[b].gen
                       /\ blocks[b].kill = Scanned(b)[Len(Body(b))].kill
  /\ \A b \in Blocks \ todo : GenBehind(b) \ blocks[b].kill \subseteq blocks[b].gen

(* The instructions are marked from the fixed point, before any is executed. *)
MarksInv ==
  \/ kills = <<>> /\ dead = {}
  \/ todo = {} /\ kills = [b \in Blocks |-> commitBlock(b)]

(* What is alive in front of the next instruction has not been destroyed. *)
ExecInv ==
  /\ at \in Blocks /\ pc \in 1..Len(Body(at)) + 1
  /\ [dead |-> dead, pts |-> pts] \in Heap
  /\ PointersOK([dead |-> dead, pts |-> pts])
  /\ dead \cap Live(at, pc - 1) = {}
  /\ ~bad

KillerInv == AnalysisInv /\ MarksInv /\ ExecInv

(* Most of the definitions depend on the function only, which never changes. *)
LEMMA SameFunction ==
  ASSUME fnc' = fnc
  PROVE  /\ Blocks' = Blocks /\ AliasTargets' = AliasTargets /\ derefAliases' = derefAliases
         /\ \A b : Body(b)' = Body(b) /\ Targets(b)' = Targets(b)
         /\ \A v : mayBePointed(v)' = mayBePointed(v)
         /\ \A s : PointersOK(s)' = PointersOK(s)
BY DEF Blocks, AliasTargets, derefAliases, Body, Targets, mayBePointed, PointersOK

LEMMA SameScan ==
  ASSUME fnc' = fnc, NEW b
  PROVE  Scanned(b)' = Scanned(b) /\ ScanBlock(b)' = ScanBlock(b)
BY DEF ScanBlock, Scanned, scanInsn, scanVars, presetLive, SrcVars, DstVars, Aliases,
       derefAliases, AliasTargets, Body, Targets

LEMMA SameLive ==
  ASSUME fnc' = fnc, blocks' = blocks, NEW b, NEW k
  PROVE  Live(b, k)' = Live(b, k)
BY DEF Live, LiveBack, LiveBefore, LiveBehind, GenBehind, Touched, Arena, scanInsn, scanVars, SrcVars,
       DstVars, Aliases, derefAliases, AliasTargets, Body, Targets

LEMMA SameMarks ==
  ASSUME fnc' = fnc, blocks' = blocks, NEW b
  PROVE  commitBlock(b)' = commitBlock(b)
<1>1. \A k : Live(b, k)' = Live(b, k)
  BY SameLive
<1>2. \A k : Touched(b, k)' = Touched(b, k)
  BY DEF Touched, Arena, scanInsn, scanVars, SrcVars, DstVars, Aliases, derefAliases, Body
<1>3. Body(b)' = Body(b) /\ Targets(b)' = Targets(b)
  BY SameFunction
<1>4. \A S : KillVars(S)' = KillVars(S)
  BY SameFunction DEF KillVars, isPointedUid
<1>5. \A k : Dying(b, k)' = Dying(b, k)
  BY <1>1, <1>2 DEF Dying
<1>6. \A t, k : LivePerTarget(b, t, k)' = LivePerTarget(b, t, k)
  BY <1>2, <1>3 DEF LivePerTarget
<1>7. \A t, k : DyingAt(b, t, k)' = DyingAt(b, t, k)
  BY <1>2, <1>3, <1>5, <1>6 DEF DyingAt
<1> QED
  BY <1>1, <1>3, <1>4, <1>5, <1>6, <1>7 DEF commitBlock

LEMMA SameAnalysis ==
  ASSUME AnalysisInv, fnc' = fnc, todo' = todo, blocks' = blocks
  PROVE  AnalysisInv'
<1>1. Blocks' = Blocks /\ \A b : Body(b)' = Body(b) /\ Targets(b)' = Targets(b)
  BY SameFunction
<1>2. \A b : Scanned(b)' = Scanned(b) /\ ScanBlock(b)' = ScanBlock(b)
  BY SameScan
<1>3. \A b : GenBehind(b)' = GenBehind(b)
  BY <1>1 DEF GenBehind
<1> QED
  BY <1>1, <1>2, <1>3 DEF AnalysisInv, DataRec, Uids

-------------------------------------------------------------------------------
(* The fixed point *)

LEMMA LiveBehindFacts ==
  ASSUME AnalysisInv, NEW b \in Blocks
  PROVE  /\ LiveBehind(b) \subseteq Uids
         /\ \A t \in DOMAIN Targets(b) : blocks[Targets(b)[t]].gen \subseteq LiveBehind(b)
         /\ Targets(b) # <<>> => LiveBehind(b) = GenBehind(b)
<1>1. fnc \in Programs /\ \A c \in Blocks : blocks[c].gen \subseteq Uids
  BY DEF AnalysisInv, DataRec
<1>2. \A t \in DOMAIN Targets(b) : Targets(b)[t] \in Blocks
  BY <1>1, BlockFacts
<1>3. GenBehind(b) \subseteq Uids
  BY <1>1, <1>2 DEF GenBehind
<1>4. AliasTargets \subseteq Uids
  BY <1>1, AliasFacts
<1>5. Targets(b) = <<>> => DOMAIN Targets(b) = {}
  OBVIOUS
<1> QED
  BY <1>3, <1>4, <1>5 DEF LiveBehind, GenBehind

(***************************************************************************)
(* Once no block is scheduled, what is alive at the begin of a block,      *)
(* found by the walk back through it, is what the block generates, found   *)
(* by the walk forward.                                                    *)
(***************************************************************************)
LEMMA FixedPointIsLive ==
  ASSUME AnalysisInv, todo = {}, NEW b \in Blocks
  PROVE  Live(b, 0) \subseteq blocks[b].gen
<1> DEFINE n == Len(Body(b))
           sc == Scanned(b)
<1>1. fnc \in Programs /\ n \in Nat
  BY BlockFacts DEF AnalysisInv
<1>2. /\ Live(b, n) = LiveBehind(b)
      /\ \A k \in 1..n : Live(b, k - 1) = (Live(b, k) \ DstVars(Body(b)[k])) \cup SrcVars(Body(b)[k])
  BY <1>1, LiveBehindFacts, LiveFacts
<1>3. /\ sc \in [0..n -> DataRec] /\ sc[0] = BlockData
      /\ \A k \in 1..n : sc[k] = scanInsn(sc[k - 1], Body(b)[k])
  BY <1>1, ScannedFacts
<1>4. \A k \in 0..n : sc[k].gen \subseteq sc[n].gen
  BY <1>1, ScannedGrows
<1>5. /\ ScanBlock(b).gen \subseteq blocks[b].gen /\ blocks[b].kill = sc[n].kill
      /\ GenBehind(b) \ blocks[b].kill \subseteq blocks[b].gen
  BY DEF AnalysisInv
<1>6. ScanBlock(b) = presetLive(sc[n], b)
  BY DEF ScanBlock
<1> HIDE DEF sc, n
<1>7. sc[n] \in DataRec
  BY <1>1, <1>3
<1>8. sc[n].gen \subseteq blocks[b].gen
  BY <1>5, <1>6, <1>7 DEF presetLive, DataRec
<1>9. LiveBehind(b) \ sc[n].kill \subseteq blocks[b].gen
  <2>1. CASE Targets(b) = <<>>
    <3>1. ScanBlock(b).gen = sc[n].gen \cup (AliasTargets \ sc[n].kill)
      BY <1>6, <1>7, <2>1 DEF presetLive, DataRec
    <3> QED
      BY <1>5, <2>1, <3>1 DEF LiveBehind
  <2>2. CASE Targets(b) # <<>>
    BY <1>5, <2>2, LiveBehindFacts
  <2> QED
    BY <2>1, <2>2
<1> DEFINE S == {j \in Nat : j <= n => Live(b, n - j) \ sc[n - j].kill \subseteq blocks[b].gen}
<1>10. 0 \in S
  <2>1. n - 0 = n
    BY <1>1
  <2> QED
    BY <1>2, <1>9, <2>1
<1>11. ASSUME NEW j \in Nat, j \in S PROVE j + 1 \in S
  <2> SUFFICES ASSUME j + 1 <= n
               PROVE  Live(b, n - (j + 1)) \ sc[n - (j + 1)].kill \subseteq blocks[b].gen
    OBVIOUS
  <2> DEFINE k == n - j
  <2>1. k \in 1..n /\ k - 1 \in 0..n /\ k \in 0..n /\ n - (j + 1) = k - 1
    BY <1>1
  <2>2. Live(b, k) \ sc[k].kill \subseteq blocks[b].gen
    BY <1>1, <1>11
  <2> HIDE DEF k
  <2>3. Live(b, k - 1) = (Live(b, k) \ DstVars(Body(b)[k])) \cup SrcVars(Body(b)[k])
    BY <1>2, <2>1
  <2>4. sc[k] = scanInsn(sc[k - 1], Body(b)[k]) /\ sc[k - 1] \in DataRec
    BY <1>3, <2>1
  <2>5. Body(b)[k] \in InsnRec
    BY <1>1, <2>1, BlockFacts, InsnFacts DEF n
  <2>6. /\ sc[k].gen = sc[k - 1].gen \cup (SrcVars(Body(b)[k]) \ sc[k - 1].kill)
        /\ sc[k].kill = sc[k - 1].kill \cup DstVars(Body(b)[k])
    BY <1>1, <2>4, <2>5, ScanInsnFacts
  <2>7. sc[k].gen \subseteq blocks[b].gen
    BY <1>4, <1>8, <2>1
  <2> QED
    BY <2>1, <2>2, <2>3, <2>6, <2>7
<1> HIDE DEF S
<1>12. n \in S
  BY <1>1, <1>10, <1>11, Induction
<1>13. Live(b, 0) \ sc[0].kill \subseteq blocks[b].gen
  <2>1. n - n = 0 /\ n <= n
    BY <1>1
  <2> QED
    BY <1>12, <2>1 DEF S
<1> QED
  BY <1>3, <1>13 DEF BlockData

-------------------------------------------------------------------------------
(* What is marked *)

(* An instruction kills nothing that is alive behind it. *)
LEMMA InsnMarks ==
  ASSUME AnalysisInv, NEW b \in Blocks, NEW k \in DOMAIN Body(b)
  PROVE  /\ commitBlock(b).vars[k] = KillVars(Dying(b, k))
         /\ Dying(b, k) \subseteq Uids
         /\ Dying(b, k) \cap Live(b, k) = {}
<1>1. fnc \in Programs
  BY DEF AnalysisInv
<1> QED
  BY <1>1, TouchedFacts DEF commitBlock, Dying

(* A branch kills nothing that its target generates. *)
LEMMA TargetMarks ==
  ASSUME AnalysisInv, NEW b \in Blocks, NEW t \in DOMAIN Targets(b)
  PROVE  \E T \in SUBSET Uids :
           /\ commitBlock(b).target[t] = KillVars(T)
           /\ T \cap blocks[Targets(b)[t]].gen = {}
<1> DEFINE F == IF Len(Targets(b)) < 2 THEN {} ELSE Fugitives(Live(b, 0), LivePerTarget(b, t, 0))
           T == (UNION {DyingAt(b, t, k) : k \in DOMAIN Body(b)}) \cup F
<1>1. fnc \in Programs /\ LiveBehind(b) \subseteq Uids
  BY LiveBehindFacts DEF AnalysisInv
<1>2. commitBlock(b).target[t] = KillVars(T)
  BY DEF commitBlock
<1>3. ASSUME NEW k \in DOMAIN Body(b)
      PROVE  DyingAt(b, t, k) \subseteq Uids /\ DyingAt(b, t, k) \cap blocks[Targets(b)[t]].gen = {}
  BY <1>1, TouchedFacts DEF DyingAt, LivePerTarget
<1>4. Live(b, 0) \subseteq Uids
  <2>1. 0 \in 0..Len(Body(b))
    BY <1>1, BlockFacts
  <2> QED
    BY <1>1, <2>1, LiveFacts
<1>5. F \subseteq Uids /\ F \cap blocks[Targets(b)[t]].gen = {}
  BY <1>4 DEF Fugitives, LivePerTarget
<1> HIDE DEF F
<1>6. T \in SUBSET Uids /\ T \cap blocks[Targets(b)[t]].gen = {}
  BY <1>3, <1>5
<1> QED
  BY <1>2, <1>6

-------------------------------------------------------------------------------
(* The steps *)

LEMMA KillerInvInit == Init => KillerInv
<1> SUFFICES ASSUME Init PROVE KillerInv
  OBVIOUS
<1>1. fnc \in Programs /\ todo = Blocks /\ kills = <<>> /\ at = 1 /\ pc = 1 /\ dead = {}
  BY DEF Init
<1>2. ASSUME NEW b \in Blocks
      PROVE  /\ ScanBlock(b) \in DataRec
             /\ ScanBlock(b).kill = Scanned(b)[Len(Body(b))].kill
  <2> DEFINE d == Scanned(b)[Len(Body(b))]
  <2>1. Len(Body(b)) \in 0..Len(Body(b))
    BY <1>1, BlockFacts
  <2>2. d \in DataRec
    BY <1>1, <2>1, ScannedFacts
  <2>3. ScanBlock(b) = presetLive(d, b)
    BY DEF ScanBlock
  <2>4. AliasTargets \subseteq Uids
    BY <1>1, AliasFacts
  <2> HIDE DEF d
  <2>5. presetLive(d, b) \in DataRec /\ presetLive(d, b).kill = d.kill
    BY <2>2, <2>4 DEF presetLive, DataRec
  <2> QED
    BY <2>3, <2>5 DEF d
<1>3. blocks = [b \in Blocks |-> ScanBlock(b)]
  BY DEF Init
<1>4. AnalysisInv
  BY <1>1, <1>2, <1>3 DEF AnalysisInv
<1>5. at \in Blocks /\ pc \in 1..Len(Body(at)) + 1
  BY <1>1, FunctionFacts, BlockFacts
<1> DEFINE s == [dead |-> dead, pts |-> pts]
<1>6. /\ DOMAIN derefAliases \subseteq Uids /\ AliasTargets \subseteq Uids /\ 0 \notin Uids
      /\ fnc.params \subseteq DOMAIN derefAliases
      /\ \A p \in DOMAIN derefAliases : derefAliases[p] \in AliasTargets
  BY <1>1, AliasFacts
<1>7. pts = [v \in Uids |-> IF v \in fnc.params THEN derefAliases[v] ELSE 0]
  BY DEF Init
<1>8. s.dead = {} /\ s.pts = pts
  BY <1>1
<1>9. s \in Heap
  BY <1>1, <1>6, <1>7 DEF Heap, Operand
<1> HIDE DEF s
<1>10. PointersOK(s)
  BY <1>6, <1>7, <1>8 DEF PointersOK
<1>11. ExecInv
  BY <1>1, <1>5, <1>9, <1>10 DEF ExecInv, s, Init
<1> QED
  BY <1>1, <1>4, <1>11 DEF KillerInv, MarksInv

(* Parts of the invariant that a step does not touch. *)
LEMMA SameExec ==
  ASSUME ExecInv, fnc' = fnc, at' = at, pc' = pc, dead' = dead, pts' = pts, bad' = bad,
         dead = {} \/ blocks' = blocks
  PROVE  ExecInv'
<1>1. Blocks' = Blocks /\ Body(at)' = Body(at) /\ \A s : PointersOK(s)' = PointersOK(s)
  BY SameFunction DEF Body
<1>2. dead' \cap Live(at, pc - 1)' = {}
  <2>1. CASE dead = {}
    BY <2>1
  <2>2. CASE blocks' = blocks
    <3>1. \A b, k : Live(b, k)' = Live(b, k)
      BY <2>2, SameLive
    <3>2. Live(at, pc - 1)' = Live(at, pc - 1)
      BY <3>1
    <3> QED
      BY <3>2 DEF ExecInv
  <2> QED
    BY <2>1, <2>2
<1>3. PointersOK([dead |-> dead, pts |-> pts])'
  BY <1>1 DEF ExecInv
<1> QED
  BY <1>1, <1>2, <1>3 DEF ExecInv, Heap, Uids, Operand

LEMMA UpdateBlockInv ==
  ASSUME KillerInv, NEW b \in Blocks, updateBlock(b)
  PROVE  KillerInv'
<1> DEFINE new == GenBehind(b) \ blocks[b].kill
<1>1. AnalysisInv /\ fnc \in Programs /\ b \in todo /\ fnc' = fnc /\ kills' = kills
  BY DEF KillerInv, AnalysisInv, updateBlock
<1>2. /\ blocks' = [blocks EXCEPT ![b].gen = @ \cup new]
      /\ todo' = (todo \ {b}) \cup (IF new \subseteq blocks[b].gen THEN {} ELSE Inbound(b))
  BY DEF updateBlock
<1>3. Blocks' = Blocks /\ \A c : Body(c)' = Body(c) /\ Targets(c)' = Targets(c)
  BY <1>1, SameFunction
<1>4. \A c : Scanned(c)' = Scanned(c) /\ ScanBlock(c)' = ScanBlock(c)
  BY <1>1, SameScan
<1>5. \A c \in Blocks : \A t \in DOMAIN Targets(c) : Targets(c)[t] \in Blocks
  BY <1>1, BlockFacts
<1>6. blocks \in [Blocks -> DataRec] /\ todo \subseteq Blocks
  BY <1>1 DEF AnalysisInv
<1>7. new \subseteq Uids
  BY <1>5, <1>6 DEF GenBehind, DataRec
<1> HIDE DEF new
<1>8. /\ blocks' \in [Blocks -> DataRec]
      /\ \A c \in Blocks : blocks'[c].kill = blocks[c].kill
      /\ \A c \in Blocks \ {b} : blocks'[c].gen = blocks[c].gen
      /\ blocks'[b].gen = blocks[b].gen \cup new
  BY <1>2, <1>6, <1>7 DEF DataRec
<1>9. todo' \subseteq Blocks
  BY <1>2, <1>6 DEF Inbound
<1>10. ASSUME NEW c \in Blocks \ todo'
       PROVE  GenBehind(c)' \ blocks'[c].kill \subseteq blocks'[c].gen
  <2>1. GenBehind(c)' = UNION {blocks'[Targets(c)[t]].gen : t \in DOMAIN Targets(c)}
    BY <1>3 DEF GenBehind
  <2>2. CASE new \subseteq blocks[b].gen
    <3>1. \A d \in Blocks : blocks'[d].gen = blocks[d].gen
      BY <1>8, <2>2
    <3>2. GenBehind(c)' = GenBehind(c)
      <4>1. \A t \in DOMAIN Targets(c) : blocks'[Targets(c)[t]].gen = blocks[Targets(c)[t]].gen
        BY <1>5, <3>1
      <4> QED
        BY <2>1, <4>1 DEF GenBehind
    <3>3. CASE c = b
      BY <1>8, <3>2, <3>3 DEF new
    <3>4. CASE c # b
      <4>1. c \in Blocks \ todo
        BY <1>2, <3>4
      <4>2. GenBehind(c) \ blocks[c].kill \subseteq blocks[c].gen
        BY <1>1, <4>1 DEF AnalysisInv
      <4> QED
        BY <1>8, <3>1, <3>2, <4>2
    <3> QED
      BY <3>3, <3>4
  <2>3. CASE ~(new \subseteq blocks[b].gen)
    <3>1. c \notin Inbound(b)
      BY <1>2, <2>3
    <3>2. \A t \in DOMAIN Targets(c) : Targets(c)[t] \in Blocks \ {b}
      BY <1>5, <3>1 DEF Inbound
    <3>3. GenBehind(c)' = GenBehind(c)
      <4>1. \A t \in DOMAIN Targets(c) : blocks'[Targets(c)[t]].gen = blocks[Targets(c)[t]].gen
        BY <1>8, <3>2
      <4> QED
        BY <2>1, <4>1 DEF GenBehind
    <3>4. CASE c = b
      BY <1>8, <3>3, <3>4 DEF new
    <3>5. CASE c # b
      <4>1. c \in Blocks \ todo
        BY <1>2, <3>5
      <4>2. GenBehind(c) \ blocks[c].kill \subseteq blocks[c].gen
        BY <1>1, <4>1 DEF AnalysisInv
      <4> QED
        BY <1>8, <3>3, <3>5, <4>2
    <3> QED
      BY <3>4, <3>5
  <2> QED
    BY <2>2, <2>3
<1>11. ASSUME NEW c \in Blocks
       PROVE  /\ ScanBlock(c).gen \subseteq blocks'[c].gen
              /\ blocks'[c].kill = Scanned(c)[Len(Body(c))].kill
  <2>1. /\ ScanBlock(c).gen \subseteq blocks[c].gen
        /\ blocks[c].kill = Scanned(c)[Len(Body(c))].kill
    BY <1>1 DEF AnalysisInv
  <2>2. blocks[c].gen \subseteq blocks'[c].gen
    BY <1>8
  <2> QED
    BY <1>8, <2>1, <2>2
<1>12. AnalysisInv'
  BY <1>1, <1>3, <1>4, <1>8, <1>9, <1>10, <1>11 DEF AnalysisInv, DataRec, Uids
<1>13. kills = <<>> /\ dead = {}
  BY <1>1 DEF KillerInv, MarksInv
<1>14. ExecInv'
  BY <1>1, <1>13, SameExec DEF updateBlock, KillerInv
<1>15. MarksInv'
  BY <1>1, <1>13 DEF updateBlock, MarksInv
<1> QED
  BY <1>12, <1>14, <1>15 DEF KillerInv

LEMMA CommitInv ==
  ASSUME KillerInv, Commit
  PROVE  KillerInv'
<1>1. /\ todo = {} /\ kills' = [b \in Blocks |-> commitBlock(b)]
      /\ fnc' = fnc /\ todo' = todo /\ blocks' = blocks
      /\ at' = at /\ pc' = pc /\ dead' = dead /\ pts' = pts /\ bad' = bad
  BY DEF Commit
<1>2. AnalysisInv' /\ ExecInv'
  BY <1>1, SameAnalysis, SameExec DEF KillerInv
<1>3. Blocks' = Blocks /\ \A b : commitBlock(b)' = commitBlock(b)
  BY <1>1, SameFunction, SameMarks
<1>4. MarksInv'
  BY <1>1, <1>3 DEF MarksInv
<1> QED
  BY <1>2, <1>4 DEF KillerInv

(* The marks are there, and stay, while the function is executed. *)
LEMMA SameMarksInv ==
  ASSUME KillerInv, Analyzed, fnc' = fnc, todo' = todo, blocks' = blocks, kills' = kills
  PROVE  /\ AnalysisInv' /\ MarksInv'
         /\ todo = {} /\ kills = [b \in Blocks |-> commitBlock(b)]
<1>1. todo = {} /\ kills = [b \in Blocks |-> commitBlock(b)]
  BY DEF KillerInv, MarksInv, Analyzed
<1>2. AnalysisInv'
  BY SameAnalysis DEF KillerInv
<1>3. Blocks' = Blocks /\ \A b : commitBlock(b)' = commitBlock(b)
  BY SameFunction, SameMarks
<1> QED
  BY <1>1, <1>2, <1>3 DEF MarksInv

LEMMA GoToInv ==
  ASSUME KillerInv, NEW t, goTo(t)
  PROVE  KillerInv'
<1>1. /\ Analyzed /\ pc > Len(Body(at)) /\ t \in DOMAIN Targets(at)
      /\ at' = Targets(at)[t] /\ pc' = 1
      /\ fnc' = fnc /\ todo' = todo /\ blocks' = blocks /\ kills' = kills /\ bad' = bad
  BY DEF goTo
<1>2. AnalysisInv' /\ MarksInv' /\ todo = {} /\ kills = [b \in Blocks |-> commitBlock(b)]
  BY <1>1, SameMarksInv
<1>3. /\ AnalysisInv /\ fnc \in Programs /\ at \in Blocks /\ pc \in 1..Len(Body(at)) + 1
      /\ dead \cap Live(at, pc - 1) = {} /\ ~bad
  BY DEF KillerInv, AnalysisInv, ExecInv
<1> DEFINE s == [dead |-> dead, pts |-> pts]
<1>4. s \in Heap /\ PointersOK(s) /\ s.dead = dead
  BY DEF KillerInv, ExecInv
<1>5. PICK T \in SUBSET Uids : killPerTarget(t) = KillVars(T) /\ T \cap blocks[at'].gen = {}
  <2>1. CASE headingToAbort(Targets(at)[t])
    <3>1. killPerTarget(t) = KillVars({})
      BY <2>1 DEF killPerTarget, KillVars
    <3> QED
      BY <3>1
  <2>2. CASE ~headingToAbort(Targets(at)[t])
    <3>1. PICK T \in SUBSET Uids : /\ commitBlock(at).target[t] = KillVars(T)
                                   /\ T \cap blocks[at'].gen = {}
      BY <1>1, <1>3, TargetMarks
    <3>2. killPerTarget(t) = KillVars(T)
      BY <1>2, <1>3, <2>2, <3>1 DEF killPerTarget
    <3> QED
      BY <3>1, <3>2
  <2> QED
    BY <2>1, <2>2
<1> DEFINE r == killAll(s, KillVars(T))
<1>7. dead' = r.dead /\ pts' = r.pts
  BY <1>5 DEF goTo
<1> HIDE DEF s
<1>8. r \in Heap /\ PointersOK(r) /\ r.dead \subseteq s.dead \cup T
  BY <1>3, <1>4, KillAllKeeps
<1> HIDE DEF r
<1>9. Len(Body(at)) \in Nat /\ at' \in Blocks /\ pc - 1 = Len(Body(at))
  BY <1>1, <1>3, BlockFacts
<1>10. blocks[at'].gen \subseteq Live(at, pc - 1)
  BY <1>1, <1>3, <1>9, LiveBehindFacts, LiveFacts
<1>11. Live(at', 0) \subseteq blocks[at'].gen
  BY <1>2, <1>3, <1>9, FixedPointIsLive
<1>12. dead' \cap Live(at', 0) = {}
  BY <1>3, <1>4, <1>5, <1>7, <1>8, <1>10, <1>11
<1>13. \A b, k : Live(b, k)' = Live(b, k)
  BY <1>1, SameLive
<1>14. /\ Blocks' = Blocks /\ \A b : Body(b)' = Body(b)
       /\ \A x : PointersOK(x)' = PointersOK(x)
  BY <1>1, SameFunction
<1>15. [dead |-> dead', pts |-> pts'] = r
  BY <1>7, <1>8 DEF Heap
<1>16. Len(Body(at')) \in Nat
  BY <1>3, <1>9, BlockFacts
<1>17. Live(at, pc - 1)' = Live(at', 0)
  <2>1. pc' - 1 = 0
    BY <1>1
  <2> QED
    BY <1>13, <2>1
<1>18. at' \in Blocks' /\ pc' \in 1..Len(Body(at)') + 1
  <2>1. Body(at)' = Body(at')
    BY <1>14
  <2> QED
    BY <1>1, <1>9, <1>14, <1>16, <2>1
<1>19. ExecInv'
  BY <1>1, <1>3, <1>8, <1>12, <1>14, <1>15, <1>17, <1>18 DEF ExecInv, Heap, Uids, Operand
<1> QED
  BY <1>2, <1>19 DEF KillerInv

(* What an instruction makes of the variables, before any is killed. *)
Written(i) == ({i.def} \ {0}) \cup (IF i.store # 0 THEN {pts[i.store]} \ {0} ELSE {})
ReadBy(i) ==
  i.use \cup ({i.load, i.store} \ {0}) \cup (IF i.load # 0 THEN {pts[i.load]} \ {0} ELSE {})
AfterInsn(i) ==
  [dead |-> (dead \ Written(i)) \ {i.addr},
   pts |-> IF i.def # 0 THEN [pts EXCEPT ![i.def] = Assigned(i)] ELSE pts]

(* What the instruction reads is alive in front of it, so it has not been destroyed. *)
LEMMA ReadsNoDead ==
  ASSUME fnc \in Programs, ExecInv, NEW i \in InsnRec, dead \cap SrcVars(i) = {}
  PROVE  ReadBy(i) \cap dead = {}
<1>1. i.use \cup ({i.load, i.store} \ {0}) \subseteq SrcVars(i)
  BY DEF SrcVars
<1>2. ASSUME i.load # 0, pts[i.load] # 0 PROVE pts[i.load] \notin dead
  <2> DEFINE s == [dead |-> dead, pts |-> pts]
  <2>1. PointersOK(s) /\ s.dead = dead /\ s.pts = pts
    BY DEF ExecInv
  <2> HIDE DEF s
  <2>2. i.load \in Uids
    BY <1>2 DEF InsnRec, Operand
  <2>3. CASE pts[i.load] \notin AliasTargets
    BY <1>2, <2>1, <2>2, <2>3 DEF PointersOK
  <2>4. CASE pts[i.load] \in AliasTargets
    <3>1. i.load \in DOMAIN derefAliases
      BY <2>1, <2>2, <2>4 DEF PointersOK
    <3>2. pts[i.load] = derefAliases[i.load]
      BY <1>2, <2>1, <3>1 DEF PointersOK
    <3> QED
      BY <3>1, <3>2 DEF SrcVars, Aliases
  <2> QED
    BY <2>3, <2>4
<1> QED
  BY <1>1, <1>2 DEF ReadBy

(***************************************************************************)
(* The pointer that an instruction assigns: to a variable that has not     *)
(* been destroyed, or to the alias of the variable that is assigned.       *)
(***************************************************************************)
LEMMA AssignedFacts ==
  ASSUME fnc \in Programs, ExecInv, NEW b \in Blocks, NEW k \in DOMAIN Body(b), NEW i,
         i = Body(b)[k]
  PROVE  /\ Assigned(i) \in Operand
         /\ Assigned(i) # 0 /\ Assigned(i) \notin AliasTargets =>
              (Assigned(i) \notin dead \/ Assigned(i) = i.addr) /\ mayBePointed(Assigned(i))
         /\ Assigned(i) \in AliasTargets => i.def \in DOMAIN derefAliases
         /\ i.def \in DOMAIN derefAliases =>
              Assigned(i) = derefAliases[i.def] \/ Assigned(i) = 0
<1> DEFINE s == [dead |-> dead, pts |-> pts]
<1>1. /\ i \in InsnRec /\ i.addr \notin AliasTargets
      /\ i.addr # 0 => mayBePointed(i.addr)
  BY InsnFacts
<1>2. i.addr \in Operand /\ i.copy \in Operand
  BY <1>1 DEF InsnRec
<1>3. s \in Heap /\ PointersOK(s) /\ s.dead = dead /\ s.pts = pts
  BY DEF ExecInv
<1>4. pts \in [Uids -> Operand]
  BY <1>3 DEF Heap
<1> HIDE DEF s
<1>5. 0 \notin Uids /\ AliasTargets \subseteq Uids
  BY AliasFacts
<1>6. /\ i.copy \in DOMAIN derefAliases => i.def \in DOMAIN derefAliases
      /\ i.def \in DOMAIN derefAliases =>
           /\ i.addr = 0
           /\ i.copy # 0 => /\ i.copy \in DOMAIN derefAliases
                            /\ derefAliases[i.copy] = derefAliases[i.def]
  BY CopyFacts
<1>7. CASE i.addr # 0
  <2>1. Assigned(i) = i.addr
    BY <1>7 DEF Assigned
  <2> QED
    BY <1>1, <1>2, <1>6, <1>7, <2>1
<1>8. CASE i.addr = 0 /\ i.copy # 0
  <2>1. Assigned(i) = pts[i.copy] /\ i.copy \in Uids
    BY <1>2, <1>8 DEF Assigned, Operand
  <2>2. /\ pts[i.copy] # 0 /\ pts[i.copy] \notin AliasTargets =>
             pts[i.copy] \notin dead /\ mayBePointed(pts[i.copy])
        /\ pts[i.copy] \in AliasTargets => i.copy \in DOMAIN derefAliases
        /\ i.copy \in DOMAIN derefAliases =>
             pts[i.copy] = derefAliases[i.copy] \/ pts[i.copy] = 0
    BY <1>3, <2>1 DEF PointersOK
  <2>3. pts[i.copy] \in Operand
    BY <1>4, <2>1
  <2> QED
    BY <1>6, <1>8, <2>1, <2>2, <2>3
<1>9. CASE i.addr = 0 /\ i.copy = 0
  <2>1. Assigned(i) = 0
    BY <1>9 DEF Assigned
  <2> QED
    BY <1>5, <2>1 DEF Operand
<1> QED
  BY <1>7, <1>8, <1>9

LEMMA AfterInsnFacts ==
  ASSUME fnc \in Programs, ExecInv, NEW b \in Blocks, NEW k \in DOMAIN Body(b), NEW i,
         i = Body(b)[k], dead \cap SrcVars(i) = {}, Dereferenced(i.store)
  PROVE  /\ AfterInsn(i) \in Heap /\ PointersOK(AfterInsn(i))
         /\ AfterInsn(i).dead \subseteq dead \ DstVars(i)
<1> DEFINE s == [dead |-> dead, pts |-> pts]
           r == AfterInsn(i)
           a == Assigned(i)
<1>1. i \in InsnRec
  BY InsnFacts
<1>2. i.use \subseteq Uids /\ i.def \in Operand /\ i.load \in Operand /\ i.store \in Operand
  BY <1>1 DEF InsnRec
<1>3. s \in Heap /\ PointersOK(s) /\ s.dead = dead /\ s.pts = pts
  BY DEF ExecInv
<1>4. dead \subseteq Uids /\ pts \in [Uids -> Operand]
  BY <1>3 DEF Heap
<1> HIDE DEF s
<1>5. /\ 0 \notin Uids /\ DOMAIN derefAliases \subseteq Uids /\ AliasTargets \subseteq Uids
      /\ \A p \in DOMAIN derefAliases : derefAliases[p] \in AliasTargets
  BY AliasFacts
<1>6. r.dead = (dead \ Written(i)) \ {i.addr}
  BY DEF AfterInsn
<1>7. r.pts = IF i.def # 0 THEN [pts EXCEPT ![i.def] = a] ELSE pts
  BY DEF AfterInsn
<1>a. /\ a \in Operand
      /\ a # 0 /\ a \notin AliasTargets => (a \notin dead \/ a = i.addr) /\ mayBePointed(a)
      /\ a \in AliasTargets => i.def \in DOMAIN derefAliases
      /\ i.def \in DOMAIN derefAliases => a = derefAliases[i.def] \/ a = 0
  BY AssignedFacts
<1> HIDE DEF a
<1>8. r \in Heap
  BY <1>a, <1>2, <1>4 DEF AfterInsn, Heap, a
<1>9. \A p \in Uids : r.pts[p] = IF p = i.def THEN a ELSE pts[p]
  BY <1>2, <1>4, <1>5, <1>7 DEF Operand
<1> HIDE DEF r
<1>10. ASSUME NEW p \in Uids, r.pts[p] # 0, r.pts[p] \notin AliasTargets
       PROVE  r.pts[p] \notin r.dead /\ mayBePointed(r.pts[p])
  <2>1. CASE p = i.def
    BY <1>a, <1>6, <1>9, <1>10, <2>1
  <2>2. CASE p # i.def
    <3>1. pts[p] \notin dead /\ mayBePointed(pts[p])
      BY <1>3, <1>9, <1>10, <2>2 DEF PointersOK
    <3> QED
      BY <1>6, <1>9, <2>2, <3>1
  <2> QED
    BY <2>1, <2>2
<1>11. ASSUME NEW p \in Uids, r.pts[p] \in AliasTargets PROVE p \in DOMAIN derefAliases
  BY <1>a, <1>3, <1>9, <1>11 DEF PointersOK
<1>12. ASSUME NEW p \in DOMAIN derefAliases PROVE r.pts[p] = derefAliases[p] \/ r.pts[p] = 0
  BY <1>a, <1>3, <1>5, <1>9 DEF PointersOK
<1>13. PointersOK(r)
  BY <1>10, <1>11, <1>12 DEF PointersOK
<1>14. r.dead \cap DstVars(i) = {}
  <2>1. ASSUME NEW v \in Aliases(i.store) PROVE v \in Written(i)
    <3>1. i.store \in DOMAIN derefAliases /\ v = derefAliases[i.store]
      BY DEF Aliases
    <3>2. i.store # 0 /\ i.store \notin dead /\ v # 0
      BY <1>5, <3>1 DEF SrcVars
    <3>3. pts[i.store] = v
      BY <1>3, <3>1, <3>2 DEF PointersOK, Dereferenced
    <3> QED
      BY <3>2, <3>3 DEF Written
  <2>2. {i.def} \ {0} \subseteq Written(i)
    BY DEF Written
  <2> QED
    BY <1>6, <2>1, <2>2 DEF DstVars
<1> QED
  BY <1>6, <1>8, <1>13, <1>14 DEF r

LEMMA ExecInsnInv ==
  ASSUME KillerInv, execInsn
  PROVE  KillerInv'
<1> DEFINE i == Body(at)[pc]
           s == AfterInsn(i)
           r == killAll(s, KillVars(Dying(at, pc)))
<1>1. /\ Analyzed /\ pc \in DOMAIN Body(at) /\ pc' = pc + 1 /\ at' = at /\ Dereferenced(i.store)
      /\ fnc' = fnc /\ todo' = todo /\ blocks' = blocks /\ kills' = kills
  BY DEF execInsn
<1>2. AnalysisInv' /\ MarksInv' /\ todo = {} /\ kills = [b \in Blocks |-> commitBlock(b)]
  BY <1>1, SameMarksInv
<1>3. /\ AnalysisInv /\ ExecInv /\ fnc \in Programs /\ at \in Blocks
      /\ dead \cap Live(at, pc - 1) = {}
  BY DEF KillerInv, AnalysisInv, ExecInv
<1>4. pc \in 1..Len(Body(at)) /\ Len(Body(at)) \in Nat /\ i \in InsnRec
  BY <1>1, <1>3, BlockFacts, InsnFacts
<1>5. /\ kills[at].vars[pc] = KillVars(Dying(at, pc))
      /\ Dying(at, pc) \subseteq Uids /\ Dying(at, pc) \cap Live(at, pc) = {}
  BY <1>1, <1>2, <1>3, InsnMarks
<1>6. bad' = (ReadBy(i) \cap dead # {})
  BY DEF execInsn, ReadBy
<1>7. dead' = r.dead /\ pts' = r.pts
  <2>1. \E x \in {killAll(s, kills[at].vars[pc])} : dead' = x.dead /\ pts' = x.pts
    BY DEF execInsn, AfterInsn, Written
  <2> QED
    BY <1>5, <2>1
<1>8. Live(at, pc - 1) = (Live(at, pc) \ DstVars(i)) \cup SrcVars(i)
  BY <1>3, <1>4, LiveBehindFacts, LiveFacts
<1>9. dead \cap SrcVars(i) = {}
  BY <1>3, <1>8
<1>10. /\ s \in Heap /\ PointersOK(s) /\ s.dead \subseteq dead \ DstVars(i)
  BY <1>1, <1>3, <1>9, AfterInsnFacts
<1>11. ReadBy(i) \cap dead = {}
  BY <1>3, <1>4, <1>9, ReadsNoDead
<1> HIDE DEF s, i
<1>12. r \in Heap /\ PointersOK(r) /\ r.dead \subseteq s.dead \cup Dying(at, pc)
  BY <1>3, <1>5, <1>10, KillAllKeeps
<1> HIDE DEF r
<1>13. dead' \cap Live(at, pc) = {}
  BY <1>3, <1>5, <1>7, <1>8, <1>10, <1>12
<1>14. \A b, k : Live(b, k)' = Live(b, k)
  BY <1>1, SameLive
<1>15. /\ Blocks' = Blocks /\ \A b : Body(b)' = Body(b)
       /\ \A x : PointersOK(x)' = PointersOK(x)
  BY <1>1, SameFunction
<1>16. [dead |-> dead', pts |-> pts'] = r
  BY <1>7, <1>12 DEF Heap
<1>17. Live(at, pc - 1)' = Live(at, pc)
  <2>1. pc' - 1 = pc
    BY <1>1, <1>4
  <2> QED
    BY <1>1, <1>14, <2>1
<1>18. at' \in Blocks' /\ pc' \in 1..Len(Body(at)') + 1
  <2>1. Body(at)' = Body(at)
    BY <1>1, <1>15
  <2> QED
    BY <1>1, <1>3, <1>4, <1>15, <2>1
<1>19. ExecInv'
  BY <1>6, <1>11, <1>12, <1>13, <1>15, <1>16, <1>17, <1>18 DEF ExecInv, Heap, Uids, Operand
<1> QED
  BY <1>2, <1>19 DEF KillerInv

LEMMA KillerInvNext == KillerInv /\ [Next]_vars => KillerInv'
<1> SUFFICES ASSUME KillerInv, [Next]_vars PROVE KillerInv'
  OBVIOUS
<1>1. CASE \E b \in Blocks : updateBlock(b)
  BY <1>1, UpdateBlockInv
<1>2. CASE Commit
  BY <1>2, CommitInv
<1>3. CASE execInsn
  BY <1>3, ExecInsnInv
<1>4. CASE \E t \in 1..2 : goTo(t)
  BY <1>4, GoToInv
<1>5. CASE UNCHANGED vars
  <2>1. /\ fnc' = fnc /\ todo' = todo /\ blocks' = blocks /\ kills' = kills
        /\ at' = at /\ pc' = pc /\ dead' = dead /\ pts' = pts /\ bad' = bad
    BY <1>5 DEF vars
  <2>2. AnalysisInv' /\ ExecInv'
    BY <2>1, SameAnalysis, SameExec DEF KillerInv
  <2>3. Blocks' = Blocks /\ \A b : commitBlock(b)' = commitBlock(b)
    BY <2>1, SameFunction, SameMarks
  <2> QED
    BY <2>1, <2>2, <2>3 DEF KillerInv, MarksInv
<1> QED
  BY <1>1, <1>2, <1>3, <1>4, <1>5 DEF Next

LEMMA KillerSafe == KillerSpec => []KillerInv
BY KillerInvInit, KillerInvNext, PTL DEF KillerSpec

(***************************************************************************)
(* NeverReadsDead: whatever the order in which computeFixPoint() visits    *)
(* the blocks, no path through any function reads a variable that one of   *)
(* its marks has destroyed, directly or through a pointer.                 *)
(***************************************************************************)
THEOREM KillerNeverReadsDead == KillerSpec => []NeverReadsDead
<1>1. KillerInv => NeverReadsDead
  BY DEF KillerInv, ExecInv, NeverReadsDead
<1> QED
  BY <1>1, KillerSafe, PTL

(***************************************************************************)
(* CallerVarsSurvive: thanks to presetLive(), a function that returns has  *)
(* destroyed none of the variables of its caller that it reaches by its    *)
(* pointers.                                                               *)
(***************************************************************************)
THEOREM KillerSparesCaller == KillerSpec => []CallerVarsSurvive
<1>1. KillerInv => CallerVarsSurvive
  <2> SUFFICES ASSUME KillerInv, Targets(at) = <<>>, pc > Len(Body(at))
               PROVE  AliasTargets \cap dead = {}
    BY DEF CallerVarsSurvive
  <2>1. /\ AnalysisInv /\ fnc \in Programs /\ at \in Blocks /\ pc \in 1..Len(Body(at)) + 1
        /\ dead \cap Live(at, pc - 1) = {}
    BY DEF KillerInv, AnalysisInv, ExecInv
  <2>2. pc - 1 = Len(Body(at))
    BY <2>1, BlockFacts
  <2>3. Live(at, pc - 1) = LiveBehind(at)
    BY <2>1, <2>2, LiveBehindFacts, LiveFacts
  <2> QED
    BY <2>1, <2>3 DEF LiveBehind
<1> QED
  BY <1>1, KillerSafe, PTL

===============================================================================
