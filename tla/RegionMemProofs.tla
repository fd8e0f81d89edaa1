---------------------------- MODULE RegionMemProofs ----------------------------
(***************************************************************************)
(* Proofs about RegionMem, for objects of any size, any fields and any     *)
(* number of them: the arenas and the lists of users stay exact, and every *)
(* value, cached ones included, agrees with the bytes.                     *)
(***************************************************************************)
EXTENDS RegionMem, WellFoundedInduction, TLAPS

-------------------------------------------------------------------------------
(* Induction *)

(* A set of numbers has a least element: the numbers are well-founded. *)
LEMMA LeastNumber ==
  ASSUME NEW T \in SUBSET Nat, T # {}
  PROVE  \E n \in T : \A m \in T : n <= m
<1> DEFINE R == OpToRel(<, Nat)
<1>1. IsWellFoundedOn(R, Nat)
  BY NatLessThanWellFounded, Zenon
<1>2. \A m, n \in Nat : m < n => <<m, n>> \in R
  BY DEF OpToRel
<1> HIDE DEF R
<1>3. PICK n \in T : \A m \in T : ~(<<m, n>> \in R)
  BY <1>1, WFMin
<1>4. n \in Nat /\ \A m \in T : m \in Nat /\ ~(m < n)
  BY <1>2, <1>3
<1> QED
  BY <1>4

LEMMA Induction ==
  ASSUME NEW S, 0 \in S, \A n \in Nat : n \in S => n + 1 \in S
  PROVE  Nat \subseteq S
<1> SUFFICES ASSUME Nat \ S # {} PROVE FALSE
  OBVIOUS
<1>1. PICK n \in Nat \ S : \A m \in Nat \ S : n <= m
  BY LeastNumber
<1>2. n # 0 /\ n - 1 \in Nat
  BY <1>1
<1>3. n - 1 \in S
  BY <1>1, <1>2
<1> QED
  BY <1>1, <1>2, <1>3

-------------------------------------------------------------------------------
(* Fields and blocks *)

Value == Ptr \cup {"null", "undef", "unk", "inv"}
Entity == [code : {"field", "uniform"}, obj : Obj, off : Nat, size : Nat,
           type : Types \cup {""}, value : Value]

(* The program accesses a field of that type at that offset of some object. *)
Accessed(off, type) == \E o \in Obj : \E f \in Fields[o] : f[1] = off /\ f[2] = type

IsEntity(e) ==
  /\ e \in Entity /\ e.size > 0 /\ e.off + e.size <= Size
  /\ e.code = "field" => e.type \in Types /\ e.size = TypeSize(e.type) /\ Accessed(e.off, e.type)
  /\ e.code = "uniform" => e.value \in {"null", "undef"}

(* What the arenas and the users of pointers must be. *)
Item(e, f) == <<e.off, e.off + e.size, f>>
ArenaOf(ent, o) == {Item(ent[f], f) : f \in {i \in DOMAIN ent : ent[i].obj = o}}
UsersOf(ent) == {<<ent[f].value, f>> : f \in {g \in DOMAIN ent : ent[g].value \in Ptr}}

BoundedIds(D) == D \subseteq Nat \ {0} /\ \E n \in Nat : \A i \in D : i <= n

(* The representation is consistent, up to blocks that share bytes. *)
IsMem(S) ==
  /\ DOMAIN S = {"ent", "live", "used", "arena"}
  /\ BoundedIds(DOMAIN S.ent)
  /\ \A f \in DOMAIN S.ent : IsEntity(S.ent[f])
  /\ S.live \subseteq DOMAIN S.ent
  /\ DOMAIN S.arena = Obj
  /\ \A o \in Obj : S.arena[o] = ArenaOf(S.ent, o)
  /\ S.used = UsersOf(S.ent)

LEMMA EntityFacts ==
  ASSUME NEW e, IsEntity(e)
  PROVE  /\ DOMAIN e = {"code", "obj", "off", "size", "type", "value"}
         /\ e.code \in {"field", "uniform"} /\ e.obj \in Obj /\ e.off \in Nat /\ e.size \in Nat
         /\ e.size > 0 /\ e.off + e.size <= Size /\ e.value \in Value
BY DEF IsEntity, Entity

LEMMA LastIdFacts ==
  ASSUME NEW S, BoundedIds(DOMAIN S.ent)
  PROVE  LastId(S) \in Nat /\ \A i \in DOMAIN S.ent : i <= LastId(S)
<1> DEFINE D == DOMAIN S.ent
           T == {n \in Nat : \A i \in D : i <= n}
<1>1. D \subseteq Nat \ {0} /\ T # {} /\ T \subseteq Nat
  BY DEF BoundedIds
<1>2. PICK n \in T : \A m \in T : n <= m
  BY <1>1, LeastNumber
<1>3. n \in D \cup {0}
  <2> SUFFICES ASSUME n # 0, n \notin D PROVE FALSE
    OBVIOUS
  <2>1. n \in Nat /\ n - 1 \in Nat /\ \A i \in D : i \in Nat /\ i <= n /\ i # n
    BY <1>1, <1>2
  <2>2. n - 1 \in T
    BY <2>1
  <2> QED
    BY <1>2, <2>1, <2>2
<1>4. \E k \in D \cup {0} : \A i \in D : i <= k
  BY <1>2, <1>3
<1>5. LastId(S) \in D \cup {0} /\ \A i \in D : i <= LastId(S)
  BY <1>4 DEF LastId, Ids
<1> QED
  BY <1>1, <1>5

LEMMA NewIdFacts ==
  ASSUME NEW S, BoundedIds(DOMAIN S.ent)
  PROVE  NewId(S) \in Nat \ {0} /\ NewId(S) \notin DOMAIN S.ent
<1> DEFINE D == DOMAIN S.ent
           n == LastId(S)
           T == {i \in 1..n + 1 : i \notin D}
<1>1. n \in Nat /\ \A i \in D : i <= n
  BY LastIdFacts
<1> HIDE DEF n
<1>2. n + 1 \in T /\ T \in SUBSET Nat
  BY <1>1
<1>3. PICK k \in T : \A m \in T : k <= m
  BY <1>2, LeastNumber
<1>4. k \in 1..n + 1 /\ k \notin D /\ \A j \in 1..k - 1 : j \in D
  BY <1>1, <1>3
<1>5. \E i \in 1..n + 1 : i \notin D /\ \A j \in 1..i - 1 : j \in D
  BY <1>4
<1>6. NewId(S) \in 1..n + 1 /\ NewId(S) \notin D
  BY <1>5 DEF NewId, Ids, n
<1> QED
  BY <1>1, <1>6

-------------------------------------------------------------------------------
(* Arenas *)

LEMMA SubWhole ==
  ASSUME NEW A, NEW f, NEW beg \in Int, NEW end \in Int, beg < end, <<beg, end, f>> \in A,
         \A x \in A : x[3] = f => x = <<beg, end, f>>
  PROVE  sub(A, beg, end, f) = A \ {<<beg, end, f>>}
<1> DEFINE hits == {item \in Hits(A, beg, end) : item[3] = f}
<1>1. hits = {<<beg, end, f>>}
  BY DEF Hits
<1> HIDE DEF hits
<1>2. {i \in hits : i[1] < beg} = {} /\ {i \in hits : end < i[2]} = {}
  BY <1>1
<1>3. sub(A, beg, end, f) = (A \ hits) \cup {<<item[1], beg, f>> : item \in {i \in hits : i[1] < beg}}
                                       \cup {<<end, item[2], f>> : item \in {i \in hits : end < i[2]}}
  BY DEF sub, hits
<1> QED
  BY <1>1, <1>2, <1>3

LEMMA SubTail ==
  ASSUME NEW A, NEW f, NEW beg \in Int, NEW end \in Int, NEW c \in Int, beg < c, c < end,
         <<beg, end, f>> \in A, \A x \in A : x[3] = f => x = <<beg, end, f>>
  PROVE  sub(A, c, end, f) = (A \ {<<beg, end, f>>}) \cup {<<beg, c, f>>}
<1> DEFINE hits == {item \in Hits(A, c, end) : item[3] = f}
<1>1. hits = {<<beg, end, f>>}
  BY DEF Hits
<1> HIDE DEF hits
<1>2. {i \in hits : i[1] < c} = {<<beg, end, f>>} /\ {i \in hits : end < i[2]} = {}
  BY <1>1
<1>3. sub(A, c, end, f) = (A \ hits) \cup {<<item[1], c, f>> : item \in {i \in hits : i[1] < c}}
                                     \cup {<<end, item[2], f>> : item \in {i \in hits : end < i[2]}}
  BY DEF sub, hits
<1>4. {<<item[1], c, f>> : item \in {<<beg, end, f>>}} = {<<beg, c, f>>}
  OBVIOUS
<1> QED
  BY <1>1, <1>2, <1>3, <1>4

LEMMA SubHead ==
  ASSUME NEW A, NEW f, NEW beg \in Int, NEW end \in Int, NEW c \in Int, beg < c, c < end,
         <<beg, end, f>> \in A, \A x \in A : x[3] = f => x = <<beg, end, f>>
  PROVE  sub(A, beg, c, f) = (A \ {<<beg, end, f>>}) \cup {<<c, end, f>>}
<1> DEFINE hits == {item \in Hits(A, beg, c) : item[3] = f}
<1>1. hits = {<<beg, end, f>>}
  BY DEF Hits
<1> HIDE DEF hits
<1>2. {i \in hits : i[1] < beg} = {} /\ {i \in hits : c < i[2]} = {<<beg, end, f>>}
  BY <1>1
<1>3. sub(A, beg, c, f) = (A \ hits) \cup {<<item[1], beg, f>> : item \in {i \in hits : i[1] < beg}}
                                     \cup {<<c, item[2], f>> : item \in {i \in hits : c < i[2]}}
  BY DEF sub, hits
<1>4. {<<c, item[2], f>> : item \in {<<beg, end, f>>}} = {<<c, end, f>>}
  OBVIOUS
<1> QED
  BY <1>1, <1>2, <1>3, <1>4

(* An entity has one item, in the arena of its object. *)
LEMMA ItemFacts ==
  ASSUME NEW ent, NEW f \in DOMAIN ent
  PROVE  /\ Item(ent[f], f) \in ArenaOf(ent, ent[f].obj)
         /\ \A o : \A x \in ArenaOf(ent, o) : x[3] = f => x = Item(ent[f], f)
BY DEF ArenaOf, Item

LEMMA ArenaRemove ==
  ASSUME NEW ent, NEW f \in DOMAIN ent, NEW o, NEW new, new = [i \in DOMAIN ent \ {f} |-> ent[i]]
  PROVE  ArenaOf(new, o) = ArenaOf(ent, o) \ {Item(ent[f], f)}
<1>1. DOMAIN new = DOMAIN ent \ {f} /\ \A i \in DOMAIN new : new[i] = ent[i]
  OBVIOUS
<1>2. ASSUME NEW x \in ArenaOf(new, o) PROVE x \in ArenaOf(ent, o) \ {Item(ent[f], f)}
  <2>1. PICK i \in DOMAIN new : new[i].obj = o /\ x = Item(new[i], i)
    BY DEF ArenaOf
  <2>2. i # f /\ x[3] = i /\ Item(ent[f], f)[3] = f
    BY <1>1, <2>1 DEF Item
  <2> QED
    BY <1>1, <2>1, <2>2 DEF ArenaOf
<1>3. ASSUME NEW x \in ArenaOf(ent, o), x # Item(ent[f], f) PROVE x \in ArenaOf(new, o)
  BY <1>1, <1>3 DEF ArenaOf
<1> QED
  BY <1>2, <1>3

LEMMA ArenaReplace ==
  ASSUME NEW ent, NEW f \in DOMAIN ent, NEW e, e.obj = ent[f].obj, NEW o,
         NEW new, DOMAIN new = DOMAIN ent, new[f] = e, \A i \in DOMAIN ent \ {f} : new[i] = ent[i]
  PROVE  ArenaOf(new, o) =
           IF o = e.obj THEN (ArenaOf(ent, o) \ {Item(ent[f], f)}) \cup {Item(e, f)}
           ELSE ArenaOf(ent, o)
<1>1. DOMAIN new = DOMAIN ent /\ new[f] = e /\ \A i \in DOMAIN ent \ {f} : new[i] = ent[i]
  OBVIOUS
<1>2. ASSUME NEW x \in ArenaOf(new, o)
      PROVE  \/ o = e.obj /\ x = Item(e, f)
             \/ x \in ArenaOf(ent, o) /\ x # Item(ent[f], f)
  <2>1. PICK i \in DOMAIN new : new[i].obj = o /\ x = Item(new[i], i)
    BY DEF ArenaOf
  <2>2. x[3] = i /\ Item(ent[f], f)[3] = f
    BY <2>1 DEF Item
  <2>3. CASE i = f
    BY <1>1, <2>1, <2>3
  <2>4. CASE i # f
    BY <1>1, <2>1, <2>2, <2>4 DEF ArenaOf
  <2> QED
    BY <2>3, <2>4
<1>3. ASSUME NEW x \in ArenaOf(ent, o), x # Item(ent[f], f) PROVE x \in ArenaOf(new, o)
  <2>1. PICK i \in DOMAIN ent : ent[i].obj = o /\ x = Item(ent[i], i)
    BY DEF ArenaOf
  <2>2. i # f
    BY <1>3, <2>1
  <2> QED
    BY <1>1, <2>1, <2>2 DEF ArenaOf
<1>4. o = e.obj => Item(e, f) \in ArenaOf(new, o)
  BY <1>1 DEF ArenaOf
<1>5. o # e.obj => Item(ent[f], f) \notin ArenaOf(ent, o)
  <2> SUFFICES ASSUME Item(ent[f], f) \in ArenaOf(ent, o) PROVE o = e.obj
    OBVIOUS
  <2>1. PICK i \in DOMAIN ent : ent[i].obj = o /\ Item(ent[f], f) = Item(ent[i], i)
    BY DEF ArenaOf
  <2>2. i = f
    BY <2>1 DEF Item
  <2> QED
    BY <2>1, <2>2
<1> QED
  BY <1>2, <1>3, <1>4, <1>5

LEMMA ArenaInsert ==
  ASSUME NEW ent, NEW n, n \notin DOMAIN ent, NEW e, NEW o,
         NEW new, DOMAIN new = DOMAIN ent \cup {n}, new[n] = e, \A i \in DOMAIN ent : new[i] = ent[i]
  PROVE  ArenaOf(new, o) =
           IF o = e.obj THEN ArenaOf(ent, o) \cup {Item(e, n)} ELSE ArenaOf(ent, o)
<1>1. DOMAIN new = DOMAIN ent \cup {n} /\ new[n] = e /\ \A i \in DOMAIN ent : new[i] = ent[i]
  OBVIOUS
<1>2. ASSUME NEW x \in ArenaOf(new, o)
      PROVE  (o = e.obj /\ x = Item(e, n)) \/ x \in ArenaOf(ent, o)
  <2>1. PICK i \in DOMAIN new : new[i].obj = o /\ x = Item(new[i], i)
    BY DEF ArenaOf
  <2> QED
    BY <1>1, <2>1 DEF ArenaOf
<1>3. ASSUME NEW x \in ArenaOf(ent, o) PROVE x \in ArenaOf(new, o)
  BY <1>1 DEF ArenaOf
<1>4. o = e.obj => Item(e, n) \in ArenaOf(new, o)
  BY <1>1 DEF ArenaOf
<1> QED
  BY <1>2, <1>3, <1>4

-------------------------------------------------------------------------------
(* Steps on the representation keep it consistent *)

LEMMA LiveMem ==
  ASSUME NEW S, IsMem(S), NEW L \in SUBSET DOMAIN S.ent
  PROVE  /\ IsMem([S EXCEPT !.live = L])
         /\ [S EXCEPT !.live = L].ent = S.ent /\ [S EXCEPT !.live = L].live = L
         /\ [S EXCEPT !.live = L].arena = S.arena /\ [S EXCEPT !.live = L].used = S.used
<1> DEFINE T == [S EXCEPT !.live = L]
<1>1. /\ DOMAIN T = DOMAIN S /\ T.ent = S.ent /\ T.live = L
      /\ T.arena = S.arena /\ T.used = S.used
  BY DEF IsMem
<1> HIDE DEF T
<1>2. IsMem(T)
  BY <1>1 DEF IsMem
<1> QED
  BY <1>1, <1>2 DEF T

(* A field gets another value. *)
LEMMA RevalueMem ==
  ASSUME NEW S, IsMem(S), NEW f \in DOMAIN S.ent, S.ent[f].code = "field", NEW v \in Value,
         NEW T, DOMAIN T = DOMAIN S, T.ent = [S.ent EXCEPT ![f] = [S.ent[f] EXCEPT !.value = v]],
         T.live \subseteq DOMAIN S.ent,
         DOMAIN T.arena = DOMAIN S.arena, \A o \in Obj : T.arena[o] = S.arena[o],
         T.used = (S.used \ {<<S.ent[f].value, f>>}) \cup (IF v \in Ptr THEN {<<v, f>>} ELSE {})
  PROVE  IsMem(T)
<1> DEFINE e == [S.ent[f] EXCEPT !.value = v]
<1>1. IsEntity(S.ent[f])
  BY DEF IsMem
<1>2. /\ IsEntity(e) /\ e.obj = S.ent[f].obj /\ e.off = S.ent[f].off /\ e.size = S.ent[f].size
      /\ e.value = v
  BY <1>1 DEF IsEntity, Entity
<1>3. T.ent = [S.ent EXCEPT ![f] = e]
  OBVIOUS
<1> HIDE DEF e
<1>4. /\ DOMAIN T.ent = DOMAIN S.ent /\ T.ent[f] = e
      /\ \A i \in DOMAIN S.ent \ {f} : T.ent[i] = S.ent[i]
  BY <1>3
<1>5. \A i \in DOMAIN T.ent : IsEntity(T.ent[i])
  BY <1>2, <1>4 DEF IsMem
<1>6. ASSUME NEW o \in Obj PROVE T.arena[o] = ArenaOf(T.ent, o)
  <2>1. Item(e, f) = Item(S.ent[f], f)
    BY <1>2 DEF Item
  <2>2. ArenaOf(T.ent, o) = IF o = e.obj THEN (ArenaOf(S.ent, o) \ {Item(S.ent[f], f)}) \cup {Item(e, f)}
                            ELSE ArenaOf(S.ent, o)
    <3> DEFINE ent == S.ent
               new == T.ent
    <3>1. /\ f \in DOMAIN ent /\ e.obj = ent[f].obj /\ DOMAIN new = DOMAIN ent /\ new[f] = e
          /\ \A i \in DOMAIN ent \ {f} : new[i] = ent[i]
      BY <1>2, <1>4
    <3> HIDE DEF ent, new
    <3>2. ArenaOf(new, o) = IF o = e.obj THEN (ArenaOf(ent, o) \ {Item(ent[f], f)}) \cup {Item(e, f)}
                            ELSE ArenaOf(ent, o)
      BY <3>1, ArenaReplace
    <3> QED
      BY <3>2 DEF ent, new
  <2>3. o = e.obj => Item(S.ent[f], f) \in ArenaOf(S.ent, o)
    BY <1>2, ItemFacts
  <2>4. S.arena[o] = ArenaOf(S.ent, o)
    BY DEF IsMem
  <2>5. CASE o = e.obj
    <3>1. ArenaOf(T.ent, o) = ArenaOf(S.ent, o)
      BY <2>1, <2>2, <2>3, <2>5
    <3> QED
      BY <2>4, <3>1
  <2>6. CASE o # e.obj
    BY <2>2, <2>4, <2>6
  <2> QED
    BY <2>5, <2>6
<1>7. T.used = UsersOf(T.ent)
  <2>1. S.used = UsersOf(S.ent)
    BY DEF IsMem
  <2>2. ASSUME NEW x \in T.used PROVE x \in UsersOf(T.ent)
    <3>1. CASE x \in S.used \ {<<S.ent[f].value, f>>}
      <4>1. PICK i \in DOMAIN S.ent : S.ent[i].value \in Ptr /\ x = <<S.ent[i].value, i>>
        BY <2>1, <3>1 DEF UsersOf
      <4>2. i # f
        BY <3>1, <4>1
      <4> QED
        BY <1>4, <4>1, <4>2 DEF UsersOf
    <3>2. CASE v \in Ptr /\ x = <<v, f>>
      BY <1>2, <1>4, <3>2 DEF UsersOf
    <3> QED
      BY <3>1, <3>2
  <2>3. ASSUME NEW x \in UsersOf(T.ent) PROVE x \in T.used
    <3>1. PICK i \in DOMAIN T.ent : T.ent[i].value \in Ptr /\ x = <<T.ent[i].value, i>>
      BY DEF UsersOf
    <3>2. CASE i = f
      BY <1>2, <1>4, <3>1, <3>2
    <3>3. CASE i # f
      <4>1. x \in S.used /\ x # <<S.ent[f].value, f>>
        BY <1>4, <2>1, <3>1, <3>3 DEF UsersOf
      <4> QED
        BY <4>1
    <3> QED
      BY <3>2, <3>3
  <2> QED
    BY <2>2, <2>3
<1> QED
  BY <1>4, <1>5, <1>6, <1>7 DEF IsMem

(* A field or a block is removed. *)
LEMMA RemoveMem ==
  ASSUME NEW S, IsMem(S), NEW f \in DOMAIN S.ent, NEW T, DOMAIN T = DOMAIN S,
         T.ent = [i \in DOMAIN S.ent \ {f} |-> S.ent[i]], T.live \subseteq DOMAIN S.ent \ {f},
         T.arena = [S.arena EXCEPT ![S.ent[f].obj] =
                      sub(@, S.ent[f].off, S.ent[f].off + S.ent[f].size, f)],
         T.used = S.used \ {<<S.ent[f].value, f>>}
  PROVE  IsMem(T)
<1> DEFINE e == S.ent[f]
<1>1. DOMAIN T.ent = DOMAIN S.ent \ {f} /\ \A i \in DOMAIN T.ent : T.ent[i] = S.ent[i]
  OBVIOUS
<1>2. BoundedIds(DOMAIN T.ent) /\ \A i \in DOMAIN T.ent : IsEntity(T.ent[i])
  BY <1>1 DEF IsMem, BoundedIds
<1>3. e.obj \in Obj /\ e.off \in Nat /\ e.size \in Nat /\ e.size > 0 /\ DOMAIN S.arena = Obj
  BY EntityFacts DEF IsMem
<1>4. ASSUME NEW o \in Obj PROVE T.arena[o] = ArenaOf(T.ent, o)
  <2>1. ArenaOf(T.ent, o) = ArenaOf(S.ent, o) \ {Item(e, f)}
    <3> DEFINE ent == S.ent
               new == T.ent
    <3>1. f \in DOMAIN ent /\ new = [i \in DOMAIN ent \ {f} |-> ent[i]]
      OBVIOUS
    <3> HIDE DEF ent, new
    <3>2. ArenaOf(new, o) = ArenaOf(ent, o) \ {Item(ent[f], f)}
      BY <3>1, ArenaRemove
    <3> QED
      BY <3>2 DEF ent, new
  <2>2. S.arena[o] = ArenaOf(S.ent, o)
    BY DEF IsMem
  <2>3. CASE o = e.obj
    <3>1. T.arena[o] = sub(S.arena[o], e.off, e.off + e.size, f)
      BY <1>3, <2>3
    <3>2. /\ <<e.off, e.off + e.size, f>> \in S.arena[o]
          /\ \A x \in S.arena[o] : x[3] = f => x = <<e.off, e.off + e.size, f>>
      BY <2>2, <2>3, ItemFacts DEF Item
    <3>3. e.off \in Int /\ e.off + e.size \in Int /\ e.off < e.off + e.size
      BY <1>3
    <3>4. sub(S.arena[o], e.off, e.off + e.size, f) = S.arena[o] \ {<<e.off, e.off + e.size, f>>}
      BY <3>2, <3>3, SubWhole
    <3> QED
      BY <2>1, <2>2, <3>1, <3>4 DEF Item
  <2>4. CASE o # e.obj
    <3>1. T.arena[o] = S.arena[o]
      BY <1>3, <2>4
    <3>2. Item(e, f) \notin ArenaOf(S.ent, o)
      <4> SUFFICES ASSUME Item(e, f) \in ArenaOf(S.ent, o) PROVE FALSE
        OBVIOUS
      <4>1. PICK i \in DOMAIN S.ent : S.ent[i].obj = o /\ Item(e, f) = Item(S.ent[i], i)
        BY DEF ArenaOf
      <4>2. i = f
        BY <4>1 DEF Item
      <4> QED
        BY <2>4, <4>1, <4>2
    <3> QED
      BY <2>1, <2>2, <3>1, <3>2
  <2> QED
    BY <2>3, <2>4
<1>5. T.used = UsersOf(T.ent)
  <2>1. S.used = UsersOf(S.ent)
    BY DEF IsMem
  <2>2. ASSUME NEW x \in T.used PROVE x \in UsersOf(T.ent)
    <3>1. PICK i \in DOMAIN S.ent : S.ent[i].value \in Ptr /\ x = <<S.ent[i].value, i>>
      BY <2>1 DEF UsersOf
    <3>2. i # f
      BY <2>2, <3>1
    <3> QED
      BY <1>1, <3>1, <3>2 DEF UsersOf
  <2>3. ASSUME NEW x \in UsersOf(T.ent) PROVE x \in T.used
    <3>1. PICK i \in DOMAIN T.ent : T.ent[i].value \in Ptr /\ x = <<T.ent[i].value, i>>
      BY DEF UsersOf
    <3>2. x \in S.used /\ x # <<S.ent[f].value, f>>
      BY <1>1, <2>1, <3>1 DEF UsersOf
    <3> QED
      BY <3>2
  <2> QED
    BY <2>2, <2>3
<1>6. DOMAIN T.arena = Obj
  BY <1>3
<1> QED
  BY <1>1, <1>2, <1>4, <1>5, <1>6 DEF IsMem

(* A block loses bytes at its begin or at its end. *)
LEMMA ResizeMem ==
  ASSUME NEW S, IsMem(S), NEW f \in DOMAIN S.ent, S.ent[f].code = "uniform",
         NEW e, IsEntity(e), e.code = "uniform", e.obj = S.ent[f].obj,
         NEW beg \in Int, NEW end \in Int,
         \/ /\ e.off = S.ent[f].off /\ e.size < S.ent[f].size
            /\ beg = e.off + e.size /\ end = S.ent[f].off + S.ent[f].size
         \/ /\ S.ent[f].off < e.off /\ e.off + e.size = S.ent[f].off + S.ent[f].size
            /\ beg = S.ent[f].off /\ end = e.off,
         NEW T, DOMAIN T = DOMAIN S, T.ent = [S.ent EXCEPT ![f] = e],
         T.live \subseteq DOMAIN S.ent, T.used = S.used,
         T.arena = [S.arena EXCEPT ![e.obj] = sub(@, beg, end, f)]
  PROVE  IsMem(T)
<1> DEFINE b == S.ent[f]
<1>1. /\ DOMAIN T.ent = DOMAIN S.ent /\ T.ent[f] = e
      /\ \A i \in DOMAIN S.ent \ {f} : T.ent[i] = S.ent[i]
  OBVIOUS
<1>2. /\ b.obj \in Obj /\ b.off \in Nat /\ b.size \in Nat /\ b.size > 0 /\ DOMAIN S.arena = Obj
      /\ e.off \in Nat /\ e.size \in Nat /\ e.size > 0 /\ e.obj \in Obj
  BY EntityFacts DEF IsMem
<1>3. ASSUME NEW o \in Obj PROVE T.arena[o] = ArenaOf(T.ent, o)
  <2>1. ArenaOf(T.ent, o) = IF o = e.obj THEN (ArenaOf(S.ent, o) \ {Item(b, f)}) \cup {Item(e, f)}
                            ELSE ArenaOf(S.ent, o)
    <3> DEFINE ent == S.ent
               new == T.ent
    <3>1. /\ f \in DOMAIN ent /\ e.obj = ent[f].obj /\ DOMAIN new = DOMAIN ent /\ new[f] = e
          /\ \A i \in DOMAIN ent \ {f} : new[i] = ent[i]
      BY <1>1
    <3> HIDE DEF ent, new
    <3>2. ArenaOf(new, o) = IF o = e.obj THEN (ArenaOf(ent, o) \ {Item(ent[f], f)}) \cup {Item(e, f)}
                            ELSE ArenaOf(ent, o)
      BY <3>1, ArenaReplace
    <3> QED
      BY <3>2 DEF ent, new
  <2>2. S.arena[o] = ArenaOf(S.ent, o)
    BY DEF IsMem
  <2>3. CASE o = e.obj
    <3> DEFINE A == S.arena[o]
               c == b.off + b.size
    <3>1. T.arena[o] = sub(A, beg, end, f)
      BY <1>2, <2>3
    <3>2. <<b.off, c, f>> \in A /\ \A x \in A : x[3] = f => x = <<b.off, c, f>>
      BY <2>2, <2>3, ItemFacts DEF Item
    <3>3. b.off \in Int /\ c \in Int
      BY <1>2
    <3> HIDE DEF A, c
    <3>4. sub(A, beg, end, f) = (A \ {<<b.off, c, f>>}) \cup {<<e.off, e.off + e.size, f>>}
      <4>1. CASE e.off = b.off /\ e.size < b.size /\ beg = e.off + e.size /\ end = b.off + b.size
        <5>1. b.off < beg /\ beg < c /\ end = c
          BY <1>2, <4>1 DEF c
        <5>2. sub(A, beg, c, f) = (A \ {<<b.off, c, f>>}) \cup {<<b.off, beg, f>>}
          BY <3>2, <3>3, <5>1, SubTail, SMTT(30)
        <5> QED
          BY <4>1, <5>1, <5>2
      <4>2. CASE b.off < e.off /\ e.off + e.size = b.off + b.size /\ beg = b.off /\ end = e.off
        <5>1. b.off < end /\ end < c /\ e.off + e.size = c
          BY <1>2, <4>2 DEF c
        <5>2. sub(A, b.off, end, f) = (A \ {<<b.off, c, f>>}) \cup {<<end, c, f>>}
          BY <3>2, <3>3, <5>1, SubHead, SMTT(30)
        <5> QED
          BY <4>2, <5>1, <5>2
      <4> QED
        BY <4>1, <4>2
    <3> QED
      BY <2>1, <2>2, <2>3, <3>1, <3>4 DEF Item, A, c
  <2>4. CASE o # e.obj
    BY <1>2, <2>1, <2>2, <2>4
  <2> QED
    BY <2>3, <2>4
<1>4. b.value \notin Ptr /\ e.value \notin Ptr
  BY RegionAssumption DEF IsMem, IsEntity
<1>5. UsersOf(T.ent) = UsersOf(S.ent)
  <2>1. ASSUME NEW x \in UsersOf(T.ent) PROVE x \in UsersOf(S.ent)
    <3>1. PICK i \in DOMAIN T.ent : T.ent[i].value \in Ptr /\ x = <<T.ent[i].value, i>>
      BY DEF UsersOf
    <3>2. i # f
      BY <1>1, <1>4, <3>1
    <3> QED
      BY <1>1, <3>1, <3>2 DEF UsersOf
  <2>2. ASSUME NEW x \in UsersOf(S.ent) PROVE x \in UsersOf(T.ent)
    <3>1. PICK i \in DOMAIN S.ent : S.ent[i].value \in Ptr /\ x = <<S.ent[i].value, i>>
      BY DEF UsersOf
    <3>2. i # f
      BY <1>4, <3>1
    <3> QED
      BY <1>1, <3>1, <3>2 DEF UsersOf
  <2> QED
    BY <2>1, <2>2
<1>6. \A i \in DOMAIN T.ent : IsEntity(T.ent[i])
  BY <1>1 DEF IsMem
<1>7. DOMAIN T.arena = Obj
  BY <1>2
<1> QED
  BY <1>1, <1>3, <1>5, <1>6, <1>7 DEF IsMem

LEMMA InsertFacts ==
  ASSUME NEW S, IsMem(S), NEW e, IsEntity(e), e.value \notin Ptr
  PROVE  LET n == NewId(S)
             T == Insert(S, e)
         IN  /\ IsMem(T) /\ n \in Nat \ {0} /\ n \notin DOMAIN S.ent
             /\ DOMAIN T.ent = DOMAIN S.ent \cup {n} /\ T.ent[n] = e
             /\ \A i \in DOMAIN S.ent : T.ent[i] = S.ent[i]
             /\ T.live = S.live
<1> DEFINE n == NewId(S)
           T == Insert(S, e)
           ent == S.ent
<1>1. n \in Nat \ {0} /\ n \notin DOMAIN ent
  BY NewIdFacts DEF IsMem
<1>2. e.obj \in Obj /\ DOMAIN S.arena = Obj /\ DOMAIN S = {"ent", "live", "used", "arena"}
  BY EntityFacts DEF IsMem
<1>3. /\ DOMAIN T = DOMAIN S /\ T.ent = [i \in DOMAIN ent \cup {n} |-> IF i = n THEN e ELSE ent[i]]
      /\ T.live = S.live /\ T.used = S.used
      /\ T.arena = [S.arena EXCEPT ![e.obj] = add(@, e.off, e.off + e.size, n)]
  BY <1>2 DEF Insert, Ids
<1> HIDE DEF n, T
<1>4. DOMAIN T.ent = DOMAIN ent \cup {n} /\ T.ent[n] = e /\ \A i \in DOMAIN ent : T.ent[i] = ent[i]
  BY <1>1, <1>3
<1>5. BoundedIds(DOMAIN T.ent)
  <2>1. BoundedIds(DOMAIN ent)
    BY DEF IsMem
  <2>2. PICK m \in Nat : \A i \in DOMAIN ent : i <= m
    BY <2>1 DEF BoundedIds
  <2>3. DOMAIN ent \subseteq Nat \ {0}
    BY <2>1 DEF BoundedIds
  <2>4. \A i \in DOMAIN ent \cup {n} : i <= m + n
    BY <1>1, <2>2, <2>3
  <2>5. m + n \in Nat
    BY <1>1
  <2> QED
    BY <1>1, <1>4, <2>3, <2>4, <2>5 DEF BoundedIds
<1>6. \A i \in DOMAIN T.ent : IsEntity(T.ent[i])
  BY <1>4 DEF IsMem
<1>7. ASSUME NEW o \in Obj PROVE T.arena[o] = ArenaOf(T.ent, o)
  <2> DEFINE new == T.ent
  <2>1. S.arena[o] = ArenaOf(ent, o)
    BY DEF IsMem
  <2>2. DOMAIN new = DOMAIN ent \cup {n} /\ new[n] = e /\ \A i \in DOMAIN ent : new[i] = ent[i]
    BY <1>4
  <2>3. T.arena[o] = IF o = e.obj THEN S.arena[o] \cup {Item(e, n)} ELSE S.arena[o]
    BY <1>2, <1>3 DEF add, Item
  <2> HIDE DEF ent, new
  <2>4. ArenaOf(new, o) = IF o = e.obj THEN ArenaOf(ent, o) \cup {Item(e, n)} ELSE ArenaOf(ent, o)
    BY <1>1, <2>2, ArenaInsert
  <2> QED
    BY <2>1, <2>3, <2>4 DEF new
<1>8. UsersOf(T.ent) = UsersOf(ent)
  <2>1. ASSUME NEW x \in UsersOf(T.ent) PROVE x \in UsersOf(ent)
    <3>1. PICK i \in DOMAIN T.ent : T.ent[i].value \in Ptr /\ x = <<T.ent[i].value, i>>
      BY DEF UsersOf
    <3>2. i \in DOMAIN ent
      BY <1>4, <3>1
    <3> QED
      BY <1>4, <3>1, <3>2 DEF UsersOf
  <2>2. ASSUME NEW x \in UsersOf(ent) PROVE x \in UsersOf(T.ent)
    BY <1>4 DEF UsersOf
  <2> QED
    BY <2>1, <2>2
<1>9. T.used = UsersOf(T.ent) /\ T.live \subseteq DOMAIN T.ent /\ DOMAIN T.arena = Obj
  BY <1>2, <1>3, <1>4, <1>8 DEF IsMem
<1>10. IsMem(T)
  BY <1>2, <1>3, <1>5, <1>6, <1>7, <1>9 DEF IsMem
<1> QED
  BY <1>1, <1>3, <1>4, <1>10 DEF n, T

(* Two fields or blocks of an object that share no bytes. *)
Apart(e, h) == e.off + e.size <= h.off \/ h.off + h.size <= e.off

(* What is left of a block when room is made for a field or another block. *)
PieceOf(e, b) ==
  /\ e.code = b.code /\ e.obj = b.obj /\ e.value = b.value
  /\ b.off <= e.off /\ e.off + e.size <= b.off + b.size
Left(e, b, h) ==
  /\ PieceOf(e, b)
  /\ Apart(e, h) \/ (e = b /\ h.code = "field" /\ h.value = b.value)

(* Of old, the parts T holds are right with respect to the new contents h. *)
OthersKept(S, T, old) ==
  \A i \in DOMAIN S.ent \ {old} : i \in DOMAIN T.ent /\ T.ent[i] = S.ent[i]
Remains(S, T, old) == DOMAIN T.ent \ (DOMAIN S.ent \ {old})

LEMMA SplitFacts ==
  ASSUME NEW S, IsMem(S), NEW block \in DOMAIN S.ent, NEW fld \in DOMAIN S.ent,
         S.ent[block].code = "uniform", S.ent[fld].obj = S.ent[block].obj,
         ~Apart(S.ent[block], S.ent[fld])
  PROVE  LET T == splitBlockByObject(S, block, fld)
         IN  /\ IsMem(T) /\ OthersKept(S, T, block)
             /\ \A i \in Remains(S, T, block) : Left(T.ent[i], S.ent[block], S.ent[fld])
             /\ \A i, j \in Remains(S, T, block) : i # j => Apart(T.ent[i], T.ent[j])
<1> DEFINE b == S.ent[block]
           h == S.ent[fld]
           pre == h.off - b.off
           post == b.size - h.size - pre
           T == splitBlockByObject(S, block, fld)
           agree == h.code = "field" /\ b.value = h.value
<1>1. IsEntity(b) /\ IsEntity(h)
  BY DEF IsMem
<1>2. /\ b.off \in Nat /\ b.size \in Nat /\ b.size > 0 /\ b.off + b.size <= Size
      /\ h.off \in Nat /\ h.size \in Nat /\ h.size > 0
      /\ DOMAIN b = {"code", "obj", "off", "size", "type", "value"} /\ b.obj \in Obj
      /\ b \in Entity /\ b.value \in {"null", "undef"}
  BY <1>1, EntityFacts DEF IsEntity
<1>3. DOMAIN S = {"ent", "live", "used", "arena"} /\ S.live \subseteq DOMAIN S.ent /\ DOMAIN S.arena = Obj
  BY DEF IsMem
<1>4. pre \in Int /\ post \in Int /\ post = (b.off + b.size) - (h.off + h.size)
  BY <1>2
<1>5. b.off < h.off + h.size /\ h.off < b.off + b.size
  BY <1>2 DEF Apart
<1>6. b.value \notin Ptr /\ Size \in Nat
  BY <1>2, RegionAssumption
<1>7. CASE agree
  <2>1. T = S
    BY <1>7 DEF splitBlockByObject
  <2>2. Remains(S, T, block) = {block}
    BY <2>1 DEF Remains
  <2>3. Left(T.ent[block], b, h)
    BY <1>2, <1>7, <2>1 DEF Left, PieceOf
  <2> QED
    BY <2>1, <2>2, <2>3 DEF OthersKept
<1>8. CASE ~agree /\ pre <= 0 /\ post <= 0
  <2>1. T = Destroy(S, block)
    <3>1. ~(pre > 0)
      BY <1>4, <1>8
    <3> QED
      BY <1>8, <3>1 DEF splitBlockByObject
  <2>2. /\ DOMAIN T = DOMAIN S /\ T.ent = [i \in DOMAIN S.ent \ {block} |-> S.ent[i]]
        /\ T.live = S.live \ {block} /\ T.used = S.used
        /\ T.arena = [S.arena EXCEPT ![b.obj] = sub(@, b.off, b.off + b.size, block)]
    BY <1>3, <2>1 DEF Destroy, Ids
  <2>3. <<b.value, block>> \notin S.used
    BY <1>6 DEF IsMem, UsersOf
  <2>4. IsMem(T)
    BY <1>3, <2>2, <2>3, RemoveMem
  <2>5. Remains(S, T, block) = {}
    BY <2>2 DEF Remains
  <2> QED
    BY <2>2, <2>4, <2>5 DEF OthersKept
<1>9. CASE ~agree /\ pre > 0 /\ post > 0
  <2> DEFINE e1 == [b EXCEPT !.size = pre]
             e2 == [b EXCEPT !.off = h.off + h.size, !.size = post]
             n == NewId(S)
             T1 == [S EXCEPT !.ent[block].size = pre,
                             !.arena[b.obj] = sub(@, b.off + pre, b.off + b.size, block)]
  <2>1. T = [Insert(T1, e2) EXCEPT !.live = @ \cup {n}]
    <3>1. ~(pre <= 0)
      BY <1>4, <1>9
    <3> QED
      BY <1>9, <3>1 DEF splitBlockByObject
  <2>2. /\ e1 \in Entity /\ e1.code = "uniform" /\ e1.obj = b.obj /\ e1.off = b.off /\ e1.size = pre
        /\ e1.value = b.value
    <3>1. pre \in Nat
      BY <1>4, <1>9
    <3> HIDE DEF pre
    <3> QED
      BY <1>2, <3>1 DEF Entity
  <2>3. /\ e2 \in Entity /\ e2.code = "uniform" /\ e2.obj = b.obj /\ e2.off = h.off + h.size
        /\ e2.size = post /\ e2.value = b.value
    <3> DEFINE off == h.off + h.size
    <3>1. post \in Nat /\ off \in Nat
      BY <1>2, <1>4, <1>9
    <3> HIDE DEF post, off
    <3>2. e2 = [b EXCEPT !.off = off, !.size = post]
      BY DEF off
    <3> HIDE DEF e2
    <3>3. /\ e2 \in Entity /\ e2.code = "uniform" /\ e2.obj = b.obj /\ e2.off = off
          /\ e2.size = post /\ e2.value = b.value
      BY <1>2, <3>1, <3>2 DEF Entity
    <3> QED
      BY <3>3 DEF off
  <2>4. /\ DOMAIN T1 = DOMAIN S /\ T1.ent = [S.ent EXCEPT ![block] = e1]
        /\ T1.live = S.live /\ T1.used = S.used
        /\ T1.arena = [S.arena EXCEPT ![b.obj] = sub(@, b.off + pre, b.off + b.size, block)]
    BY <1>3
  <2> HIDE DEF e1, e2, T1
  <2>5. IsEntity(e1) /\ IsEntity(e2)
    BY <1>2, <1>4, <1>5, <1>6, <1>9, <2>2, <2>3 DEF IsEntity
  <2>6. IsMem(T1)
    <3> DEFINE beg == b.off + pre
               end == b.off + b.size
    <3>1. /\ beg \in Int /\ end \in Int /\ e1.size < b.size /\ beg = e1.off + e1.size
      BY <1>2, <1>4, <1>5, <1>9, <2>2
    <3>2. T1.arena = [S.arena EXCEPT ![e1.obj] = sub(@, beg, end, block)]
      BY <2>2, <2>4
    <3>3. T1.live \subseteq DOMAIN S.ent /\ end = b.off + b.size
      BY <1>3, <2>4
    <3> HIDE DEF beg, end
    <3> QED
      BY <2>2, <2>4, <2>5, <3>1, <3>2, <3>3, ResizeMem
  <2>7. /\ DOMAIN T1.ent = DOMAIN S.ent /\ T1.ent[block] = e1
        /\ \A i \in DOMAIN S.ent \ {block} : T1.ent[i] = S.ent[i]
    BY <2>4
  <2>8. NewId(T1) = n
    BY <2>7 DEF NewId, LastId, Ids
  <2> DEFINE T2 == Insert(T1, e2)
  <2>9. /\ IsMem(T2) /\ n \notin DOMAIN S.ent /\ DOMAIN T2.ent = DOMAIN S.ent \cup {n}
        /\ T2.ent[n] = e2 /\ \A i \in DOMAIN S.ent : T2.ent[i] = T1.ent[i]
    BY <1>6, <2>3, <2>5, <2>6, <2>7, <2>8, InsertFacts
  <2> HIDE DEF T2, n
  <2>10. T2.live \cup {n} \subseteq DOMAIN T2.ent
    BY <2>9 DEF IsMem
  <2>11. IsMem(T) /\ T.ent = T2.ent
    BY <2>1, <2>9, <2>10, LiveMem DEF T2
  <2>12. Remains(S, T, block) = {block, n}
    BY <2>9, <2>11 DEF Remains
  <2>13. OthersKept(S, T, block)
    BY <2>7, <2>9, <2>11 DEF OthersKept
  <2>14. T.ent[block] = e1 /\ T.ent[n] = e2
    BY <2>7, <2>9, <2>11
  <2>15. Left(e1, b, h) /\ Left(e2, b, h) /\ Apart(e1, e2) /\ Apart(e2, e1)
    BY <1>2, <1>4, <1>5, <1>9, <2>2, <2>3 DEF Left, PieceOf, Apart
  <2> QED
    BY <2>11, <2>12, <2>13, <2>14, <2>15
<1>10. CASE ~agree /\ pre <= 0 /\ post > 0
  <2> DEFINE trim == h.size + pre
             beg == b.off
             off == b.off + trim
             size == b.size - trim
             end == beg + trim
             e == [b EXCEPT !.size = size, !.off = off]
  <2>1. T = [S EXCEPT !.ent[block].size = @ - trim, !.ent[block].off = @ + trim,
                      !.arena[b.obj] = sub(@, beg, beg + trim, block)]
    <3>1. pre <= 0 /\ ~(post <= 0) /\ ~(pre > 0)
      BY <1>4, <1>10
    <3> QED
      BY <1>10, <3>1 DEF splitBlockByObject
  <2>2. trim \in Int /\ beg \in Int /\ end \in Int /\ off \in Nat /\ size \in Nat /\ size > 0
    BY <1>2, <1>4, <1>5, <1>10
  <2>3. /\ DOMAIN T = DOMAIN S /\ T.ent = [S.ent EXCEPT ![block] = e]
        /\ T.live = S.live /\ T.used = S.used
        /\ T.arena = [S.arena EXCEPT ![b.obj] = sub(@, beg, end, block)]
    BY <1>2, <1>3, <2>1
  <2>4. /\ e.code = "uniform" /\ e.obj = b.obj /\ e.value = b.value /\ e.type = b.type
        /\ e.off = off /\ e.size = size
    BY <1>2
  <2>5. off + size <= Size /\ b.off <= off /\ off + size <= b.off + b.size
    BY <1>2, <1>4, <1>5, <1>6, <1>10
  <2>6. b.off < off /\ off + size = b.off + b.size /\ beg = b.off /\ end = off /\ h.off + h.size <= off
    BY <1>2, <1>4, <1>5, <1>10
  <2>7. e \in Entity
    BY <1>2, <2>2 DEF Entity
  <2> HIDE DEF e, beg, end, off, size, trim, T
  <2>8. IsEntity(e)
    BY <1>2, <2>2, <2>4, <2>5, <2>7 DEF IsEntity
  <2>9. b.off < e.off /\ e.off + e.size = b.off + b.size /\ beg = b.off /\ end = e.off
    BY <2>4, <2>6
  <2>10. T.live \subseteq DOMAIN S.ent /\ T.arena = [S.arena EXCEPT ![e.obj] = sub(@, beg, end, block)]
    BY <1>3, <2>3, <2>4
  <2>11. IsMem(T)
    BY <2>2, <2>3, <2>4, <2>8, <2>9, <2>10, ResizeMem
  <2>12. Remains(S, T, block) = {block} /\ OthersKept(S, T, block) /\ T.ent[block] = e
    BY <2>3 DEF Remains, OthersKept
  <2>13. Left(e, b, h)
    BY <1>2, <2>4, <2>5, <2>6 DEF Left, PieceOf, Apart
  <2> QED
    BY <2>11, <2>12, <2>13 DEF T
<1>11. CASE ~agree /\ pre > 0 /\ post <= 0
  <2> DEFINE trim == b.size - pre
             beg == h.off
             off == b.off
             size == b.size - trim
             end == beg + trim
             e == [b EXCEPT !.size = size, !.off = off]
  <2>1. T = [S EXCEPT !.ent[block].size = @ - trim, !.ent[block].off = @,
                      !.arena[b.obj] = sub(@, beg, beg + trim, block)]
    <3>1. ~(pre <= 0) /\ ~(post > 0)
      BY <1>4, <1>11
    <3> QED
      BY <1>11, <3>1 DEF splitBlockByObject
  <2>2. trim \in Int /\ beg \in Int /\ end \in Int /\ off \in Nat /\ size \in Nat /\ size > 0
    BY <1>2, <1>4, <1>5, <1>11
  <2>3. /\ DOMAIN T = DOMAIN S /\ T.ent = [S.ent EXCEPT ![block] = e]
        /\ T.live = S.live /\ T.used = S.used
        /\ T.arena = [S.arena EXCEPT ![b.obj] = sub(@, beg, end, block)]
    BY <1>2, <1>3, <2>1
  <2>4. /\ e.code = "uniform" /\ e.obj = b.obj /\ e.value = b.value /\ e.type = b.type
        /\ e.off = off /\ e.size = size
    BY <1>2
  <2>5. off + size <= Size /\ b.off <= off /\ off + size <= b.off + b.size
    BY <1>2, <1>4, <1>5, <1>6, <1>11
  <2>6. off = b.off /\ size < b.size /\ beg = off + size /\ end = b.off + b.size /\ off + size <= h.off
    BY <1>2, <1>4, <1>5, <1>11
  <2>7. e \in Entity
    BY <1>2, <2>2 DEF Entity
  <2> HIDE DEF e, beg, end, off, size, trim, T
  <2>8. IsEntity(e)
    BY <1>2, <2>2, <2>4, <2>5, <2>7 DEF IsEntity
  <2>9. e.off = b.off /\ e.size < b.size /\ beg = e.off + e.size /\ end = b.off + b.size
    BY <2>4, <2>6
  <2>10. T.live \subseteq DOMAIN S.ent /\ T.arena = [S.arena EXCEPT ![e.obj] = sub(@, beg, end, block)]
    BY <1>3, <2>3, <2>4
  <2>11. IsMem(T)
    BY <2>2, <2>3, <2>4, <2>8, <2>9, <2>10, ResizeMem
  <2>12. Remains(S, T, block) = {block} /\ OthersKept(S, T, block) /\ T.ent[block] = e
    BY <2>3 DEF Remains, OthersKept
  <2>13. Left(e, b, h)
    BY <1>2, <2>4, <2>5, <2>6 DEF Left, PieceOf, Apart
  <2> QED
    BY <2>11, <2>12, <2>13 DEF T
<1> QED
  BY <1>4, <1>7, <1>8, <1>9, <1>10, <1>11

(* What has become of an overwritten field or block. *)
Settled(e, f, b, old, h, keep) ==
  IF b.code = "uniform" THEN Left(e, b, h)
  ELSE f = old /\ old \in keep /\ e = [b EXCEPT !.value = reinterpreted(b, h)]

LEMMA ReinterpretedValue ==
  ASSUME NEW e, NEW h, IsEntity(h)
  PROVE  reinterpreted(e, h) \in Value
<1>1. h.value \in Value
  BY EntityFacts
<1> QED
  BY <1>1 DEF reinterpreted, Value

LEMMA ReinterpretFacts ==
  ASSUME NEW S, IsMem(S), NEW old \in DOMAIN S.ent, NEW fld \in DOMAIN S.ent, NEW keep,
         S.ent[fld].obj = S.ent[old].obj,
         S.ent[old].code = "uniform" => ~Apart(S.ent[old], S.ent[fld])
  PROVE  LET T == reinterpretObjData(S, old, fld, keep)
         IN  /\ IsMem(T) /\ OthersKept(S, T, old)
             /\ \A i \in Remains(S, T, old) :
                  Settled(T.ent[i], i, S.ent[old], old, S.ent[fld], keep)
             /\ \A i, j \in Remains(S, T, old) : i # j => Apart(T.ent[i], T.ent[j])
             /\ S.ent[old].code = "field" /\ old \in keep => old \in Remains(S, T, old)
<1> DEFINE b == S.ent[old]
           h == S.ent[fld]
           v == reinterpreted(b, h)
           R == [releaseValueOf(S, old) EXCEPT !.live = @ \ {old}]
           T == reinterpretObjData(S, old, fld, keep)
<1>1. IsEntity(b) /\ IsEntity(h) /\ b.code \in {"field", "uniform"} /\ v \in Value
  BY EntityFacts, ReinterpretedValue DEF IsMem
<1>2. /\ DOMAIN S = {"ent", "live", "used", "arena"} /\ S.live \subseteq DOMAIN S.ent
      /\ DOMAIN b = {"code", "obj", "off", "size", "type", "value"}
  BY <1>1, EntityFacts DEF IsMem
<1>3. /\ DOMAIN R = DOMAIN S /\ R.ent = S.ent /\ R.live = S.live \ {old} /\ R.arena = S.arena
      /\ R.used = S.used \ {<<b.value, old>>}
  BY <1>2 DEF releaseValueOf
<1> HIDE DEF R
<1>4. CASE b.code = "uniform"
  <2>1. T = splitBlockByObject(S, old, fld)
    BY <1>4 DEF reinterpretObjData, IsUniform
  <2> QED
    BY <1>4, <2>1, SplitFacts DEF Settled
<1>5. CASE b.code = "field" /\ old \notin keep
  <2>1. T = Destroy(R, old)
    BY <1>5 DEF reinterpretObjData, IsUniform, R
  <2>2. /\ DOMAIN T = DOMAIN S /\ T.ent = [i \in DOMAIN S.ent \ {old} |-> S.ent[i]]
        /\ T.live \subseteq DOMAIN S.ent \ {old} /\ T.used = S.used \ {<<b.value, old>>}
        /\ T.arena = [S.arena EXCEPT ![b.obj] = sub(@, b.off, b.off + b.size, old)]
    BY <1>2, <1>3, <2>1 DEF Destroy, Ids
  <2> HIDE DEF T
  <2>3. IsMem(T)
    BY <2>2, RemoveMem
  <2>4. Remains(S, T, old) = {} /\ OthersKept(S, T, old)
    BY <2>2 DEF Remains, OthersKept
  <2> QED
    BY <1>5, <2>3, <2>4 DEF T
<1>6. CASE b.code = "field" /\ old \in keep
  <2>1. T = registerValueOf(R, old, v)
    BY <1>6 DEF reinterpretObjData, IsUniform, R
  <2> HIDE DEF v
  <2>2. /\ DOMAIN T = DOMAIN S /\ T.ent = [S.ent EXCEPT ![old] = [b EXCEPT !.value = v]]
        /\ T.live \subseteq DOMAIN S.ent /\ T.arena = S.arena
        /\ T.used = (S.used \ {<<b.value, old>>}) \cup (IF v \in Ptr THEN {<<v, old>>} ELSE {})
    BY <1>2, <1>3, <2>1 DEF registerValueOf
  <2> HIDE DEF T
  <2>3. IsMem(T)
    BY <1>1, <1>6, <2>2, RevalueMem
  <2>4. /\ Remains(S, T, old) = {old} /\ OthersKept(S, T, old)
        /\ T.ent[old] = [b EXCEPT !.value = v]
    BY <2>2 DEF Remains, OthersKept
  <2>5. Settled(T.ent[old], old, b, old, h, keep)
    BY <1>6, <2>4 DEF Settled, v
  <2> QED
    BY <2>3, <2>4, <2>5 DEF T
<1> QED
  BY <1>1, <1>4, <1>5, <1>6

LEMMA OverlapsFacts ==
  ASSUME NEW S, IsMem(S), NEW fld \in DOMAIN S.ent, NEW i
  PROVE  i \in Overlaps(S, fld) <=>
           /\ i \in DOMAIN S.ent /\ i # fld
           /\ S.ent[i].obj = S.ent[fld].obj /\ ~Apart(S.ent[i], S.ent[fld])
<1> DEFINE e == S.ent[fld]
           beg == e.off
           end == e.off + e.size
           A == ArenaOf(S.ent, e.obj)
<1>1. /\ e.obj \in Obj /\ e.off \in Nat /\ e.size \in Nat /\ e.size > 0
      /\ \A j \in DOMAIN S.ent : S.ent[j].off \in Nat /\ S.ent[j].size \in Nat
  BY EntityFacts DEF IsMem
<1>2. S.arena[e.obj] = A
  BY <1>1 DEF IsMem
<1>3. i \in Overlaps(S, fld) <=> i # fld /\ \E x \in A : beg < x[2] /\ x[1] < end /\ x[3] = i
  BY <1>2 DEF Overlaps, intersects, Hits
<1>4. ASSUME NEW x \in A, x[3] = i
      PROVE  /\ i \in DOMAIN S.ent /\ S.ent[i].obj = e.obj
             /\ x[1] = S.ent[i].off /\ x[2] = S.ent[i].off + S.ent[i].size
  BY <1>4 DEF ArenaOf, Item
<1>5. ASSUME i \in DOMAIN S.ent, S.ent[i].obj = e.obj
      PROVE  \E x \in A : x[3] = i /\ x[1] = S.ent[i].off /\ x[2] = S.ent[i].off + S.ent[i].size
  <2>1. Item(S.ent[i], i) \in A
    BY <1>5 DEF ArenaOf
  <2> QED
    BY <2>1 DEF Item
<1> HIDE DEF A
<1>6. ASSUME i \in Overlaps(S, fld)
      PROVE  i \in DOMAIN S.ent /\ i # fld /\ S.ent[i].obj = e.obj /\ ~Apart(S.ent[i], e)
  <2>1. PICK x \in A : beg < x[2] /\ x[1] < end /\ x[3] = i
    BY <1>3, <1>6
  <2>2. /\ i \in DOMAIN S.ent /\ S.ent[i].obj = e.obj /\ i # fld
        /\ x[1] = S.ent[i].off /\ x[2] = S.ent[i].off + S.ent[i].size
    BY <1>3, <1>4, <1>6, <2>1
  <2> QED
    BY <1>1, <2>1, <2>2 DEF Apart
<1>7. ASSUME i \in DOMAIN S.ent, i # fld, S.ent[i].obj = e.obj, ~Apart(S.ent[i], e)
      PROVE  i \in Overlaps(S, fld)
  <2>1. PICK x \in A : x[3] = i /\ x[1] = S.ent[i].off /\ x[2] = S.ent[i].off + S.ent[i].size
    BY <1>5, <1>7
  <2>2. beg < x[2] /\ x[1] < end
    BY <1>1, <1>7, <2>1 DEF Apart
  <2> QED
    BY <1>3, <1>7, <2>1, <2>2
<1> QED
  BY <1>6, <1>7

-------------------------------------------------------------------------------
(* Overwriting *)

OverwriteStep(T, i, S, fld, keep) ==
  IF i \in Overlaps(S, fld) THEN reinterpretObjData(T, i, fld, keep) ELSE T

LEMMA OverwriteSteps ==
  ASSUME NEW S, NEW fld, NEW keep, LastId(S) \in Nat
  PROVE  \E d : /\ d[0] = S /\ d[LastId(S)] = Overwrite(S, fld, keep)
                /\ \A i \in 1..LastId(S) : d[i] = OverwriteStep(d[i - 1], i, S, fld, keep)
<1> DEFINE N == LastId(S)
           Step(T, i) == OverwriteStep(T, i, S, fld, keep)
           IsDone(d, n) == d = [i \in 0..n |-> IF i = 0 THEN S ELSE Step(d[i - 1], i)]
           Reached == {n \in Nat : \E d : IsDone(d, n)}
<1> HIDE DEF Step
<1>1. 0 \in Reached
  <2> DEFINE d == [i \in 0..0 |-> S]
  <2>1. IsDone(d, 0)
    OBVIOUS
  <2> QED
    BY <2>1
<1>2. ASSUME NEW n \in Nat, n \in Reached PROVE n + 1 \in Reached
  <2>1. PICK d : IsDone(d, n)
    BY <1>2
  <2> DEFINE c == [i \in 0..n + 1 |-> IF i = n + 1 THEN Step(d[n], n + 1) ELSE d[i]]
  <2>2. \A i \in 0..n : c[i] = d[i] /\ d[i] = IF i = 0 THEN S ELSE Step(d[i - 1], i)
    BY <2>1
  <2>3. c[n + 1] = Step(c[n], n + 1)
    BY <2>2
  <2>4. \A i \in 0..n + 1 : c[i] = IF i = 0 THEN S ELSE Step(c[i - 1], i)
    <3> TAKE i \in 0..n + 1
    <3>1. CASE i = n + 1
      BY <2>3, <3>1
    <3>2. CASE i \in 1..n
      <4>1. i - 1 \in 0..n /\ i \in 0..n /\ i # 0
        BY <3>2
      <4> HIDE DEF c
      <4> QED
        BY <2>2, <4>1
    <3>3. CASE i = 0
      <4>1. 0 \in 0..n
        OBVIOUS
      <4> HIDE DEF c
      <4> QED
        BY <2>2, <3>3, <4>1
    <3> QED
      BY <3>1, <3>2, <3>3
  <2>5. IsDone(c, n + 1)
    <3>1. DOMAIN c = 0..n + 1 /\ c = [i \in 0..n + 1 |-> c[i]]
      OBVIOUS
    <3> HIDE DEF c
    <3> QED
      BY <2>4, <3>1
  <2>6. \E x : IsDone(x, n + 1)
    BY <2>5, Zenon
  <2> HIDE DEF IsDone
  <2> QED
    BY <2>6
<1>3. N \in Reached
  <2> HIDE DEF Reached
  <2>1. Nat \subseteq Reached
    BY <1>1, <1>2, Induction
  <2> QED
    BY <2>1
<1> DEFINE d == CHOOSE d : IsDone(d, N)
<1>4. IsDone(d, N)
  BY <1>3, Zenon
<1>5. Overwrite(S, fld, keep) = d[N]
  BY Zenon DEF Overwrite, Step, OverwriteStep
<1> HIDE DEF d, N
<1>6. d[0] = S /\ \A i \in 1..N : d[i] = Step(d[i - 1], i)
  BY <1>4 DEF N
<1> QED
  BY <1>5, <1>6 DEF N, Step

(* The blocks of an object share no bytes, those of fld aside. *)
BlocksApart(S, fld) ==
  \A i, j \in DOMAIN S.ent \ {fld} :
    /\ i # j /\ S.ent[i].code = "uniform" /\ S.ent[j].code = "uniform"
    /\ S.ent[i].obj = S.ent[j].obj
    => Apart(S.ent[i], S.ent[j])

(* T is S with the ids up to n, of those that fld overlaps, reinterpreted. *)
Awaits(S, fld, n, j) == j \notin Overlaps(S, fld) \/ j > n
Became(e, j, S, fld, keep) ==
  \E old \in Overlaps(S, fld) : Settled(e, j, S.ent[old], old, S.ent[fld], keep)
Overwritten(S, T, fld, keep, n) ==
  /\ IsMem(T) /\ BlocksApart(T, fld)
  /\ \A j \in DOMAIN S.ent : Awaits(S, fld, n, j) => j \in DOMAIN T.ent /\ T.ent[j] = S.ent[j]
  /\ \A j \in DOMAIN T.ent \ {fld} :
        \/ j \in DOMAIN S.ent /\ T.ent[j] = S.ent[j] /\ Awaits(S, fld, n, j)
        \/ Became(T.ent[j], j, S, fld, keep)
  /\ \A j \in keep \cap DOMAIN S.ent :
        S.ent[j].code = "field" => j \in DOMAIN T.ent /\ T.ent[j].code = "field"

LEMMA SettledCode ==
  ASSUME NEW e, NEW f, NEW b, NEW old, NEW h, NEW keep, IsEntity(b), Settled(e, f, b, old, h, keep)
  PROVE  e.code = b.code /\ e.obj = b.obj
<1>1. CASE b.code = "uniform"
  BY <1>1 DEF Settled, Left, PieceOf
<1>2. CASE b.code # "uniform"
  <2>1. DOMAIN b = {"code", "obj", "off", "size", "type", "value"}
    BY EntityFacts
  <2> QED
    BY <1>2, <2>1 DEF Settled
<1> QED
  BY <1>1, <1>2

LEMMA PieceApart ==
  ASSUME NEW e, NEW b, NEW g, IsEntity(e), IsEntity(b), IsEntity(g), PieceOf(e, b), Apart(b, g)
  PROVE  Apart(e, g) /\ Apart(g, e)
<1>1. /\ e.off \in Nat /\ e.size \in Nat /\ b.off \in Nat /\ b.size \in Nat
      /\ g.off \in Nat /\ g.size \in Nat
  BY EntityFacts
<1> QED
  BY <1>1 DEF PieceOf, Apart

LEMMA ReinterpretApart ==
  ASSUME NEW S, NEW T, IsMem(S), IsMem(T), NEW fld, NEW keep, NEW old \in DOMAIN S.ent, old # fld,
         BlocksApart(S, fld), OthersKept(S, T, old), NEW h,
         \A i \in Remains(S, T, old) : Settled(T.ent[i], i, S.ent[old], old, h, keep),
         \A i, j \in Remains(S, T, old) : i # j => Apart(T.ent[i], T.ent[j])
  PROVE  BlocksApart(T, fld)
<1> SUFFICES ASSUME NEW i \in DOMAIN T.ent \ {fld}, NEW j \in DOMAIN T.ent \ {fld}, i # j,
                    T.ent[i].code = "uniform", T.ent[j].code = "uniform", T.ent[i].obj = T.ent[j].obj
             PROVE  Apart(T.ent[i], T.ent[j])
  BY DEF BlocksApart
<1> DEFINE b == S.ent[old]
<1>1. IsEntity(T.ent[i]) /\ IsEntity(T.ent[j]) /\ IsEntity(b)
  BY DEF IsMem
<1>2. \A k \in DOMAIN T.ent \ {fld} :
        k \in Remains(S, T, old) \/ (k \in DOMAIN S.ent \ {fld, old} /\ T.ent[k] = S.ent[k])
  BY DEF Remains, OthersKept
<1>3. ASSUME NEW k \in Remains(S, T, old), T.ent[k].code = "uniform"
      PROVE  b.code = "uniform" /\ b.obj = T.ent[k].obj /\ PieceOf(T.ent[k], b)
  <2>1. Settled(T.ent[k], k, b, old, h, keep)
    OBVIOUS
  <2>2. T.ent[k].code = b.code /\ T.ent[k].obj = b.obj
    BY <1>1, <2>1, SettledCode
  <2> QED
    BY <1>3, <2>1, <2>2 DEF Settled, Left
<1>4. ASSUME NEW k \in Remains(S, T, old), NEW g \in DOMAIN S.ent \ {fld, old},
             T.ent[k].code = "uniform", S.ent[g].code = "uniform", S.ent[g].obj = T.ent[k].obj
      PROVE  Apart(T.ent[k], S.ent[g]) /\ Apart(S.ent[g], T.ent[k])
  <2>1. b.code = "uniform" /\ b.obj = T.ent[k].obj /\ PieceOf(T.ent[k], b)
    BY <1>3, <1>4
  <2>2. Apart(b, S.ent[g])
    BY <1>4, <2>1 DEF BlocksApart
  <2>3. IsEntity(T.ent[k]) /\ IsEntity(S.ent[g])
    BY DEF IsMem, Remains
  <2> QED
    BY <1>1, <2>1, <2>2, <2>3, PieceApart
<1>5. CASE i \in Remains(S, T, old) /\ j \in Remains(S, T, old)
  BY <1>5
<1>6. CASE i \in Remains(S, T, old) /\ j \notin Remains(S, T, old)
  BY <1>2, <1>4, <1>6
<1>7. CASE i \notin Remains(S, T, old) /\ j \in Remains(S, T, old)
  BY <1>2, <1>4, <1>7
<1>8. CASE i \notin Remains(S, T, old) /\ j \notin Remains(S, T, old)
  BY <1>2, <1>8 DEF BlocksApart
<1> QED
  BY <1>5, <1>6, <1>7, <1>8

LEMMA OverwriteStepFacts ==
  ASSUME NEW S, IsMem(S), NEW fld \in DOMAIN S.ent, NEW keep, NEW n \in Nat,
         NEW T, Overwritten(S, T, fld, keep, n)
  PROVE  Overwritten(S, OverwriteStep(T, n + 1, S, fld, keep), fld, keep, n + 1)
<1> DEFINE m == n + 1
           O == Overlaps(S, fld)
<1>1. DOMAIN S.ent \subseteq Nat
  BY DEF IsMem, BoundedIds
<1>2. \A j \in DOMAIN S.ent : Awaits(S, fld, n, j) <=> Awaits(S, fld, m, j) \/ (j = m /\ j \in O)
  BY <1>1 DEF Awaits
<1>3. fld \notin O /\ Awaits(S, fld, n, fld) /\ fld \in DOMAIN T.ent /\ T.ent[fld] = S.ent[fld]
  BY DEF Overwritten, Overlaps, Awaits
<1>4. CASE m \notin O
  <2>1. OverwriteStep(T, m, S, fld, keep) = T
    BY <1>4 DEF OverwriteStep
  <2>2. \A j \in DOMAIN S.ent : Awaits(S, fld, n, j) <=> Awaits(S, fld, m, j)
    BY <1>2, <1>4
  <2> HIDE DEF m
  <2>3. Overwritten(S, T, fld, keep, m)
    BY <2>2 DEF Overwritten
  <2> QED
    BY <2>1, <2>3 DEF m
<1>5. CASE m \in O
  <2> DEFINE U == reinterpretObjData(T, m, fld, keep)
  <2>1. OverwriteStep(T, m, S, fld, keep) = U
    BY <1>5 DEF OverwriteStep
  <2> HIDE DEF m, O, U
  <2>2. m \in DOMAIN S.ent /\ m # fld /\ S.ent[m].obj = S.ent[fld].obj /\ ~Apart(S.ent[m], S.ent[fld])
    BY <1>5, OverlapsFacts DEF O
  <2>3. m \in DOMAIN T.ent /\ T.ent[m] = S.ent[m]
    BY <1>2, <1>5, <2>2 DEF Overwritten
  <2>4. IsMem(T) /\ BlocksApart(T, fld)
    BY DEF Overwritten
  <2>5. /\ IsMem(U) /\ OthersKept(T, U, m)
        /\ \A i \in Remains(T, U, m) : Settled(U.ent[i], i, T.ent[m], m, T.ent[fld], keep)
        /\ \A i, j \in Remains(T, U, m) : i # j => Apart(U.ent[i], U.ent[j])
        /\ T.ent[m].code = "field" /\ m \in keep => m \in Remains(T, U, m)
    BY <1>3, <2>2, <2>3, <2>4, ReinterpretFacts DEF U
  <2>6. BlocksApart(U, fld)
    BY <2>2, <2>3, <2>4, <2>5, ReinterpretApart
  <2>7. ASSUME NEW j \in DOMAIN S.ent, Awaits(S, fld, m, j)
        PROVE  j \in DOMAIN U.ent /\ U.ent[j] = S.ent[j]
    <3>1. j # m
      <4>1. ~(m > m)
        BY DEF m
      <4> QED
        BY <1>5, <2>7, <4>1 DEF Awaits, O
    <3>2. j \in DOMAIN T.ent /\ T.ent[j] = S.ent[j]
      BY <1>2, <2>7 DEF Overwritten
    <3> QED
      BY <2>5, <3>1, <3>2 DEF OthersKept
  <2>8. ASSUME NEW j \in DOMAIN U.ent \ {fld}
        PROVE  \/ j \in DOMAIN S.ent /\ U.ent[j] = S.ent[j] /\ Awaits(S, fld, m, j)
               \/ Became(U.ent[j], j, S, fld, keep)
    <3>1. CASE j \in Remains(T, U, m)
      <4>1. Settled(U.ent[j], j, S.ent[m], m, S.ent[fld], keep)
        BY <1>3, <2>3, <2>5, <3>1
      <4> QED
        BY <1>5, <4>1 DEF Became, O
    <3>2. CASE j \notin Remains(T, U, m)
      <4>1. j \in DOMAIN T.ent \ {m} /\ U.ent[j] = T.ent[j]
        BY <2>5, <3>2 DEF Remains, OthersKept
      <4>2. \/ j \in DOMAIN S.ent /\ T.ent[j] = S.ent[j] /\ Awaits(S, fld, n, j)
            \/ Became(T.ent[j], j, S, fld, keep)
        BY <2>8, <4>1 DEF Overwritten
      <4> QED
        BY <1>2, <4>1, <4>2
    <3> QED
      BY <3>1, <3>2
  <2>9. ASSUME NEW j \in keep \cap DOMAIN S.ent, S.ent[j].code = "field"
        PROVE  j \in DOMAIN U.ent /\ U.ent[j].code = "field"
    <3>1. j \in DOMAIN T.ent /\ T.ent[j].code = "field"
      BY <2>9 DEF Overwritten
    <3>2. CASE j # m
      BY <2>5, <3>1, <3>2 DEF OthersKept
    <3>3. CASE j = m
      <4>1. j \in Remains(T, U, m)
        BY <2>5, <3>1, <3>3
      <4>2. Settled(U.ent[j], j, T.ent[m], m, T.ent[fld], keep) /\ IsEntity(T.ent[m])
        BY <2>3, <2>4, <2>5, <4>1 DEF IsMem
      <4>3. U.ent[j].code = T.ent[m].code
        BY <4>2, SettledCode
      <4> QED
        BY <3>1, <3>3, <4>1, <4>3 DEF Remains
    <3> QED
      BY <3>2, <3>3
  <2>10. Overwritten(S, U, fld, keep, m)
    BY <2>5, <2>6, <2>7, <2>8, <2>9 DEF Overwritten
  <2> QED
    BY <2>1, <2>10 DEF m
<1> QED
  BY <1>4, <1>5

LEMMA OverwriteFacts ==
  ASSUME NEW S, IsMem(S), NEW fld \in DOMAIN S.ent, NEW keep, BlocksApart(S, fld)
  PROVE  Overwritten(S, Overwrite(S, fld, keep), fld, keep, LastId(S))
<1> DEFINE N == LastId(S)
<1>1. N \in Nat
  BY LastIdFacts DEF IsMem
<1>2. PICK d : /\ d[0] = S /\ d[N] = Overwrite(S, fld, keep)
               /\ \A i \in 1..N : d[i] = OverwriteStep(d[i - 1], i, S, fld, keep)
  BY <1>1, OverwriteSteps
<1> HIDE DEF N
<1> DEFINE Good == {i \in Nat : i <= N => Overwritten(S, d[i], fld, keep, i)}
<1>3. 0 \in Good
  <2>1. DOMAIN S.ent \subseteq Nat \ {0}
    BY DEF IsMem, BoundedIds
  <2>2. \A j \in DOMAIN S.ent : Awaits(S, fld, 0, j)
    BY <2>1 DEF Awaits
  <2>3. Overwritten(S, S, fld, keep, 0)
    BY <2>2 DEF Overwritten
  <2> QED
    BY <1>2, <2>3
<1>4. ASSUME NEW n \in Nat, n \in Good PROVE n + 1 \in Good
  <2> SUFFICES ASSUME n + 1 <= N PROVE Overwritten(S, d[n + 1], fld, keep, n + 1)
    OBVIOUS
  <2>1. n <= N /\ n + 1 \in 1..N /\ (n + 1) - 1 = n
    BY <1>1
  <2>2. Overwritten(S, d[n], fld, keep, n)
    BY <1>4, <2>1
  <2>3. d[n + 1] = OverwriteStep(d[n], n + 1, S, fld, keep)
    BY <1>2, <2>1
  <2> QED
    BY <2>2, <2>3, OverwriteStepFacts
<1>5. N \in Good
  <2> HIDE DEF Good
  <2>1. Nat \subseteq Good
    BY <1>3, <1>4, Induction
  <2> QED
    BY <1>1, <2>1
<1> QED
  BY <1>1, <1>2, <1>5 DEF N

(* All of what fld overlaps is reinterpreted. *)
LEMMA OverwriteResult ==
  ASSUME NEW S, IsMem(S), NEW fld \in DOMAIN S.ent, NEW keep, BlocksApart(S, fld)
  PROVE  LET T == Overwrite(S, fld, keep)
         IN  /\ IsMem(T) /\ BlocksApart(T, 0)
             /\ \A j \in DOMAIN S.ent :
                  j \notin Overlaps(S, fld) => j \in DOMAIN T.ent /\ T.ent[j] = S.ent[j]
             /\ \A j \in DOMAIN T.ent \ {fld} :
                  \/ j \in DOMAIN S.ent /\ T.ent[j] = S.ent[j] /\ j \notin Overlaps(S, fld)
                  \/ Became(T.ent[j], j, S, fld, keep)
             /\ \A j \in keep \cap DOMAIN S.ent :
                  S.ent[j].code = "field" => j \in DOMAIN T.ent /\ T.ent[j].code = "field"
<1> DEFINE T == Overwrite(S, fld, keep)
           h == S.ent[fld]
<1>1. Overwritten(S, T, fld, keep, LastId(S))
  BY OverwriteFacts
<1>2. DOMAIN S.ent \subseteq Nat /\ LastId(S) \in Nat /\ \A j \in DOMAIN S.ent : j <= LastId(S)
  BY LastIdFacts DEF IsMem, BoundedIds
<1>3. \A j \in DOMAIN S.ent : Awaits(S, fld, LastId(S), j) <=> j \notin Overlaps(S, fld)
  BY <1>2 DEF Awaits
<1> HIDE DEF T
<1>4. /\ IsMem(T) /\ BlocksApart(T, fld)
      /\ \A j \in DOMAIN S.ent :
           j \notin Overlaps(S, fld) => j \in DOMAIN T.ent /\ T.ent[j] = S.ent[j]
      /\ \A j \in DOMAIN T.ent \ {fld} :
           \/ j \in DOMAIN S.ent /\ T.ent[j] = S.ent[j] /\ j \notin Overlaps(S, fld)
           \/ Became(T.ent[j], j, S, fld, keep)
      /\ \A j \in keep \cap DOMAIN S.ent :
           S.ent[j].code = "field" => j \in DOMAIN T.ent /\ T.ent[j].code = "field"
  BY <1>1, <1>3 DEF Overwritten
<1>5. fld \in DOMAIN T.ent /\ T.ent[fld] = h
  BY <1>4 DEF Overlaps
<1>6. ASSUME NEW j \in DOMAIN T.ent \ {fld}, h.code = "uniform", T.ent[j].code = "uniform",
             T.ent[j].obj = h.obj
      PROVE  Apart(T.ent[j], h)
  <2>1. CASE j \in DOMAIN S.ent /\ T.ent[j] = S.ent[j] /\ j \notin Overlaps(S, fld)
    BY <1>6, <2>1, OverlapsFacts
  <2>2. CASE Became(T.ent[j], j, S, fld, keep)
    <3>1. PICK old \in Overlaps(S, fld) : Settled(T.ent[j], j, S.ent[old], old, h, keep)
      BY <2>2 DEF Became
    <3>2. old \in DOMAIN S.ent
      BY OverlapsFacts
    <3>3. IsEntity(S.ent[old])
      BY <3>2 DEF IsMem
    <3>4. S.ent[old].code = "uniform"
      BY <1>6, <3>1, <3>3, SettledCode
    <3> QED
      BY <1>6, <3>1, <3>4 DEF Settled, Left
  <2> QED
    BY <1>4, <2>1, <2>2
<1>7. BlocksApart(T, 0)
  <2> SUFFICES ASSUME NEW i \in DOMAIN T.ent, NEW j \in DOMAIN T.ent, i # j,
                      T.ent[i].code = "uniform", T.ent[j].code = "uniform",
                      T.ent[i].obj = T.ent[j].obj
               PROVE  Apart(T.ent[i], T.ent[j])
    BY DEF BlocksApart
  <2>1. CASE i # fld /\ j # fld
    BY <1>4, <2>1 DEF BlocksApart
  <2>2. CASE j = fld
    BY <1>5, <1>6, <2>2
  <2>3. CASE i = fld
    <3>1. Apart(T.ent[j], T.ent[i])
      BY <1>5, <1>6, <2>3
    <3> QED
      BY <3>1 DEF Apart
  <2> QED
    BY <2>1, <2>2, <2>3
<1> QED
  BY <1>4, <1>7 DEF T

-------------------------------------------------------------------------------
(* Values and bytes *)

ByteOf(v, i) == CASE v = "null" -> <<"zero", 0>> [] v = "undef" -> <<"undef", 0>>
                  [] v = "unk" -> <<"any", 0>> [] OTHER -> Part(v, i)

(* A field or block has the value that the memory B holds. *)
Fits(e, B) ==
  \/ e.value \in {"inv", "unk"}
  \/ \A p \in e.off..e.off + e.size - 1 : B[e.obj][p] = ByteOf(e.value, p - e.off)

(* The bytes that are not those of h are the same in B and C. *)
SameOutside(B, C, h) ==
  \A o \in Obj, p \in 0..Size - 1 :
    o # h.obj \/ p < h.off \/ h.off + h.size <= p => B[o][p] = C[o][p]

(* Fields of pointers and integers that overlap are at the same offset. *)
AlignedFields ==
  \A t, u \in {"int", "ptr"}, p, q \in Nat :
    Accessed(p, t) /\ Accessed(q, u) /\ p < q + 2 /\ q < p + 2 => p = q

LEMMA UniformBytes ==
  ASSUME NEW v \in {"null", "undef"}
  PROVE  \A i : ByteOf(v, i) = ByteOf(v, 0)
BY DEF ByteOf

LEMMA BytesOfFacts ==
  ASSUME NEW v, NEW n \in Nat, NEW i \in 0..n - 1
  PROVE  BytesOf(v, n)[i] = ByteOf(v, i)
BY DEF BytesOf, ByteOf

LEMMA LeftFits ==
  ASSUME NEW e, NEW b, NEW h, NEW B, NEW C, IsEntity(e), IsEntity(b), IsEntity(h),
         b.code = "uniform", Left(e, b, h), b.obj = h.obj, Fits(b, B), Fits(h, C), SameOutside(B, C, h)
  PROVE  Fits(e, C)
<1> DEFINE v == b.value
<1>1. /\ b.obj \in Obj /\ b.off \in Nat /\ b.size \in Nat /\ e.off \in Nat /\ e.size \in Nat
      /\ h.off \in Nat /\ h.size \in Nat /\ e.off + e.size <= Size /\ Size \in Nat
  BY EntityFacts, RegionAssumption
<1>2. v \in {"null", "undef"} /\ e.value = v /\ e.obj = b.obj
  BY DEF IsEntity, Left, PieceOf
<1>3. \A p \in b.off..b.off + b.size - 1 : B[b.obj][p] = ByteOf(v, 0)
  BY <1>2, UniformBytes DEF Fits
<1> SUFFICES ASSUME NEW p \in e.off..e.off + e.size - 1 PROVE C[b.obj][p] = ByteOf(v, 0)
  BY <1>2, UniformBytes DEF Fits
<1>4. p \in b.off..b.off + b.size - 1 /\ p \in 0..Size - 1
  BY <1>1 DEF Left, PieceOf
<1>5. CASE p < h.off \/ h.off + h.size <= p
  BY <1>1, <1>3, <1>4, <1>5 DEF SameOutside
<1>6. CASE ~(p < h.off \/ h.off + h.size <= p)
  <2>1. ~Apart(e, h) /\ p \in h.off..h.off + h.size - 1
    BY <1>1, <1>4, <1>6 DEF Apart
  <2>2. h.value = v
    BY <2>1 DEF Left
  <2> QED
    BY <1>2, <2>1, <2>2, UniformBytes DEF Fits
<1> QED
  BY <1>5, <1>6

LEMMA ReinterpretedFits ==
  ASSUME AlignedFields, NEW b, NEW h, NEW C, IsEntity(b), IsEntity(h), b.code = "field",
         b.obj = h.obj, ~Apart(b, h), Fits(h, C)
  PROVE  Fits([b EXCEPT !.value = reinterpreted(b, h)], C)
<1> DEFINE v == reinterpreted(b, h)
           e == [b EXCEPT !.value = v]
<1>1. /\ b.obj \in Obj /\ b.off \in Nat /\ b.size \in Nat /\ h.off \in Nat /\ h.size \in Nat
      /\ DOMAIN b = {"code", "obj", "off", "size", "type", "value"}
  BY EntityFacts
<1> SUFFICES Fits(e, C)
  OBVIOUS
<1> HIDE DEF v
<1>2. e.obj = b.obj /\ e.off = b.off /\ e.size = b.size /\ e.value = v
  BY <1>1
<1> HIDE DEF e
<1>3. CASE h.code = "uniform" /\ isCoveredByBlock(b, h)
  <2>1. v = h.value /\ v \in {"null", "undef"}
    BY <1>3 DEF v, reinterpreted, IsEntity
  <2>2. \A p \in b.off..b.off + b.size - 1 : p \in h.off..h.off + h.size - 1
    BY <1>1, <1>3 DEF isCoveredByBlock
  <2>3. \A p \in h.off..h.off + h.size - 1 : C[h.obj][p] = ByteOf(v, 0)
    BY <2>1, UniformBytes DEF Fits
  <2> QED
    BY <1>2, <2>1, <2>2, <2>3, UniformBytes DEF Fits
<1>4. CASE /\ ~(h.code = "uniform" /\ isCoveredByBlock(b, h))
           /\ h.code = "field" /\ h.value \in Ptr \cup {"null"} /\ canReinterpretPtr(b, h)
  <2>1. v = h.value /\ h.value \notin {"inv", "unk"}
    BY <1>4, RegionAssumption DEF v, reinterpreted
  <2>2. b.type \in {"int", "ptr"} /\ h.type \in {"int", "ptr"}
    BY <1>4 DEF canReinterpretPtr
  <2>3. b.size = 2 /\ h.size = 2 /\ Accessed(b.off, b.type) /\ Accessed(h.off, h.type)
    BY <1>4, <2>2 DEF IsEntity, TypeSize
  <2>4. b.off < h.off + 2 /\ h.off < b.off + 2
    BY <1>1, <2>3 DEF Apart
  <2>5. b.off = h.off
    BY <1>1, <2>2, <2>3, <2>4 DEF AlignedFields
  <2> QED
    BY <1>2, <2>1, <2>3, <2>5 DEF Fits
<1>5. CASE /\ ~(h.code = "uniform" /\ isCoveredByBlock(b, h))
           /\ ~(h.code = "field" /\ h.value \in Ptr \cup {"null"} /\ canReinterpretPtr(b, h))
  <2>1. v = "unk"
    BY <1>5 DEF v, reinterpreted
  <2> QED
    BY <1>2, <2>1 DEF Fits
<1> QED
  BY <1>3, <1>4, <1>5

LEMMA ApartFits ==
  ASSUME NEW e, NEW h, NEW B, NEW C, IsEntity(e), IsEntity(h), Fits(e, B), SameOutside(B, C, h),
         e.obj # h.obj \/ Apart(e, h)
  PROVE  Fits(e, C)
<1>1. /\ e.obj \in Obj /\ e.off \in Nat /\ e.size \in Nat /\ e.off + e.size <= Size
      /\ h.off \in Nat /\ h.size \in Nat /\ Size \in Nat
  BY EntityFacts, RegionAssumption
<1>2. ASSUME NEW p \in e.off..e.off + e.size - 1 PROVE B[e.obj][p] = C[e.obj][p]
  <2>1. p \in 0..Size - 1 /\ (e.obj # h.obj \/ p < h.off \/ h.off + h.size <= p)
    BY <1>1 DEF Apart
  <2> QED
    BY <1>1, <2>1 DEF SameOutside
<1> QED
  BY <1>2 DEF Fits

LEMMA OverwriteFits ==
  ASSUME AlignedFields, NEW S, IsMem(S), NEW fld \in DOMAIN S.ent, NEW keep, BlocksApart(S, fld),
         NEW B, NEW C, \A j \in DOMAIN S.ent \ {fld} : Fits(S.ent[j], B),
         Fits(S.ent[fld], C), SameOutside(B, C, S.ent[fld])
  PROVE  \A j \in DOMAIN Overwrite(S, fld, keep).ent : Fits(Overwrite(S, fld, keep).ent[j], C)
<1> DEFINE T == Overwrite(S, fld, keep)
           h == S.ent[fld]
<1>1. /\ IsMem(T)
      /\ \A j \in DOMAIN S.ent :
           j \notin Overlaps(S, fld) => j \in DOMAIN T.ent /\ T.ent[j] = S.ent[j]
      /\ \A j \in DOMAIN T.ent \ {fld} :
           \/ j \in DOMAIN S.ent /\ T.ent[j] = S.ent[j] /\ j \notin Overlaps(S, fld)
           \/ Became(T.ent[j], j, S, fld, keep)
  BY OverwriteResult
<1> HIDE DEF T
<1> SUFFICES ASSUME NEW j \in DOMAIN T.ent PROVE Fits(T.ent[j], C)
  BY DEF T
<1>2. IsEntity(T.ent[j]) /\ IsEntity(h)
  BY <1>1 DEF IsMem
<1>3. CASE j = fld
  BY <1>1, <1>3 DEF Overlaps
<1>4. CASE j # fld /\ j \in DOMAIN S.ent /\ T.ent[j] = S.ent[j] /\ j \notin Overlaps(S, fld)
  <2>1. S.ent[j].obj # h.obj \/ Apart(S.ent[j], h)
    BY <1>4, OverlapsFacts
  <2>2. IsEntity(S.ent[j]) /\ Fits(S.ent[j], B)
    BY <1>4 DEF IsMem
  <2>3. Fits(S.ent[j], C)
    BY <1>2, <2>1, <2>2, ApartFits
  <2> QED
    BY <1>4, <2>3
<1>5. CASE j # fld /\ Became(T.ent[j], j, S, fld, keep)
  <2>1. PICK old \in Overlaps(S, fld) : Settled(T.ent[j], j, S.ent[old], old, h, keep)
    BY <1>5 DEF Became
  <2> DEFINE b == S.ent[old]
  <2>2. old \in DOMAIN S.ent /\ old # fld /\ b.obj = h.obj /\ ~Apart(b, h)
    BY OverlapsFacts
  <2>3. IsEntity(b) /\ Fits(b, B) /\ b.code \in {"field", "uniform"}
    BY <2>2, EntityFacts DEF IsMem
  <2> HIDE DEF b
  <2>4. CASE b.code = "uniform"
    <3>1. Left(T.ent[j], b, h)
      BY <2>1, <2>4 DEF Settled, b
    <3> QED
      BY <1>2, <2>2, <2>3, <2>4, <3>1, LeftFits
  <2>5. CASE b.code = "field"
    <3>1. T.ent[j] = [b EXCEPT !.value = reinterpreted(b, h)]
      BY <2>1, <2>5 DEF Settled, b
    <3>2. Fits([b EXCEPT !.value = reinterpreted(b, h)], C)
      BY <1>2, <2>2, <2>3, <2>5, ReinterpretedFits
    <3> QED
      BY <3>1, <3>2
  <2> QED
    BY <2>3, <2>4, <2>5
<1> QED
  BY <1>1, <1>3, <1>4, <1>5

-------------------------------------------------------------------------------
(* Fields are looked up and written *)

LEMMA MatchingFacts ==
  ASSUME NEW S, IsMem(S), NEW obj \in Obj, NEW off \in Nat, NEW type, NEW f
  PROVE  f \in Matching(S, obj, off, type) <=>
           /\ f \in DOMAIN S.ent /\ S.ent[f].code = "field" /\ S.ent[f].obj = obj
           /\ S.ent[f].off = off /\ S.ent[f].size = TypeSize(type) /\ S.ent[f].type = type
<1> DEFINE n == TypeSize(type)
           A == ArenaOf(S.ent, obj)
<1>1. S.arena[obj] = A
  BY DEF IsMem
<1>2. \A j \in DOMAIN S.ent : S.ent[j].code \in {"field", "uniform"}
                            /\ S.ent[j].off \in Nat /\ S.ent[j].size \in Nat
  BY EntityFacts DEF IsMem
<1>3. n \in Nat
  BY DEF TypeSize
<1>4. f \in Matching(S, obj, off, type) <=>
        /\ \E x \in A : x[1] = off /\ x[2] = off + n /\ x[3] = f
        /\ S.ent[f].code # "uniform" /\ S.ent[f].type = type
  BY <1>1 DEF Matching, exactMatch, IsUniform
<1>5. ASSUME NEW x \in A, x[3] = f
      PROVE  /\ f \in DOMAIN S.ent /\ S.ent[f].obj = obj
             /\ x[1] = S.ent[f].off /\ x[2] = S.ent[f].off + S.ent[f].size
  BY <1>5 DEF ArenaOf, Item
<1>6. ASSUME f \in DOMAIN S.ent, S.ent[f].obj = obj
      PROVE  \E x \in A : x[3] = f /\ x[1] = S.ent[f].off /\ x[2] = S.ent[f].off + S.ent[f].size
  <2>1. Item(S.ent[f], f) \in A
    BY <1>6 DEF ArenaOf
  <2> QED
    BY <2>1 DEF Item
<1> HIDE DEF A, n
<1>7. ASSUME f \in Matching(S, obj, off, type)
      PROVE  /\ f \in DOMAIN S.ent /\ S.ent[f].code = "field" /\ S.ent[f].obj = obj
             /\ S.ent[f].off = off /\ S.ent[f].size = n /\ S.ent[f].type = type
  <2>1. PICK x \in A : x[1] = off /\ x[2] = off + n /\ x[3] = f
    BY <1>4, <1>7
  <2>2. /\ f \in DOMAIN S.ent /\ S.ent[f].obj = obj
        /\ off = S.ent[f].off /\ off + n = S.ent[f].off + S.ent[f].size
    BY <1>5, <2>1
  <2> QED
    BY <1>2, <1>3, <1>4, <1>7, <2>2
<1>8. ASSUME f \in DOMAIN S.ent, S.ent[f].code = "field", S.ent[f].obj = obj,
             S.ent[f].off = off, S.ent[f].size = n, S.ent[f].type = type
      PROVE  f \in Matching(S, obj, off, type)
  BY <1>4, <1>6, <1>8
<1> QED
  BY <1>7, <1>8 DEF n

NewField(obj, off, type) ==
  [code |-> "field", obj |-> obj, off |-> off, size |-> TypeSize(type), type |-> type, value |-> "inv"]

LEMMA NewFieldFacts ==
  ASSUME NEW obj \in Obj, NEW off \in Nat, NEW type \in Types, off + TypeSize(type) <= Size,
         Accessed(off, type)
  PROVE  /\ IsEntity(NewField(obj, off, type)) /\ NewField(obj, off, type).value = "inv"
         /\ NewField(obj, off, type).code = "field" /\ NewField(obj, off, type).obj = obj
         /\ NewField(obj, off, type).off = off /\ NewField(obj, off, type).type = type
         /\ NewField(obj, off, type).size = TypeSize(type) /\ "inv" \notin Ptr
<1> DEFINE e == NewField(obj, off, type)
<1>1. TypeSize(type) \in Nat /\ TypeSize(type) > 0
  BY DEF TypeSize
<1>2. /\ e.value = "inv" /\ e.code = "field" /\ e.obj = obj /\ e.off = off /\ e.type = type
      /\ e.size = TypeSize(type)
  BY DEF NewField
<1>3. e \in Entity
  BY <1>1 DEF NewField, Entity, Value
<1> HIDE DEF e
<1>4. IsEntity(e)
  BY <1>1, <1>2, <1>3 DEF IsEntity
<1> QED
  BY <1>2, <1>4, RegionAssumption DEF e

(* A field that is created changes nothing else. *)
LEMMA CreateFacts ==
  ASSUME NEW S, IsMem(S), BlocksApart(S, 0), NEW obj \in Obj, NEW off \in Nat, NEW type \in Types,
         off + TypeSize(type) <= Size, Accessed(off, type)
  PROVE  LET n == NewId(S)
             T == fldCreate(S, obj, off, type)
         IN  /\ IsMem(T) /\ BlocksApart(T, 0) /\ n \in Nat \ {0} /\ n \notin DOMAIN S.ent
             /\ DOMAIN T.ent = DOMAIN S.ent \cup {n} /\ T.ent[n] = NewField(obj, off, type)
             /\ \A i \in DOMAIN S.ent : T.ent[i] = S.ent[i]
<1> DEFINE n == NewId(S)
           e == NewField(obj, off, type)
           T == Insert(S, e)
<1>1. fldCreate(S, obj, off, type) = T
  BY DEF fldCreate, NewField
<1>2. IsEntity(e) /\ e.code = "field" /\ e.value \notin Ptr
  BY NewFieldFacts
<1> HIDE DEF e
<1>3. /\ IsMem(T) /\ n \in Nat \ {0} /\ n \notin DOMAIN S.ent
      /\ DOMAIN T.ent = DOMAIN S.ent \cup {n} /\ T.ent[n] = e
      /\ \A i \in DOMAIN S.ent : T.ent[i] = S.ent[i]
  BY <1>2, InsertFacts
<1> HIDE DEF T, n
<1>4. BlocksApart(T, 0)
  BY <1>2, <1>3 DEF BlocksApart
<1> QED
  BY <1>1, <1>3, <1>4 DEF n, T, e

(* The field of that type at that place. *)
FieldOf(e, obj, off, type) ==
  e.code = "field" /\ e.obj = obj /\ e.off = off /\ e.size = TypeSize(type) /\ e.type = type

LEMMA LookupFacts ==
  ASSUME NEW S, IsMem(S), BlocksApart(S, 0), NEW obj \in Obj, NEW off \in Nat, NEW type \in Types,
         off + TypeSize(type) <= Size, Accessed(off, type)
  PROVE  LET T == fldLookup(S, obj, off, type)
             f == FieldAt(T, obj, off, type)
         IN  /\ IsMem(T) /\ BlocksApart(T, 0)
             /\ f \in DOMAIN T.ent /\ FieldOf(T.ent[f], obj, off, type)
             /\ \A i \in DOMAIN S.ent : i \in DOMAIN T.ent /\ T.ent[i] = S.ent[i]
             /\ \A i \in DOMAIN T.ent \ DOMAIN S.ent : T.ent[i].value = "inv"
<1> DEFINE T == fldLookup(S, obj, off, type)
           f == FieldAt(T, obj, off, type)
<1>1. /\ IsMem(T) /\ BlocksApart(T, 0) /\ Matching(T, obj, off, type) # {}
      /\ \A i \in DOMAIN S.ent : i \in DOMAIN T.ent /\ T.ent[i] = S.ent[i]
      /\ \A i \in DOMAIN T.ent \ DOMAIN S.ent : T.ent[i].value = "inv"
  <2>1. CASE Matching(S, obj, off, type) # {}
    <3>1. T = S
      BY <2>1 DEF fldLookup
    <3> QED
      BY <2>1, <3>1
  <2>2. CASE Matching(S, obj, off, type) = {}
    <3> DEFINE n == NewId(S)
               e == NewField(obj, off, type)
    <3>1. T = fldCreate(S, obj, off, type)
      BY <2>2 DEF fldLookup
    <3> HIDE DEF T, n, e
    <3>2. /\ IsMem(T) /\ BlocksApart(T, 0) /\ n \in Nat \ {0} /\ n \notin DOMAIN S.ent
          /\ DOMAIN T.ent = DOMAIN S.ent \cup {n} /\ T.ent[n] = e
          /\ \A i \in DOMAIN S.ent : T.ent[i] = S.ent[i]
      BY <3>1, CreateFacts DEF n, e
    <3>3. /\ e.value = "inv" /\ e.code = "field" /\ e.obj = obj /\ e.off = off /\ e.type = type
          /\ e.size = TypeSize(type)
      BY NewFieldFacts DEF e
    <3>4. n \in Matching(T, obj, off, type)
      BY <3>2, <3>3, MatchingFacts
    <3> QED
      BY <3>2, <3>3, <3>4
  <2> QED
    BY <2>1, <2>2
<1>2. f \in Matching(T, obj, off, type)
  BY <1>1 DEF FieldAt
<1>3. f \in DOMAIN T.ent /\ FieldOf(T.ent[f], obj, off, type)
  BY <1>1, <1>2, MatchingFacts DEF FieldOf
<1> QED
  BY <1>1, <1>3

LEMMA SetValueCases ==
  ASSUME NEW S, IsMem(S), BlocksApart(S, 0), NEW f \in DOMAIN S.ent, S.ent[f].code = "field",
         NEW v \in Value, NEW keep
  PROVE  \/ setValueOf(S, f, v, keep) = S /\ S.ent[f].value = v /\ v \notin {"unk", "undef"}
         \/ \E R : /\ IsMem(R) /\ BlocksApart(R, f) /\ DOMAIN R.ent = DOMAIN S.ent
                   /\ R.ent[f] = [S.ent[f] EXCEPT !.value = v]
                   /\ \A j \in DOMAIN S.ent \ {f} : R.ent[j] = S.ent[j]
                   /\ setValueOf(S, f, v, keep) = Overwrite(R, f, keep)
<1> DEFINE e == S.ent[f]
           h == [e EXCEPT !.value = v]
           R == [registerValueOf(releaseValueOf(S, f), f, v)
                   EXCEPT !.arena[e.obj] = add(@, e.off, e.off + e.size, f)]
<1>1. CASE e.value = v /\ v \notin {"unk", "undef"}
  BY <1>1 DEF setValueOf
<1>2. CASE ~(e.value = v /\ v \notin {"unk", "undef"})
  <2>1. setValueOf(S, f, v, keep) = Overwrite(R, f, keep)
    BY <1>2 DEF setValueOf
  <2>2. /\ DOMAIN S = {"ent", "live", "used", "arena"} /\ DOMAIN S.arena = Obj /\ e.obj \in Obj
        /\ S.live \subseteq DOMAIN S.ent
    BY EntityFacts DEF IsMem
  <2>3. /\ DOMAIN R = DOMAIN S /\ R.ent = [S.ent EXCEPT ![f] = h] /\ R.live = S.live
        /\ R.used = (S.used \ {<<e.value, f>>}) \cup (IF v \in Ptr THEN {<<v, f>>} ELSE {})
        /\ R.arena = [S.arena EXCEPT ![e.obj] = add(@, e.off, e.off + e.size, f)]
    BY <2>2 DEF registerValueOf, releaseValueOf
  <2>4. h.code = "field"
    BY EntityFacts DEF IsMem
  <2> HIDE DEF R
  <2>5. <<e.off, e.off + e.size, f>> \in S.arena[e.obj]
    BY <2>2, ItemFacts DEF IsMem, Item
  <2>6. DOMAIN R.arena = DOMAIN S.arena /\ \A o \in Obj : R.arena[o] = S.arena[o]
    <3> DEFINE A == S.arena
               x == <<e.off, e.off + e.size, f>>
    <3>1. R.arena = [A EXCEPT ![e.obj] = @ \cup {x}] /\ x \in A[e.obj]
      BY <2>3, <2>5 DEF add
    <3> HIDE DEF A, x
    <3>2. A[e.obj] \cup {x} = A[e.obj]
      BY <3>1
    <3>3. R.arena = [A EXCEPT ![e.obj] = A[e.obj]]
      BY <3>1, <3>2
    <3> QED
      BY <3>3 DEF A
  <2>7. IsMem(R)
    BY <2>2, <2>3, <2>6, RevalueMem
  <2> HIDE DEF h
  <2>8. DOMAIN R.ent = DOMAIN S.ent /\ R.ent[f] = h /\ \A j \in DOMAIN S.ent \ {f} : R.ent[j] = S.ent[j]
    BY <2>3
  <2>9. BlocksApart(R, f)
    <3>1. 0 \notin DOMAIN S.ent
      BY DEF IsMem, BoundedIds
    <3> QED
      BY <2>8, <3>1 DEF BlocksApart
  <2> QED
    BY <2>1, <2>7, <2>8, <2>9 DEF h
<1> QED
  BY <1>1, <1>2

(* The contents S of the memory became T when the field or block f became h. *)
Updated(S, T, f, h, keep) ==
  /\ IsMem(T) /\ BlocksApart(T, 0) /\ f \in DOMAIN T.ent /\ T.ent[f] = h
  /\ \A j \in DOMAIN S.ent \ {f} : S.ent[j].obj # h.obj => j \in DOMAIN T.ent /\ T.ent[j] = S.ent[j]
  /\ \A j \in DOMAIN T.ent \ {f} :
       \/ j \in DOMAIN S.ent /\ T.ent[j] = S.ent[j]
       \/ \E old \in DOMAIN S.ent \ {f} :
            S.ent[old].obj = h.obj /\ Settled(T.ent[j], j, S.ent[old], old, h, keep)
  /\ \A j \in keep \cap (DOMAIN S.ent \ {f}) :
       S.ent[j].code = "field" => j \in DOMAIN T.ent /\ T.ent[j].code = "field"

LEMMA OverwriteUpdates ==
  ASSUME NEW S, NEW R, IsMem(R), NEW f \in DOMAIN R.ent, BlocksApart(R, f), NEW keep,
         DOMAIN R.ent \ {f} = DOMAIN S.ent \ {f}, \A j \in DOMAIN S.ent \ {f} : R.ent[j] = S.ent[j]
  PROVE  Updated(S, Overwrite(R, f, keep), f, R.ent[f], keep)
<1> DEFINE T == Overwrite(R, f, keep)
           h == R.ent[f]
<1>1. /\ IsMem(T) /\ BlocksApart(T, 0)
      /\ \A j \in DOMAIN R.ent :
           j \notin Overlaps(R, f) => j \in DOMAIN T.ent /\ T.ent[j] = R.ent[j]
      /\ \A j \in DOMAIN T.ent \ {f} :
           \/ j \in DOMAIN R.ent /\ T.ent[j] = R.ent[j] /\ j \notin Overlaps(R, f)
           \/ Became(T.ent[j], j, R, f, keep)
      /\ \A j \in keep \cap DOMAIN R.ent :
           R.ent[j].code = "field" => j \in DOMAIN T.ent /\ T.ent[j].code = "field"
  BY OverwriteResult
<1> HIDE DEF T
<1>2. \A j \in Overlaps(R, f) : j \in DOMAIN S.ent \ {f} /\ R.ent[j].obj = h.obj
  BY OverlapsFacts
<1>3. f \in DOMAIN T.ent /\ T.ent[f] = h
  BY <1>1, <1>2
<1>4. ASSUME NEW j \in DOMAIN T.ent \ {f}
      PROVE  \/ j \in DOMAIN S.ent /\ T.ent[j] = S.ent[j]
             \/ \E old \in DOMAIN S.ent \ {f} :
                  S.ent[old].obj = h.obj /\ Settled(T.ent[j], j, S.ent[old], old, h, keep)
  <2>1. CASE j \in DOMAIN R.ent /\ T.ent[j] = R.ent[j]
    BY <2>1
  <2>2. CASE Became(T.ent[j], j, R, f, keep)
    <3>1. PICK old \in Overlaps(R, f) : Settled(T.ent[j], j, R.ent[old], old, h, keep)
      BY <2>2 DEF Became
    <3>2. old \in DOMAIN S.ent \ {f} /\ R.ent[old] = S.ent[old] /\ S.ent[old].obj = h.obj
      BY <1>2
    <3> QED
      BY <3>1, <3>2
  <2> QED
    BY <1>1, <2>1, <2>2
<1>5. ASSUME NEW j \in DOMAIN S.ent \ {f}, S.ent[j].obj # h.obj
      PROVE  j \in DOMAIN T.ent /\ T.ent[j] = S.ent[j]
  <2>1. j \in DOMAIN R.ent /\ R.ent[j] = S.ent[j]
    OBVIOUS
  <2> QED
    BY <1>1, <1>2, <1>5, <2>1
<1>6. ASSUME NEW j \in keep \cap (DOMAIN S.ent \ {f}), S.ent[j].code = "field"
      PROVE  j \in DOMAIN T.ent /\ T.ent[j].code = "field"
  <2>1. j \in DOMAIN R.ent /\ R.ent[j] = S.ent[j]
    OBVIOUS
  <2> QED
    BY <1>1, <1>6, <2>1
<1>7. Updated(S, T, f, h, keep)
  BY <1>1, <1>3, <1>4, <1>5, <1>6 DEF Updated
<1> QED
  BY <1>7 DEF T

LEMMA SetValueUpdates ==
  ASSUME NEW S, IsMem(S), BlocksApart(S, 0), NEW f \in DOMAIN S.ent, S.ent[f].code = "field",
         NEW v \in Value, NEW keep
  PROVE  Updated(S, setValueOf(S, f, v, keep), f, [S.ent[f] EXCEPT !.value = v], keep)
<1> DEFINE T == setValueOf(S, f, v, keep)
           h == [S.ent[f] EXCEPT !.value = v]
<1>1. CASE T = S /\ S.ent[f].value = v /\ v \notin {"unk", "undef"}
  <2>1. h = S.ent[f]
    <3>1. S.ent[f] \in Entity
      BY DEF IsMem, IsEntity
    <3> QED
      BY <1>1, <3>1 DEF Entity
  <2> HIDE DEF h, T
  <2>2. Updated(S, S, f, h, keep)
    BY <2>1 DEF Updated
  <2> QED
    BY <1>1, <2>2 DEF h, T
<1>2. ASSUME NEW R, IsMem(R), BlocksApart(R, f), DOMAIN R.ent = DOMAIN S.ent, R.ent[f] = h,
             \A j \in DOMAIN S.ent \ {f} : R.ent[j] = S.ent[j], T = Overwrite(R, f, keep)
      PROVE  Updated(S, T, f, h, keep)
  <2> HIDE DEF h, T
  <2>1. Updated(S, Overwrite(R, f, keep), f, R.ent[f], keep)
    BY <1>2, OverwriteUpdates
  <2> QED
    BY <1>2, <2>1
<1>3. \/ T = S /\ S.ent[f].value = v /\ v \notin {"unk", "undef"}
      \/ \E R : /\ IsMem(R) /\ BlocksApart(R, f) /\ DOMAIN R.ent = DOMAIN S.ent /\ R.ent[f] = h
                /\ \A j \in DOMAIN S.ent \ {f} : R.ent[j] = S.ent[j]
                /\ T = Overwrite(R, f, keep)
  BY SetValueCases
<1> HIDE DEF T, h
<1> QED
  BY <1>1, <1>2, <1>3 DEF T, h

-------------------------------------------------------------------------------
(* Copies *)

CopyStep(T, i, obj, ids, shift, limit, keep) ==
  IF i \in ids THEN copySingleLiveBlock(T, obj, i, shift[i], limit[i], keep) ELSE T

LEMMA CopySteps ==
  ASSUME NEW S, NEW obj, NEW ids, NEW shift, NEW limit, NEW keep, LastId(S) \in Nat
  PROVE  \E d : /\ d[0] = S /\ d[LastId(S)] = CopyEach(S, obj, ids, shift, limit, keep)
                /\ \A i \in 1..LastId(S) : d[i] = CopyStep(d[i - 1], i, obj, ids, shift, limit, keep)
<1> DEFINE N == LastId(S)
           Step(T, i) == CopyStep(T, i, obj, ids, shift, limit, keep)
           IsDone(d, n) == d = [i \in 0..n |-> IF i = 0 THEN S ELSE Step(d[i - 1], i)]
           Reached == {n \in Nat : \E d : IsDone(d, n)}
<1> HIDE DEF Step
<1>1. 0 \in Reached
  <2> DEFINE d == [i \in 0..0 |-> S]
  <2>1. IsDone(d, 0)
    OBVIOUS
  <2> QED
    BY <2>1
<1>2. ASSUME NEW n \in Nat, n \in Reached PROVE n + 1 \in Reached
  <2>1. PICK d : IsDone(d, n)
    BY <1>2
  <2> DEFINE c == [i \in 0..n + 1 |-> IF i = n + 1 THEN Step(d[n], n + 1) ELSE d[i]]
  <2>2. \A i \in 0..n : c[i] = d[i] /\ d[i] = IF i = 0 THEN S ELSE Step(d[i - 1], i)
    BY <2>1
  <2>3. c[n + 1] = Step(c[n], n + 1)
    BY <2>2
  <2>4. \A i \in 0..n + 1 : c[i] = IF i = 0 THEN S ELSE Step(c[i - 1], i)
    <3> TAKE i \in 0..n + 1
    <3>1. CASE i = n + 1
      BY <2>3, <3>1
    <3>2. CASE i \in 1..n
      <4>1. i - 1 \in 0..n /\ i \in 0..n /\ i # 0
        BY <3>2
      <4> HIDE DEF c
      <4> QED
        BY <2>2, <4>1
    <3>3. CASE i = 0
      <4>1. 0 \in 0..n
        OBVIOUS
      <4> HIDE DEF c
      <4> QED
        BY <2>2, <3>3, <4>1
    <3> QED
      BY <3>1, <3>2, <3>3
  <2>5. IsDone(c, n + 1)
    <3>1. DOMAIN c = 0..n + 1 /\ c = [i \in 0..n + 1 |-> c[i]]
      OBVIOUS
    <3> HIDE DEF c
    <3> QED
      BY <2>4, <3>1
  <2>6. \E x : IsDone(x, n + 1)
    BY <2>5, Zenon
  <2> HIDE DEF IsDone
  <2> QED
    BY <2>6
<1>3. N \in Reached
  <2> HIDE DEF Reached
  <2>1. Nat \subseteq Reached
    BY <1>1, <1>2, Induction
  <2> QED
    BY <2>1
<1> DEFINE d == CHOOSE d : IsDone(d, N)
<1>4. IsDone(d, N)
  BY <1>3, Zenon
<1>5. CopyEach(S, obj, ids, shift, limit, keep) = d[N]
  BY Zenon DEF CopyEach, Step, CopyStep
<1> HIDE DEF d, N
<1>6. d[0] = S /\ \A i \in 1..N : d[i] = Step(d[i - 1], i)
  BY <1>4 DEF N
<1> QED
  BY <1>5, <1>6 DEF N, Step

(* A copy of the field or block s, or a part of the copy of a block. *)
CopyOf(e, s) ==
  /\ e.code = s.code /\ e.value = s.value
  /\ s.off <= e.off /\ e.off + e.size <= s.off + s.size
  /\ s.code = "field" => e.off = s.off

(* T is S with copies in dst, of fields and blocks of src with ids up to n. *)
Copied(S, T, dst, src, n) ==
  /\ IsMem(T) /\ BlocksApart(T, 0)
  /\ \A j \in DOMAIN S.ent : j \in DOMAIN T.ent /\ T.ent[j] = S.ent[j]
  /\ \A j \in DOMAIN T.ent \ DOMAIN S.ent :
       /\ T.ent[j].obj = dst
       /\ \E k \in DOMAIN S.ent : k <= n /\ S.ent[k].obj = src /\ CopyOf(T.ent[j], S.ent[k])

LEMMA CopiesApart ==
  ASSUME NEW e, NEW s, NEW d, NEW t, IsEntity(e), IsEntity(s), IsEntity(d), IsEntity(t),
         CopyOf(e, s), CopyOf(d, t), Apart(s, t)
  PROVE  Apart(e, d)
<1>1. /\ e.off \in Nat /\ e.size \in Nat /\ s.off \in Nat /\ s.size \in Nat
      /\ d.off \in Nat /\ d.size \in Nat /\ t.off \in Nat /\ t.size \in Nat
  BY EntityFacts
<1> QED
  BY <1>1 DEF CopyOf, Apart

(* The copy of a block is mapped next to the copies that are there. *)
LEMMA CopyBlockFacts ==
  ASSUME NEW S, IsMem(S), BlocksApart(S, 0), NEW dst \in Obj, NEW src \in Obj, dst # src,
         \A j \in DOMAIN S.ent : S.ent[j].obj # dst,
         NEW n \in Nat, NEW T, Copied(S, T, dst, src, n), NEW keep,
         NEW k \in DOMAIN S.ent, k = n + 1, S.ent[k].obj = src, S.ent[k].code = "uniform"
  PROVE  Copied(S, copySingleLiveBlock(T, dst, k, 0, 0, keep), dst, src, k)
<1> DEFINE s == S.ent[k]
           e == [s EXCEPT !.obj = dst]
           m == NewId(T)
           U == Insert(T, e)
           V == [U EXCEPT !.live = U.live \cup {m}]
<1>1. /\ IsMem(T) /\ BlocksApart(T, 0) /\ T.ent[k] = s
      /\ \A j \in DOMAIN S.ent : j \in DOMAIN T.ent /\ T.ent[j] = S.ent[j]
  BY DEF Copied
<1>2. /\ IsEntity(s) /\ s \in Entity /\ s.off \in Nat /\ s.size \in Nat
      /\ DOMAIN s = {"code", "obj", "off", "size", "type", "value"} /\ s.value \in {"null", "undef"}
  BY EntityFacts DEF IsMem, IsEntity
<1>3. e = [s EXCEPT !.obj = dst, !.off = s.off + 0, !.size = IF 0 = 0 THEN s.size ELSE 0]
  <2>1. s.off + 0 = s.off
    BY <1>2
  <2> QED
    BY <1>2, <2>1 DEF Entity
<1>4. copySingleLiveBlock(T, dst, k, 0, 0, keep) = V
  <2> HIDE DEF e
  <2>1. IsUniform(T, k)
    BY <1>1 DEF IsUniform
  <2> QED
    BY <1>1, <1>3, <2>1 DEF copySingleLiveBlock
<1>5. /\ e \in Entity /\ e.code = "uniform" /\ e.obj = dst /\ e.off = s.off /\ e.size = s.size
      /\ e.value = s.value
  BY <1>2 DEF Entity
<1> HIDE DEF e
<1>6. IsEntity(e) /\ e.value \notin Ptr /\ CopyOf(e, s)
  <2>1. IsEntity(e)
    BY <1>2, <1>5 DEF IsEntity
  <2>2. e.value \notin Ptr
    BY <1>2, <1>5, RegionAssumption
  <2>3. CopyOf(e, s)
    BY <1>2, <1>5 DEF CopyOf
  <2> QED
    BY <2>1, <2>2, <2>3
<1>7. /\ IsMem(U) /\ m \in Nat \ {0} /\ m \notin DOMAIN T.ent
      /\ DOMAIN U.ent = DOMAIN T.ent \cup {m} /\ U.ent[m] = e
      /\ \A i \in DOMAIN T.ent : U.ent[i] = T.ent[i]
  BY <1>1, <1>6, InsertFacts
<1> HIDE DEF U, m
<1>8. IsMem(V) /\ V.ent = U.ent
  <2>1. U.live \cup {m} \in SUBSET DOMAIN U.ent
    BY <1>7 DEF IsMem
  <2> QED
    BY <1>7, <2>1, LiveMem
<1> HIDE DEF V
<1>9. ASSUME NEW j \in DOMAIN T.ent, T.ent[j].code = "uniform", T.ent[j].obj = dst
      PROVE  Apart(T.ent[j], e) /\ Apart(e, T.ent[j])
  <2>1. j \notin DOMAIN S.ent
    BY <1>1, <1>9
  <2>2. PICK i \in DOMAIN S.ent : i <= n /\ S.ent[i].obj = src /\ CopyOf(T.ent[j], S.ent[i])
    BY <2>1 DEF Copied
  <2>3. i # k /\ i # 0 /\ k # 0
    <3>1. DOMAIN S.ent \subseteq Nat \ {0}
      BY DEF IsMem, BoundedIds
    <3> QED
      BY <2>2, <3>1
  <2>4. S.ent[i].code = "uniform"
    BY <1>9, <2>2 DEF CopyOf
  <2>5. Apart(S.ent[i], s) /\ Apart(s, S.ent[i])
    BY <2>2, <2>3, <2>4 DEF BlocksApart
  <2>6. IsEntity(T.ent[j]) /\ IsEntity(S.ent[i])
    BY <1>1 DEF IsMem
  <2> QED
    BY <1>2, <1>6, <2>2, <2>5, <2>6, CopiesApart
<1>10. BlocksApart(V, 0)
  <2> SUFFICES ASSUME NEW i \in DOMAIN V.ent, NEW j \in DOMAIN V.ent, i # j,
                      V.ent[i].code = "uniform", V.ent[j].code = "uniform",
                      V.ent[i].obj = V.ent[j].obj
               PROVE  Apart(V.ent[i], V.ent[j])
    BY DEF BlocksApart
  <2>1. CASE i \in DOMAIN T.ent /\ j \in DOMAIN T.ent
    <3>1. i # 0 /\ j # 0
      BY <1>1, <2>1 DEF IsMem, BoundedIds
    <3> QED
      BY <1>1, <1>7, <1>8, <2>1, <3>1 DEF BlocksApart
  <2>2. CASE i = m
    BY <1>5, <1>7, <1>8, <1>9, <2>2
  <2>3. CASE j = m
    BY <1>5, <1>7, <1>8, <1>9, <2>3
  <2> QED
    BY <1>7, <1>8, <2>1, <2>2, <2>3
<1>11. ASSUME NEW j \in DOMAIN V.ent \ DOMAIN S.ent
       PROVE  /\ V.ent[j].obj = dst
              /\ \E i \in DOMAIN S.ent : i <= k /\ S.ent[i].obj = src /\ CopyOf(V.ent[j], S.ent[i])
  <2>1. CASE j = m
    BY <1>5, <1>6, <1>7, <1>8, <2>1
  <2>2. CASE j # m
    <3>1. j \in DOMAIN T.ent \ DOMAIN S.ent /\ V.ent[j] = T.ent[j]
      BY <1>7, <1>8, <2>2
    <3>2. PICK i \in DOMAIN S.ent : i <= n /\ S.ent[i].obj = src /\ CopyOf(T.ent[j], S.ent[i])
      BY <3>1 DEF Copied
    <3>3. i <= k
      BY <3>2 DEF IsMem, BoundedIds
    <3> QED
      BY <3>1, <3>2, <3>3 DEF Copied
  <2> QED
    BY <2>1, <2>2
<1>12. \A j \in DOMAIN S.ent : j \in DOMAIN V.ent /\ V.ent[j] = S.ent[j]
  BY <1>1, <1>7, <1>8
<1>13. Copied(S, V, dst, src, k)
  BY <1>8, <1>10, <1>11, <1>12 DEF Copied
<1> QED
  BY <1>4, <1>13

(* The copy of a field is written over the copies that are there. *)
LEMMA CopyFieldFacts ==
  ASSUME NEW S, IsMem(S), BlocksApart(S, 0), NEW dst \in Obj, NEW src \in Obj, dst # src,
         \A j \in DOMAIN S.ent : S.ent[j].obj # dst,
         NEW n \in Nat, NEW T, Copied(S, T, dst, src, n), NEW keep \in SUBSET DOMAIN S.ent,
         NEW k \in DOMAIN S.ent, k = n + 1, S.ent[k].obj = src, S.ent[k].code = "field"
  PROVE  Copied(S, copySingleLiveBlock(T, dst, k, 0, 0, keep), dst, src, k)
<1> DEFINE s == S.ent[k]
           f == NewField(dst, s.off, s.type)
           h == [f EXCEPT !.value = s.value]
           m == NewId(T)
           F == fldCreate(T, dst, s.off, s.type)
           U == setValueOf(F, m, s.value, keep)
           V == [U EXCEPT !.live = U.live \cup {m}]
<1>1. /\ IsMem(T) /\ BlocksApart(T, 0) /\ T.ent[k] = s
      /\ \A j \in DOMAIN S.ent : j \in DOMAIN T.ent /\ T.ent[j] = S.ent[j]
  BY DEF Copied
<1>2. /\ IsEntity(s) /\ s.off \in Nat /\ s.size \in Nat /\ s.type \in Types /\ s.value \in Value
      /\ s.size = TypeSize(s.type) /\ Accessed(s.off, s.type) /\ s.off + s.size <= Size
  BY EntityFacts DEF IsMem, IsEntity
<1>3. copySingleLiveBlock(T, dst, k, 0, 0, keep) = V
  <2>1. ~IsUniform(T, k) /\ s.off + 0 = s.off
    BY <1>1, <1>2 DEF IsUniform
  <2> QED
    BY <1>1, <2>1 DEF copySingleLiveBlock
<1>4. /\ f.code = "field" /\ f.obj = dst /\ f.off = s.off /\ f.size = s.size
      /\ DOMAIN f = {"code", "obj", "off", "size", "type", "value"}
  BY <1>2, NewFieldFacts DEF NewField
<1>5. h.code = "field" /\ h.obj = dst /\ h.off = s.off /\ h.size = s.size /\ h.value = s.value
  BY <1>4
<1>6. CopyOf(h, s)
  BY <1>2, <1>5 DEF CopyOf
<1> HIDE DEF f
<1>7. /\ IsMem(F) /\ BlocksApart(F, 0) /\ m \notin DOMAIN T.ent
      /\ DOMAIN F.ent = DOMAIN T.ent \cup {m} /\ F.ent[m] = f
      /\ \A i \in DOMAIN T.ent : F.ent[i] = T.ent[i]
  BY <1>1, <1>2, CreateFacts DEF f
<1> HIDE DEF F, m, U
<1>8. Updated(F, U, m, h, keep)
  BY <1>2, <1>4, <1>7, SetValueUpdates DEF U
<1> HIDE DEF h
<1>9. IsMem(U) /\ BlocksApart(U, 0) /\ m \in DOMAIN U.ent /\ U.ent[m] = h
  BY <1>8 DEF Updated
<1>10. IsMem(V) /\ V.ent = U.ent
  <2>1. U.live \cup {m} \in SUBSET DOMAIN U.ent
    BY <1>9 DEF IsMem
  <2> QED
    BY <1>9, <2>1, LiveMem
<1> HIDE DEF V
<1>11. \A j \in DOMAIN S.ent : j \in DOMAIN V.ent /\ V.ent[j] = S.ent[j]
  <2> TAKE j \in DOMAIN S.ent
  <2>1. j \in DOMAIN F.ent \ {m} /\ F.ent[j] = S.ent[j] /\ F.ent[j].obj # h.obj
    BY <1>1, <1>5, <1>7
  <2> QED
    BY <1>8, <1>10, <2>1 DEF Updated
<1>12. ASSUME NEW j \in DOMAIN T.ent \ DOMAIN S.ent
       PROVE  /\ T.ent[j].obj = dst
              /\ \E i \in DOMAIN S.ent : i <= k /\ S.ent[i].obj = src /\ CopyOf(T.ent[j], S.ent[i])
  <2>1. PICK i \in DOMAIN S.ent : i <= n /\ S.ent[i].obj = src /\ CopyOf(T.ent[j], S.ent[i])
    BY DEF Copied
  <2>2. i <= k
    BY <2>1 DEF IsMem, BoundedIds
  <2> QED
    BY <2>1, <2>2 DEF Copied
<1>13. ASSUME NEW j \in DOMAIN U.ent \ DOMAIN S.ent
       PROVE  /\ U.ent[j].obj = dst
              /\ \E i \in DOMAIN S.ent : i <= k /\ S.ent[i].obj = src /\ CopyOf(U.ent[j], S.ent[i])
  <2>1. CASE j = m
    <3>1. k <= k
      BY DEF IsMem, BoundedIds
    <3> QED
      BY <1>5, <1>6, <1>9, <2>1, <3>1
  <2>2. CASE j # m /\ j \in DOMAIN F.ent /\ U.ent[j] = F.ent[j]
    BY <1>7, <1>12, <2>2
  <2>3. ASSUME j # m, NEW old \in DOMAIN F.ent \ {m}, F.ent[old].obj = dst,
               Settled(U.ent[j], j, F.ent[old], old, h, keep)
        PROVE  /\ U.ent[j].obj = dst
               /\ \E i \in DOMAIN S.ent : i <= k /\ S.ent[i].obj = src /\ CopyOf(U.ent[j], S.ent[i])
    <3> DEFINE b == T.ent[old]
    <3>1. F.ent[old] = b /\ old \in DOMAIN T.ent \ DOMAIN S.ent
      BY <1>1, <1>7, <2>3
    <3>2. PICK i \in DOMAIN S.ent : i <= k /\ S.ent[i].obj = src /\ CopyOf(b, S.ent[i])
      BY <1>12, <3>1
    <3>3. b.code = "uniform" /\ Left(U.ent[j], b, h)
      BY <2>3, <3>1 DEF Settled
    <3>4. IsEntity(U.ent[j]) /\ IsEntity(b) /\ IsEntity(S.ent[i])
      BY <1>1, <1>9, <3>1 DEF IsMem
    <3>5. /\ U.ent[j].off \in Nat /\ U.ent[j].size \in Nat /\ b.off \in Nat /\ b.size \in Nat
          /\ S.ent[i].off \in Nat /\ S.ent[i].size \in Nat
      BY <3>4, EntityFacts
    <3>6. CopyOf(U.ent[j], S.ent[i])
      BY <3>2, <3>3, <3>5 DEF CopyOf, Left, PieceOf
    <3>7. U.ent[j].obj = dst
      BY <2>3, <3>1, <3>3 DEF Left, PieceOf
    <3> QED
      BY <3>2, <3>6, <3>7
  <2> QED
    BY <1>5, <1>8, <2>1, <2>2, <2>3 DEF Updated
<1>14. BlocksApart(V, 0)
  BY <1>9, <1>10 DEF BlocksApart
<1>15. Copied(S, V, dst, src, k)
  BY <1>10, <1>11, <1>13, <1>14 DEF Copied
<1> QED
  BY <1>3, <1>15

LEMMA CopyFacts ==
  ASSUME NEW S, IsMem(S), BlocksApart(S, 0), NEW dst \in Obj, NEW src \in Obj, dst # src,
         \A j \in DOMAIN S.ent : S.ent[j].obj # dst,
         NEW ids \in SUBSET DOMAIN S.ent, \A k \in ids : S.ent[k].obj = src,
         NEW shift, NEW limit, \A k \in ids : shift[k] = 0 /\ limit[k] = 0,
         NEW keep \in SUBSET DOMAIN S.ent
  PROVE  Copied(S, CopyEach(S, dst, ids, shift, limit, keep), dst, src, LastId(S))
<1> DEFINE N == LastId(S)
<1>1. N \in Nat
  BY LastIdFacts DEF IsMem
<1>2. PICK d : /\ d[0] = S /\ d[N] = CopyEach(S, dst, ids, shift, limit, keep)
               /\ \A i \in 1..N : d[i] = CopyStep(d[i - 1], i, dst, ids, shift, limit, keep)
  BY <1>1, CopySteps
<1> HIDE DEF N
<1> DEFINE Good == {i \in Nat : i <= N => Copied(S, d[i], dst, src, i)}
<1>3. 0 \in Good
  <2>1. Copied(S, S, dst, src, 0)
    BY DEF Copied
  <2> QED
    BY <1>2, <2>1
<1>4. ASSUME NEW n \in Nat, n \in Good PROVE n + 1 \in Good
  <2> SUFFICES ASSUME n + 1 <= N PROVE Copied(S, d[n + 1], dst, src, n + 1)
    OBVIOUS
  <2>1. n <= N /\ n + 1 \in 1..N /\ (n + 1) - 1 = n
    BY <1>1
  <2> DEFINE T == d[n]
             k == n + 1
  <2>2. Copied(S, T, dst, src, n)
    BY <1>4, <2>1
  <2>3. d[n + 1] = CopyStep(T, k, dst, ids, shift, limit, keep)
    BY <1>2, <2>1
  <2>4. k = n + 1
    OBVIOUS
  <2> HIDE DEF T, k
  <2>5. CASE k \in ids
    <3>1. d[n + 1] = copySingleLiveBlock(T, dst, k, 0, 0, keep)
      BY <2>3, <2>5 DEF CopyStep
    <3>2. S.ent[k].code \in {"field", "uniform"} /\ S.ent[k].obj = src /\ k \in DOMAIN S.ent
      BY <2>5, EntityFacts DEF IsMem
    <3>3. Copied(S, copySingleLiveBlock(T, dst, k, 0, 0, keep), dst, src, k)
      BY <2>2, <2>4, <3>2, CopyBlockFacts, CopyFieldFacts
    <3> QED
      BY <2>4, <3>1, <3>3
  <2>6. CASE k \notin ids
    <3>1. d[n + 1] = T
      BY <2>3, <2>6 DEF CopyStep
    <3>2. DOMAIN S.ent \subseteq Nat
      BY DEF IsMem, BoundedIds
    <3>3. \A i \in DOMAIN S.ent : i <= n => i <= n + 1
      BY <3>2
    <3>4. Copied(S, T, dst, src, n + 1)
      BY <2>2, <3>3 DEF Copied
    <3> QED
      BY <3>1, <3>4
  <2> QED
    BY <2>5, <2>6
<1>5. N \in Good
  <2> HIDE DEF Good
  <2>1. Nat \subseteq Good
    BY <1>3, <1>4, Induction
  <2> QED
    BY <1>1, <2>1
<1> QED
  BY <1>1, <1>2, <1>5 DEF N

(* The copies fit when the bytes are copied as well. *)
LEMMA CopyFits ==
  ASSUME NEW S, IsMem(S), NEW dst, NEW src, NEW n, NEW T, Copied(S, T, dst, src, n),
         \A j \in DOMAIN S.ent : S.ent[j].obj # dst, NEW B, \A j \in DOMAIN S.ent : Fits(S.ent[j], B),
         NEW C, \A o \in Obj \ {dst} : C[o] = B[o], \A p \in 0..Size - 1 : C[dst][p] = B[src][p]
  PROVE  \A j \in DOMAIN T.ent : Fits(T.ent[j], C)
<1> TAKE j \in DOMAIN T.ent
<1>1. CASE j \in DOMAIN S.ent
  <2>1. T.ent[j] = S.ent[j] /\ Fits(S.ent[j], B) /\ S.ent[j].obj # dst
    BY <1>1 DEF Copied
  <2>2. S.ent[j].obj \in Obj
    BY <1>1, EntityFacts DEF IsMem
  <2> QED
    BY <2>1, <2>2 DEF Fits
<1>2. CASE j \notin DOMAIN S.ent
  <2> DEFINE e == T.ent[j]
  <2>1. e.obj = dst
    BY <1>2 DEF Copied
  <2>2. PICK k \in DOMAIN S.ent : S.ent[k].obj = src /\ CopyOf(e, S.ent[k])
    BY <1>2 DEF Copied
  <2> DEFINE s == S.ent[k]
  <2>3. IsEntity(e) /\ IsEntity(s) /\ Fits(s, B)
    BY DEF IsMem, Copied
  <2>4. /\ e.off \in Nat /\ e.size \in Nat /\ s.off \in Nat /\ s.size \in Nat
        /\ e.off + e.size <= Size /\ Size \in Nat /\ s.code \in {"field", "uniform"}
    BY <2>3, EntityFacts, RegionAssumption
  <2> HIDE DEF e, s
  <2>5. \A p \in e.off..e.off + e.size - 1 : p \in 0..Size - 1 /\ p \in s.off..s.off + s.size - 1
    BY <2>2, <2>4 DEF CopyOf, s
  <2>6. e.value = s.value /\ s.obj = src
    BY <2>2 DEF CopyOf, s
  <2>7. CASE s.code = "field"
    <3>1. e.off = s.off
      BY <2>2, <2>7 DEF CopyOf, s
    <3> QED
      BY <2>1, <2>3, <2>5, <2>6, <3>1 DEF Fits, e
  <2>8. CASE s.code = "uniform"
    <3>1. s.value \in {"null", "undef"}
      BY <2>3, <2>8 DEF IsEntity
    <3>2. \A p \in s.off..s.off + s.size - 1 : B[src][p] = ByteOf(s.value, 0)
      BY <2>3, <2>6, <3>1, UniformBytes DEF Fits
    <3>3. \A p \in e.off..e.off + e.size - 1 : C[dst][p] = ByteOf(s.value, 0)
      BY <2>5, <3>2
    <3>4. \A i : ByteOf(s.value, i) = ByteOf(s.value, 0)
      BY <3>1, UniformBytes
    <3>5. Fits(e, C)
      BY <2>1, <2>6, <3>3, <3>4 DEF Fits
    <3> QED
      BY <3>5 DEF e
  <2> QED
    BY <2>4, <2>7, <2>8
<1> QED
  BY <1>1, <1>2

-------------------------------------------------------------------------------
(* Blocks are written, objects emptied *)

BlockValue == {"null", "undef"}
NewBlock(obj, off, size, v) ==
  [code |-> "uniform", obj |-> obj, off |-> off, size |-> size, type |-> "", value |-> v]

LEMMA NewBlockFacts ==
  ASSUME NEW obj \in Obj, NEW off \in Nat, NEW size \in Nat, size > 0, off + size <= Size,
         NEW v \in BlockValue
  PROVE  /\ IsEntity(NewBlock(obj, off, size, v)) /\ NewBlock(obj, off, size, v).code = "uniform"
         /\ NewBlock(obj, off, size, v).obj = obj /\ NewBlock(obj, off, size, v).off = off
         /\ NewBlock(obj, off, size, v).size = size /\ NewBlock(obj, off, size, v).value = v
         /\ v \notin Ptr
<1> DEFINE e == NewBlock(obj, off, size, v)
<1>1. e.code = "uniform" /\ e.obj = obj /\ e.off = off /\ e.size = size /\ e.value = v
  BY DEF NewBlock
<1>2. e \in Entity
  BY DEF NewBlock, Entity, Value, BlockValue
<1> HIDE DEF e
<1>3. IsEntity(e)
  BY <1>1, <1>2 DEF IsEntity, BlockValue
<1> QED
  BY <1>1, <1>3, RegionAssumption DEF e, BlockValue

LEMMA BlockWritten ==
  ASSUME NEW S, IsMem(S), BlocksApart(S, 0), NEW obj \in Obj, NEW off \in Nat, NEW size \in Nat,
         size > 0, off + size <= Size, NEW v \in BlockValue, NEW keep
  PROVE  LET n == NewId(S)
         IN  /\ n \in Nat \ {0} /\ n \notin DOMAIN S.ent
             /\ Updated(S, writeUniformBlock(S, obj, off, size, v, keep), n,
                        NewBlock(obj, off, size, v), keep)
             /\ \E R : /\ IsMem(R) /\ BlocksApart(R, n) /\ DOMAIN R.ent = DOMAIN S.ent \cup {n}
                       /\ R.ent[n] = NewBlock(obj, off, size, v)
                       /\ \A j \in DOMAIN S.ent : R.ent[j] = S.ent[j]
                       /\ writeUniformBlock(S, obj, off, size, v, keep) = Overwrite(R, n, keep)
<1> DEFINE n == NewId(S)
           e == NewBlock(obj, off, size, v)
           T == Insert(S, e)
           R == [T EXCEPT !.live = T.live \cup {n}]
<1>1. writeUniformBlock(S, obj, off, size, v, keep) = Overwrite(R, n, keep)
  BY DEF writeUniformBlock, NewBlock
<1>2. IsEntity(e) /\ e.value \notin Ptr
  BY NewBlockFacts
<1> HIDE DEF e
<1>3. /\ IsMem(T) /\ n \in Nat \ {0} /\ n \notin DOMAIN S.ent
      /\ DOMAIN T.ent = DOMAIN S.ent \cup {n} /\ T.ent[n] = e
      /\ \A i \in DOMAIN S.ent : T.ent[i] = S.ent[i]
  BY <1>2, InsertFacts
<1> HIDE DEF T, n
<1>4. IsMem(R) /\ R.ent = T.ent
  <2>1. T.live \cup {n} \in SUBSET DOMAIN T.ent
    BY <1>3 DEF IsMem
  <2> QED
    BY <1>3, <2>1, LiveMem
<1> HIDE DEF R
<1>5. BlocksApart(R, n)
  <2>1. 0 \notin DOMAIN S.ent
    BY DEF IsMem, BoundedIds
  <2> QED
    BY <1>3, <1>4, <2>1 DEF BlocksApart
<1>6. Updated(S, Overwrite(R, n, keep), n, R.ent[n], keep)
  <2>1. /\ n \in DOMAIN R.ent /\ DOMAIN R.ent \ {n} = DOMAIN S.ent \ {n}
        /\ \A j \in DOMAIN S.ent \ {n} : R.ent[j] = S.ent[j]
    BY <1>3, <1>4
  <2> QED
    BY <1>4, <1>5, <2>1, OverwriteUpdates
<1> QED
  BY <1>1, <1>3, <1>4, <1>5, <1>6 DEF n, e

(* Nothing is left of an object that a block covers and that is removed again. *)
LEMMA KillFacts ==
  ASSUME NEW S, IsMem(S), BlocksApart(S, 0), NEW dst \in Obj, NEW keep \in SUBSET DOMAIN S.ent,
         \A f \in keep : S.ent[f].obj # dst
  PROVE  LET K == Destroy(writeUniformBlock(S, dst, 0, Size, "null", keep), NewId(S))
         IN  /\ IsMem(K) /\ BlocksApart(K, 0)
             /\ \A j \in DOMAIN K.ent : /\ j \in DOMAIN S.ent /\ K.ent[j] = S.ent[j]
                                        /\ S.ent[j].obj # dst
             /\ \A j \in DOMAIN S.ent : S.ent[j].obj # dst => j \in DOMAIN K.ent
<1> DEFINE n == NewId(S)
           e == NewBlock(dst, 0, Size, "null")
           W == writeUniformBlock(S, dst, 0, Size, "null", keep)
           K == Destroy(W, n)
<1>1. Size \in Nat /\ Size > 0 /\ 0 + Size <= Size /\ "null" \in BlockValue
  BY RegionAssumption DEF BlockValue
<1>2. n \notin DOMAIN S.ent
  BY <1>1, BlockWritten
<1>3. PICK R : /\ IsMem(R) /\ BlocksApart(R, n) /\ DOMAIN R.ent = DOMAIN S.ent \cup {n} /\ R.ent[n] = e
               /\ \A j \in DOMAIN S.ent : R.ent[j] = S.ent[j]
               /\ W = Overwrite(R, n, keep)
  BY <1>1, BlockWritten
<1>4. /\ IsEntity(e) /\ e.code = "uniform" /\ e.obj = dst /\ e.off = 0 /\ e.size = Size
      /\ e.value = "null" /\ "null" \notin Ptr
  BY <1>1, NewBlockFacts
<1> HIDE DEF n, e, W
<1>5. n \in DOMAIN R.ent
  BY <1>3
<1> DEFINE V == Overwrite(R, n, keep)
<1>6. W = V
  BY <1>3
<1>7. /\ IsMem(V) /\ BlocksApart(V, 0)
      /\ \A j \in DOMAIN R.ent :
           j \notin Overlaps(R, n) => j \in DOMAIN V.ent /\ V.ent[j] = R.ent[j]
      /\ \A j \in DOMAIN V.ent \ {n} :
           \/ j \in DOMAIN R.ent /\ V.ent[j] = R.ent[j] /\ j \notin Overlaps(R, n)
           \/ Became(V.ent[j], j, R, n, keep)
  BY <1>3, <1>5, OverwriteResult
<1> HIDE DEF V
<1>8. ASSUME NEW j \in DOMAIN V.ent \ {n}
      PROVE  j \in DOMAIN S.ent /\ V.ent[j] = S.ent[j] /\ S.ent[j].obj # dst
  <2>1. IsEntity(V.ent[j])
    BY <1>7 DEF IsMem
  <2>2. CASE j \in DOMAIN R.ent /\ V.ent[j] = R.ent[j] /\ j \notin Overlaps(R, n)
    <3>1. V.ent[j].obj # dst \/ Apart(V.ent[j], e)
      BY <1>3, <1>4, <1>5, <2>2, OverlapsFacts
    <3>2. ~Apart(V.ent[j], e)
      BY <1>1, <1>4, <2>1, EntityFacts DEF Apart
    <3> QED
      BY <1>3, <2>2, <3>1, <3>2
  <2>3. CASE Became(V.ent[j], j, R, n, keep)
    <3>1. PICK old \in Overlaps(R, n) : Settled(V.ent[j], j, R.ent[old], old, e, keep)
      BY <1>3, <2>3 DEF Became
    <3>2. old \in DOMAIN R.ent /\ old # n /\ R.ent[old].obj = dst
      BY <1>3, <1>4, <1>5, OverlapsFacts
    <3>3. old \in DOMAIN S.ent /\ S.ent[old].obj = dst
      BY <1>3, <3>2
    <3>4. CASE R.ent[old].code = "uniform"
      <4>1. Apart(V.ent[j], e)
        BY <1>4, <3>1, <3>4 DEF Settled, Left
      <4>2. ~Apart(V.ent[j], e)
        BY <1>1, <1>4, <2>1, EntityFacts DEF Apart
      <4> QED
        BY <4>1, <4>2
    <3>5. CASE R.ent[old].code # "uniform"
      <4>1. old \in keep
        BY <3>1, <3>5 DEF Settled
      <4> QED
        BY <3>3, <4>1
    <3> QED
      BY <3>4, <3>5
  <2> QED
    BY <1>7, <2>2, <2>3
<1>9. n \in DOMAIN V.ent /\ V.ent[n] = e
  BY <1>3, <1>5, <1>7 DEF Overlaps
<1>10. DOMAIN V = {"ent", "live", "used", "arena"} /\ V.live \subseteq DOMAIN V.ent
  BY <1>7 DEF IsMem
<1>11. K = Destroy(V, n)
  BY <1>6
<1> HIDE DEF K
<1>12. /\ DOMAIN K = DOMAIN V /\ K.ent = [i \in DOMAIN V.ent \ {n} |-> V.ent[i]]
       /\ K.live = V.live \ {n} /\ K.used = V.used
       /\ K.arena = [V.arena EXCEPT ![V.ent[n].obj] =
                       sub(@, V.ent[n].off, V.ent[n].off + V.ent[n].size, n)]
  BY <1>10, <1>11 DEF Destroy, Ids
<1>13. <<V.ent[n].value, n>> \notin V.used
  BY <1>4, <1>7, <1>9 DEF IsMem, UsersOf
<1>14. K.used = V.used \ {<<V.ent[n].value, n>>} /\ K.live \subseteq DOMAIN V.ent \ {n}
  BY <1>10, <1>12, <1>13
<1>15. IsMem(K)
  BY <1>7, <1>9, <1>12, <1>14, RemoveMem
<1>16. DOMAIN K.ent = DOMAIN V.ent \ {n} /\ \A j \in DOMAIN K.ent : K.ent[j] = V.ent[j]
  BY <1>12
<1>17. BlocksApart(K, 0)
  BY <1>7, <1>16 DEF BlocksApart
<1>18. ASSUME NEW j \in DOMAIN S.ent, S.ent[j].obj # dst PROVE j \in DOMAIN K.ent
  <2>1. j \in DOMAIN R.ent /\ R.ent[j] = S.ent[j] /\ j # n
    BY <1>2, <1>3
  <2>2. j \notin Overlaps(R, n)
    BY <1>3, <1>4, <1>5, <1>18, <2>1, OverlapsFacts
  <2> QED
    BY <1>7, <1>16, <2>1, <2>2
<1>19. \A j \in DOMAIN K.ent : j \in DOMAIN S.ent /\ K.ent[j] = S.ent[j] /\ S.ent[j].obj # dst
  BY <1>8, <1>16
<1> QED
  BY <1>15, <1>17, <1>18, <1>19 DEF K, W, n

-------------------------------------------------------------------------------
(* Operations of the program *)

Holds(S, k) == k = 0 \/ (k \in DOMAIN S.ent /\ S.ent[k].code = "field")
IsBytes(B) == DOMAIN B = Obj /\ \A o \in Obj : DOMAIN B[o] = 0..Size - 1
AllFit(S, B) == \A f \in DOMAIN S.ent : Fits(S.ent[f], B)
Consistent(S) == IsMem(S) /\ BlocksApart(S, 0)

LEMMA StoredFacts ==
  ASSUME NEW B, IsBytes(B), NEW h, IsEntity(h), NEW C,
         C = [B EXCEPT ![h.obj] = Stored(@, h.off, BytesOf(h.value, h.size), h.size)]
  PROVE  /\ IsBytes(C) /\ SameOutside(B, C, h) /\ Fits(h, C)
         /\ \A p \in h.off..h.off + h.size - 1 : C[h.obj][p] = ByteOf(h.value, p - h.off)
<1> DEFINE o == h.obj
           off == h.off
           n == h.size
           v == h.value
           D == Stored(B[o], off, BytesOf(v, n), n)
<1>1. o \in Obj /\ off \in Nat /\ n \in Nat /\ n > 0 /\ off + n <= Size /\ Size \in Nat
  BY EntityFacts, RegionAssumption
<1>2. D = [i \in 0..Size - 1 |-> IF i \in off..off + n - 1 THEN BytesOf(v, n)[i - off] ELSE B[o][i]]
  BY <1>1 DEF Stored, IsBytes
<1> HIDE DEF D
<1>3. DOMAIN C = Obj /\ C[o] = D /\ \A x \in Obj \ {o} : C[x] = B[x]
  BY <1>1 DEF IsBytes, D
<1>4. DOMAIN D = 0..Size - 1
  BY <1>2
<1>5. IsBytes(C)
  BY <1>3, <1>4 DEF IsBytes
<1>6. ASSUME NEW p \in off..off + n - 1 PROVE C[o][p] = ByteOf(v, p - off)
  <2>1. p \in 0..Size - 1 /\ p - off \in 0..n - 1
    BY <1>1
  <2>2. D[p] = BytesOf(v, n)[p - off]
    BY <1>2, <2>1
  <2> QED
    BY <1>1, <1>3, <2>1, <2>2, BytesOfFacts
<1>7. ASSUME NEW x \in Obj, NEW p \in 0..Size - 1, x # o \/ p < off \/ off + n <= p
      PROVE  B[x][p] = C[x][p]
  <2>1. CASE x # o
    BY <1>3, <2>1
  <2>2. CASE x = o
    <3>1. p \notin off..off + n - 1
      BY <1>1, <1>7, <2>2
    <3>2. D[p] = B[o][p]
      BY <1>2, <3>1
    <3> QED
      BY <1>3, <2>2, <3>2
  <2> QED
    BY <2>1, <2>2
<1> QED
  BY <1>5, <1>6, <1>7 DEF SameOutside, Fits

(* A value read is derived from something else that fits. *)
LEMMA ReadKeeps ==
  ASSUME NEW R, Consistent(R), NEW f \in DOMAIN R.ent, R.ent[f].code = "field", NEW other,
         other \in IF Initializers(R, f) = {} THEN {0} ELSE Initializers(R, f),
         NEW T, T = valueOf(R, f, other)
  PROVE  /\ Consistent(T) /\ \A k : Holds(R, k) => Holds(T, k)
         /\ AlignedFields => \A B : AllFit(R, B) => AllFit(T, B)
<1> DEFINE e == R.ent[f]
<1>1. IsMem(R) /\ BlocksApart(R, 0)
  BY DEF Consistent
<1>2. /\ IsEntity(e) /\ DOMAIN R = {"ent", "live", "used", "arena"} /\ R.live \subseteq DOMAIN R.ent
      /\ DOMAIN e = {"code", "obj", "off", "size", "type", "value"} /\ "inv" \notin Ptr
      /\ "unk" \notin Ptr /\ f # 0
  BY <1>1, EntityFacts, RegionAssumption DEF IsMem, BoundedIds
<1>3. CASE e.value # "inv"
  <2>1. T = R
    BY <1>3 DEF valueOf
  <2> QED
    BY <2>1
<1>4. CASE e.value = "inv" /\ other = 0
  <2> DEFINE h == [e EXCEPT !.value = "unk"]
  <2>1. T = [R EXCEPT !.ent[f].value = "unk", !.live = @ \cup {f}]
    BY <1>4 DEF valueOf
  <2>2. /\ DOMAIN T = DOMAIN R /\ T.ent = [R.ent EXCEPT ![f] = h] /\ T.live = R.live \cup {f}
        /\ T.arena = R.arena /\ T.used = R.used
    BY <1>2, <2>1
  <2>3. h.value = "unk" /\ h.code = "field"
    BY <1>2
  <2>4. <<e.value, f>> \notin R.used
    BY <1>1, <1>2, <1>4 DEF IsMem, UsersOf
  <2>5. IsMem(T)
    <3>1. "unk" \in Value /\ T.live \subseteq DOMAIN R.ent
      BY <1>2, <2>2 DEF Value
    <3>2. T.used = (R.used \ {<<e.value, f>>}) \cup (IF "unk" \in Ptr THEN {<<"unk", f>>} ELSE {})
      BY <1>2, <2>2, <2>4
    <3>3. DOMAIN T.arena = DOMAIN R.arena /\ \A o \in Obj : T.arena[o] = R.arena[o]
      BY <2>2
    <3> QED
      BY <1>1, <2>2, <3>1, <3>2, <3>3, RevalueMem
  <2> HIDE DEF h
  <2>6. DOMAIN T.ent = DOMAIN R.ent /\ T.ent[f] = h /\ \A j \in DOMAIN R.ent \ {f} : T.ent[j] = R.ent[j]
    BY <2>2
  <2>7. BlocksApart(T, 0)
    BY <1>1, <2>3, <2>6 DEF BlocksApart
  <2>8. \A k : Holds(R, k) => Holds(T, k)
    BY <2>3, <2>6 DEF Holds
  <2>9. \A B : AllFit(R, B) => AllFit(T, B)
    <3>1. \A B : Fits(h, B)
      BY <2>3 DEF Fits
    <3> QED
      BY <2>6, <3>1 DEF AllFit
  <2> QED
    BY <2>5, <2>7, <2>8, <2>9 DEF Consistent
<1>5. CASE e.value = "inv" /\ other # 0
  <2> DEFINE x == R.ent[other]
             h == [e EXCEPT !.value = reinterpreted(e, x)]
             keep == {f}
  <2>1. T = reinterpretObjData(R, f, other, keep) /\ f \in keep
    BY <1>5 DEF valueOf
  <2> HIDE DEF keep
  <2>2. other \in Overlaps(R, f)
    BY <1>5 DEF Initializers
  <2>3. other \in DOMAIN R.ent /\ other # f /\ x.obj = e.obj /\ ~Apart(x, e)
    BY <1>1, <2>2, OverlapsFacts
  <2>4. ~Apart(e, x) /\ IsEntity(x)
    BY <1>1, <2>3 DEF Apart, IsMem
  <2>5. /\ IsMem(T) /\ OthersKept(R, T, f)
        /\ \A i \in Remains(R, T, f) : Settled(T.ent[i], i, e, f, x, keep)
        /\ \A i, j \in Remains(R, T, f) : i # j => Apart(T.ent[i], T.ent[j])
        /\ f \in Remains(R, T, f)
    BY <1>1, <2>1, <2>3, <2>4, ReinterpretFacts
  <2>6. \A i \in Remains(R, T, f) : i = f /\ T.ent[i] = h
    BY <2>5 DEF Settled
  <2>7. BlocksApart(T, 0)
    BY <1>1, <1>2, <2>5, ReinterpretApart
  <2>8. h.code = "field"
    BY <1>2
  <2> HIDE DEF h
  <2>9. /\ f \in DOMAIN T.ent /\ T.ent[f] = h
        /\ \A j \in DOMAIN R.ent \ {f} : j \in DOMAIN T.ent /\ T.ent[j] = R.ent[j]
        /\ \A j \in DOMAIN T.ent \ {f} : j \in DOMAIN R.ent /\ T.ent[j] = R.ent[j]
    BY <2>5, <2>6 DEF Remains, OthersKept
  <2>10. \A k : Holds(R, k) => Holds(T, k)
    BY <2>8, <2>9 DEF Holds
  <2>11. ASSUME AlignedFields, NEW B, AllFit(R, B) PROVE AllFit(T, B)
    <3>1. Fits(x, B)
      BY <2>3, <2>11 DEF AllFit
    <3>2. Fits(h, B)
      BY <1>2, <2>3, <2>4, <2>11, <3>1, ReinterpretedFits DEF h
    <3> QED
      BY <2>9, <2>11, <3>2 DEF AllFit
  <2> QED
    BY <2>5, <2>7, <2>10, <2>11 DEF Consistent
<1> QED
  BY <1>3, <1>4, <1>5

LEMMA SameBytesFit ==
  ASSUME NEW S, IsMem(S), NEW B, NEW C, AllFit(S, B),
         \A o \in Obj, p \in 0..Size - 1 : B[o][p] = C[o][p]
  PROVE  AllFit(S, C)
<1> SUFFICES ASSUME NEW f \in DOMAIN S.ent PROVE Fits(S.ent[f], C)
  BY DEF AllFit
<1> DEFINE e == S.ent[f]
<1>1. /\ e.obj \in Obj /\ e.off \in Nat /\ e.size \in Nat /\ e.off + e.size <= Size /\ Size \in Nat
  BY EntityFacts, RegionAssumption DEF IsMem
<1>2. Fits(e, B)
  BY DEF AllFit
<1> HIDE DEF e
<1>3. \A p \in e.off..e.off + e.size - 1 : p \in 0..Size - 1
  BY <1>1
<1>4. Fits(e, C)
  BY <1>1, <1>2, <1>3 DEF Fits
<1> QED
  BY <1>4 DEF e

Written == Ptr \cup {"null", "undef", "unk"}

(* What the operations do to the bytes, and the fields they keep. *)
StoreIn(B, obj, off, v, n) == [B EXCEPT ![obj] = Stored(@, off, BytesOf(v, n), n)]
CopyIn(B, dst, src) == [B EXCEPT ![dst] = Stored(@, 0, [i \in 0..Size - 1 |-> B[src][0 + i]], Size)]
CloneIn(B, dst, src) == [B EXCEPT ![dst] = B[src]]
KeepOf(k) == {k} \ {0}
Zeros(ids) == [f \in ids |-> 0]

LEMMA WriteKeeps ==
  ASSUME NEW R, Consistent(R), NEW f \in DOMAIN R.ent, R.ent[f].code = "field",
         NEW v \in Written, NEW k, Holds(R, k), NEW keep, keep = KeepOf(k),
         NEW T, T = setValOfField(R, f, v, keep), NEW B, IsBytes(B),
         NEW C, C = StoreIn(B, R.ent[f].obj, R.ent[f].off, v, R.ent[f].size)
  PROVE  /\ Consistent(T) /\ Holds(T, k) /\ IsBytes(C)
         /\ AlignedFields /\ AllFit(R, B) => AllFit(T, C)
<1> DEFINE e == R.ent[f]
           h == [e EXCEPT !.value = v]
           L == R.live \cup {f}
           R1 == [R EXCEPT !.live = L]
<1>1. IsMem(R) /\ BlocksApart(R, 0) /\ IsEntity(e) /\ e \in Entity /\ R.live \subseteq DOMAIN R.ent
  BY DEF Consistent, IsMem, IsEntity
<1>2. T = setValueOf(R1, f, v, keep)
  BY DEF setValOfField
<1>3. v \in Value /\ v # "inv"
  BY RegionAssumption DEF Value, Written
<1> HIDE DEF L
<1>4. IsMem(R1) /\ R1.ent = R.ent
  <2>1. L \in SUBSET DOMAIN R.ent
    BY <1>1 DEF L
  <2> QED
    BY <1>1, <2>1, LiveMem
<1> HIDE DEF R1
<1>5. BlocksApart(R1, 0)
  BY <1>1, <1>4 DEF BlocksApart
<1>6. /\ h.code = "field" /\ h.obj = e.obj /\ h.off = e.off /\ h.size = e.size /\ h.type = e.type
      /\ h.value = v /\ h \in Entity
  BY <1>1, <1>3 DEF Entity
<1>7. IsEntity(h)
  <2> HIDE DEF h
  <2> QED
    BY <1>1, <1>6 DEF IsEntity
<1>8. f \in DOMAIN R1.ent /\ R1.ent[f].code = "field" /\ [R1.ent[f] EXCEPT !.value = v] = h
  BY <1>4
<1>9. Updated(R1, T, f, h, keep)
  BY <1>2, <1>3, <1>4, <1>5, <1>8, SetValueUpdates
<1>10. Consistent(T) /\ f \in DOMAIN T.ent /\ T.ent[f] = h
  BY <1>9 DEF Updated, Consistent
<1> HIDE DEF h
<1>11. Holds(T, k)
  <2>1. CASE k = f
    BY <1>6, <1>10, <2>1 DEF Holds
  <2>2. CASE k # f /\ k # 0
    <3>1. k \in keep \cap (DOMAIN R1.ent \ {f}) /\ R1.ent[k].code = "field"
      BY <1>4, <2>2 DEF Holds, KeepOf
    <3> QED
      BY <1>9, <3>1 DEF Updated, Holds
  <2>3. CASE k = 0
    BY <2>3 DEF Holds
  <2> QED
    BY <2>1, <2>2, <2>3
<1>12. C = [B EXCEPT ![h.obj] = Stored(@, h.off, BytesOf(h.value, h.size), h.size)]
  BY <1>6 DEF StoreIn
<1>13. /\ IsBytes(C) /\ SameOutside(B, C, h) /\ Fits(h, C)
       /\ \A p \in h.off..h.off + h.size - 1 : C[h.obj][p] = ByteOf(h.value, p - h.off)
  BY ONLY IsBytes(B), <1>7, <1>12, StoredFacts
<1>14. ASSUME AlignedFields, AllFit(R, B) PROVE AllFit(T, C)
  <2>1. AllFit(R1, B)
    BY <1>4, <1>14 DEF AllFit
  <2>2. CASE T = R1 /\ R1.ent[f].value = v /\ v \notin {"unk", "undef"}
    <3>1. \A p \in e.off..e.off + e.size - 1 : B[e.obj][p] = ByteOf(v, p - e.off)
      BY <1>3, <1>4, <1>14, <2>2 DEF AllFit, Fits
    <3>2. e.off \in Nat /\ e.size \in Nat
      BY <1>1, EntityFacts
    <3>3. ASSUME NEW o \in Obj, NEW p \in 0..Size - 1 PROVE B[o][p] = C[o][p]
      <4>1. CASE o # e.obj \/ p < e.off \/ e.off + e.size <= p
        BY <1>6, <1>13, <4>1 DEF SameOutside
      <4>2. CASE ~(o # e.obj \/ p < e.off \/ e.off + e.size <= p)
        <5>1. o = e.obj /\ p \in e.off..e.off + e.size - 1
          BY <3>2, <4>2, RegionAssumption
        <5> QED
          BY <1>6, <1>13, <3>1, <5>1
      <4> QED
        BY <4>1, <4>2
    <3>4. AllFit(R1, C)
      BY ONLY <1>4, <2>1, <3>3, SameBytesFit
    <3> QED
      BY <2>2, <3>4
  <2>3. ASSUME NEW W, IsMem(W), BlocksApart(W, f), DOMAIN W.ent = DOMAIN R1.ent, W.ent[f] = h,
               \A j \in DOMAIN R1.ent \ {f} : W.ent[j] = R1.ent[j], T = Overwrite(W, f, keep)
        PROVE  AllFit(T, C)
    <3>1. \A j \in DOMAIN W.ent \ {f} : Fits(W.ent[j], B)
      BY <2>1, <2>3 DEF AllFit
    <3>2. f \in DOMAIN W.ent
      BY <1>8, <2>3
    <3>3. \A j \in DOMAIN Overwrite(W, f, keep).ent : Fits(Overwrite(W, f, keep).ent[j], C)
      BY <1>13, <1>14, <2>3, <3>1, <3>2, OverwriteFits, SMTT(30)
    <3> QED
      BY <2>3, <3>3 DEF AllFit
  <2>4. \/ T = R1 /\ R1.ent[f].value = v /\ v \notin {"unk", "undef"}
        \/ \E W : /\ IsMem(W) /\ BlocksApart(W, f) /\ DOMAIN W.ent = DOMAIN R1.ent /\ W.ent[f] = h
                  /\ \A j \in DOMAIN R1.ent \ {f} : W.ent[j] = R1.ent[j]
                  /\ T = Overwrite(W, f, keep)
    <3> DEFINE x == [R1.ent[f] EXCEPT !.value = v]
    <3>1. \/ T = R1 /\ R1.ent[f].value = v /\ v \notin {"unk", "undef"}
          \/ \E W : /\ IsMem(W) /\ BlocksApart(W, f) /\ DOMAIN W.ent = DOMAIN R1.ent /\ W.ent[f] = x
                    /\ \A j \in DOMAIN R1.ent \ {f} : W.ent[j] = R1.ent[j]
                    /\ T = Overwrite(W, f, keep)
      BY ONLY <1>2, <1>3, <1>4, <1>5, <1>8, SetValueCases
    <3>2. x = h
      BY <1>8
    <3> HIDE DEF x
    <3> QED
      BY ONLY <3>1, <3>2
  <2> QED
    BY <2>2, <2>3, <2>4
<1> QED
  BY <1>10, <1>11, <1>13, <1>14

LEMMA ClearKeeps ==
  ASSUME NEW S, Consistent(S), NEW obj \in Obj, NEW off \in Nat, NEW size \in Nat,
         size > 0, off + size <= Size, NEW v \in BlockValue, NEW k, Holds(S, k),
         NEW keep, keep = KeepOf(k), NEW T, T = writeUniformBlock(S, obj, off, size, v, keep),
         NEW B, IsBytes(B), NEW C, C = StoreIn(B, obj, off, v, size)
  PROVE  /\ Consistent(T) /\ Holds(T, k) /\ IsBytes(C)
         /\ AlignedFields /\ AllFit(S, B) => AllFit(T, C)
<1> DEFINE n == NewId(S)
           h == NewBlock(obj, off, size, v)
<1>1. IsMem(S) /\ BlocksApart(S, 0)
  BY DEF Consistent
<1>2. n \notin DOMAIN S.ent /\ Updated(S, T, n, h, keep)
  BY <1>1, BlockWritten
<1>3. \E W : /\ IsMem(W) /\ BlocksApart(W, n) /\ DOMAIN W.ent = DOMAIN S.ent \cup {n} /\ W.ent[n] = h
             /\ \A j \in DOMAIN S.ent : W.ent[j] = S.ent[j]
             /\ T = Overwrite(W, n, keep)
  BY <1>1, BlockWritten
<1>4. IsEntity(h) /\ h.obj = obj /\ h.off = off /\ h.size = size /\ h.value = v
  BY NewBlockFacts
<1> HIDE DEF n, h
<1>5. C = [B EXCEPT ![h.obj] = Stored(@, h.off, BytesOf(h.value, h.size), h.size)]
  BY <1>4 DEF StoreIn
<1>6. IsBytes(C) /\ SameOutside(B, C, h) /\ Fits(h, C)
  BY <1>4, <1>5, StoredFacts
<1>7. Consistent(T)
  BY <1>2 DEF Updated, Consistent
<1>8. Holds(T, k)
  <2>1. CASE k # 0
    <3>1. k \in keep \cap (DOMAIN S.ent \ {n}) /\ S.ent[k].code = "field"
      BY <1>2, <2>1 DEF Holds, KeepOf
    <3> QED
      BY <1>2, <3>1 DEF Updated, Holds
  <2>2. CASE k = 0
    BY <2>2 DEF Holds
  <2> QED
    BY <2>1, <2>2
<1>9. ASSUME AlignedFields, AllFit(S, B) PROVE AllFit(T, C)
  <2>1. PICK W : /\ IsMem(W) /\ BlocksApart(W, n) /\ DOMAIN W.ent = DOMAIN S.ent \cup {n} /\ W.ent[n] = h
                 /\ \A j \in DOMAIN S.ent : W.ent[j] = S.ent[j]
                 /\ T = Overwrite(W, n, keep)
    BY <1>3
  <2>2. n \in DOMAIN W.ent /\ \A j \in DOMAIN W.ent \ {n} : Fits(W.ent[j], B)
    BY <1>9, <2>1 DEF AllFit
  <2>3. \A j \in DOMAIN Overwrite(W, n, keep).ent : Fits(Overwrite(W, n, keep).ent[j], C)
    BY <1>6, <1>9, <2>1, <2>2, OverwriteFits
  <2> QED
    BY <2>1, <2>3 DEF AllFit
<1> QED
  BY <1>6, <1>7, <1>8, <1>9

(* A copy of everything neither shifts nor cuts anything. *)
LEMMA TransferFacts ==
  ASSUME NEW S, Consistent(S), NEW dst \in Obj, NEW src \in Obj, dst # src,
         \A j \in DOMAIN S.ent : S.ent[j].obj # dst, NEW keep \in SUBSET DOMAIN S.ent
  PROVE  Copied(S, transferBlock(S, dst, src, 0, 0, Size, keep), dst, src, LastId(S))
<1> DEFINE winEnd == 0 + Size
           Exceeds(e) == e.off < 0 \/ winEnd < e.off + e.size
           ids == {f \in intersects(S.arena[src], 0, winEnd) :
                     f \in S.live /\ (Exceeds(S.ent[f]) => IsUniform(S, f))}
           Shift(e) == 0 - 0 - (IF e.off < 0 THEN e.off - 0 ELSE 0)
           Limit(e) == IF Exceeds(e) THEN e.size + e.off + winEnd - 0 - (e.off + e.size) ELSE 0
           shift == [f \in ids |-> Shift(S.ent[f])]
           limit == [f \in ids |-> Limit(S.ent[f])]
<1>1. transferBlock(S, dst, src, 0, 0, Size, keep) = CopyEach(S, dst, ids, shift, limit, keep)
  BY DEF transferBlock
<1>2. IsMem(S) /\ Size \in Nat /\ S.arena[src] = ArenaOf(S.ent, src)
  BY RegionAssumption DEF Consistent, IsMem
<1>3. ASSUME NEW f \in ids PROVE f \in DOMAIN S.ent /\ S.ent[f].obj = src
  BY <1>2 DEF intersects, Hits, ArenaOf, Item
<1>4. ASSUME NEW f \in ids PROVE shift[f] = 0 /\ limit[f] = 0
  <2> DEFINE e == S.ent[f]
  <2>1. e.off \in Nat /\ e.size \in Nat /\ e.off + e.size <= Size
    BY <1>2, <1>3, EntityFacts DEF IsMem
  <2>2. shift[f] = Shift(e) /\ limit[f] = Limit(e)
    OBVIOUS
  <2> HIDE DEF e, shift, limit
  <2>3. Shift(e) = 0
    BY <2>1
  <2>4. ~Exceeds(e)
    BY <1>2, <2>1
  <2>5. Limit(e) = 0
    BY <2>4
  <2> QED
    BY <2>2, <2>3, <2>5
<1> HIDE DEF ids, shift, limit
<1>5. BlocksApart(S, 0)
  BY DEF Consistent
<1>6. Copied(S, CopyEach(S, dst, ids, shift, limit, keep), dst, src, LastId(S))
  BY <1>2, <1>3, <1>4, <1>5, CopyFacts
<1> QED
  BY <1>1, <1>6

LEMMA WholeBytes ==
  ASSUME NEW b, DOMAIN b = 0..Size - 1, NEW new
  PROVE  /\ DOMAIN Stored(b, 0, new, Size) = 0..Size - 1
         /\ \A p \in 0..Size - 1 : Stored(b, 0, new, Size)[p] = new[p]
<1> DEFINE D == Stored(b, 0, new, Size)
<1>1. Size \in Nat
  BY RegionAssumption
<1>2. D = [i \in 0..Size - 1 |-> IF i \in 0..0 + Size - 1 THEN new[i - 0] ELSE b[i]]
  BY <1>1 DEF Stored
<1> HIDE DEF D
<1>3. DOMAIN D = 0..Size - 1
  BY <1>2
<1>4. ASSUME NEW p \in 0..Size - 1 PROVE D[p] = new[p]
  <2>1. p \in 0..0 + Size - 1 /\ p - 0 = p
    BY <1>1
  <2> QED
    BY <1>2, <2>1
<1> QED
  BY <1>3, <1>4 DEF D

LEMMA CopyKeeps ==
  ASSUME NEW S, Consistent(S), NEW dst \in Obj, NEW src \in Obj, dst # src, NEW k, Holds(S, k),
         NEW keep, keep = KeepOf(k), \A f \in keep : S.ent[f].obj # dst,
         NEW T, T = copyBlockOfRawMemory(S, dst, src, 0, 0, Size, keep),
         NEW B, IsBytes(B),
         NEW C, C = CopyIn(B, dst, src)
  PROVE  Consistent(T) /\ Holds(T, k) /\ IsBytes(C) /\ (AllFit(S, B) => AllFit(T, C))
<1> DEFINE K == Destroy(writeUniformBlock(S, dst, 0, Size, "null", keep), NewId(S))
<1>1. T = transferBlock(K, dst, src, 0, 0, Size, keep)
  BY DEF copyBlockOfRawMemory
<1>2. IsMem(S) /\ BlocksApart(S, 0) /\ keep \in SUBSET DOMAIN S.ent
  BY DEF Consistent, Holds, KeepOf
<1>3. /\ IsMem(K) /\ BlocksApart(K, 0)
      /\ \A j \in DOMAIN K.ent : j \in DOMAIN S.ent /\ K.ent[j] = S.ent[j] /\ S.ent[j].obj # dst
      /\ \A j \in DOMAIN S.ent : S.ent[j].obj # dst => j \in DOMAIN K.ent
  BY <1>2, KillFacts
<1> HIDE DEF K
<1>4. Consistent(K) /\ keep \in SUBSET DOMAIN K.ent /\ \A j \in DOMAIN K.ent : K.ent[j].obj # dst
  BY <1>2, <1>3 DEF Consistent
<1>5. Copied(K, T, dst, src, LastId(K))
  BY <1>1, <1>4, TransferFacts
<1>6. Consistent(T) /\ \A j \in DOMAIN K.ent : j \in DOMAIN T.ent /\ T.ent[j] = K.ent[j]
  BY <1>5 DEF Copied, Consistent
<1>7. Holds(T, k)
  <2>1. CASE k = 0
    BY <2>1 DEF Holds
  <2>2. CASE k # 0
    <3>1. k \in DOMAIN K.ent /\ K.ent[k] = S.ent[k]
      BY <1>3, <1>4, <2>2 DEF KeepOf
    <3> QED
      BY <1>6, <2>2, <3>1 DEF Holds
  <2> QED
    BY <2>1, <2>2
<1>8. /\ IsBytes(C) /\ \A o \in Obj \ {dst} : C[o] = B[o]
      /\ \A p \in 0..Size - 1 : C[dst][p] = B[src][p]
  <2> DEFINE new == [i \in 0..Size - 1 |-> B[src][0 + i]]
  <2>1. \A p \in 0..Size - 1 : new[p] = B[src][p]
    <3>1. \A p \in 0..Size - 1 : 0 + p = p
      OBVIOUS
    <3> QED
      BY <3>1
  <2> DEFINE D == Stored(B[dst], 0, new, Size)
  <2>2. DOMAIN C = Obj /\ C[dst] = D /\ \A o \in Obj \ {dst} : C[o] = B[o]
    BY DEF IsBytes, CopyIn
  <2> HIDE DEF new, D
  <2>3. DOMAIN D = 0..Size - 1 /\ \A p \in 0..Size - 1 : D[p] = new[p]
    BY WholeBytes DEF IsBytes, D
  <2>4. \A p \in 0..Size - 1 : D[p] = B[src][p]
    BY ONLY <2>1, <2>3
  <2>5. IsBytes(C)
    BY <2>2, <2>3 DEF IsBytes
  <2> QED
    BY ONLY <2>2, <2>4, <2>5
<1>9. ASSUME AllFit(S, B) PROVE AllFit(T, C)
  <2>1. \A j \in DOMAIN K.ent : Fits(K.ent[j], B)
    BY <1>3, <1>9 DEF AllFit
  <2>2. \A j \in DOMAIN T.ent : Fits(T.ent[j], C)
    BY <1>3, <1>4, <1>5, <1>8, <2>1, CopyFits, SMTT(30)
  <2> QED
    BY <2>2 DEF AllFit
<1> QED
  BY <1>6, <1>7, <1>8, <1>9

LEMMA CloneKeeps ==
  ASSUME NEW S, Consistent(S), NEW dst \in Obj, NEW src \in Obj, dst # src, NEW k, Holds(S, k),
         \A f \in DOMAIN S.ent : S.ent[f].obj # dst,
         NEW ids \in SUBSET DOMAIN S.ent, \A f \in ids : S.ent[f].obj = src,
         NEW none, none = {},
         NEW T, T = CopyEach(S, dst, ids, Zeros(ids), Zeros(ids), none),
         NEW B, IsBytes(B), NEW C, C = CloneIn(B, dst, src)
  PROVE  Consistent(T) /\ Holds(T, k) /\ IsBytes(C) /\ (AllFit(S, B) => AllFit(T, C))
<1> DEFINE zero == Zeros(ids)
<1>1. IsMem(S) /\ BlocksApart(S, 0) /\ none \in SUBSET DOMAIN S.ent /\ \A f \in ids : zero[f] = 0
  BY DEF Consistent, Zeros
<1>2. T = CopyEach(S, dst, ids, zero, zero, none)
  OBVIOUS
<1> HIDE DEF zero
<1>3. Copied(S, CopyEach(S, dst, ids, zero, zero, none), dst, src, LastId(S))
  BY <1>1, CopyFacts
<1>4. Copied(S, T, dst, src, LastId(S))
  BY <1>2, <1>3
<1>5. Consistent(T) /\ Holds(T, k)
  BY <1>4 DEF Copied, Consistent, Holds
<1>6. DOMAIN C = Obj /\ C[dst] = B[src] /\ \A o \in Obj \ {dst} : C[o] = B[o]
  BY DEF IsBytes, CloneIn
<1>7. IsBytes(C) /\ \A p \in 0..Size - 1 : C[dst][p] = B[src][p]
  BY <1>6 DEF IsBytes
<1>8. ASSUME AllFit(S, B) PROVE AllFit(T, C)
  <2>1. \A j \in DOMAIN S.ent : Fits(S.ent[j], B)
    BY <1>8 DEF AllFit
  <2>2. \A f \in DOMAIN S.ent : S.ent[f].obj # dst
    OBVIOUS
  <2>3. \A j \in DOMAIN T.ent : Fits(T.ent[j], C)
    BY ONLY <1>1, <1>4, <1>6, <1>7, <2>1, <2>2, CopyFits
  <2> QED
    BY <2>3 DEF AllFit
<1> QED
  BY <1>5, <1>7, <1>8

-------------------------------------------------------------------------------
(* The invariant *)

MemoryInv == Consistent(mem) /\ Holds(mem, held) /\ IsBytes(bytes)
FitInv == AllFit(mem, bytes)

(* The program copies whole objects only. *)
CopiesAreWhole == \A c \in Copies : c[1] = 0 /\ c[2] = 0 /\ c[3] = Size

LEMMA InitMemory ==
  ASSUME Init
  PROVE  MemoryInv /\ FitInv
<1> DEFINE ent == mem.ent
<1>1. /\ DOMAIN mem = {"ent", "live", "used", "arena"} /\ DOMAIN ent = {} /\ mem.live = {}
      /\ mem.used = {} /\ DOMAIN mem.arena = Obj /\ \A o \in Obj : mem.arena[o] = {}
  BY DEF Init
<1> HIDE DEF ent
<1>2. BoundedIds(DOMAIN ent)
  <2>1. \A i \in DOMAIN ent : i <= 0
    BY <1>1
  <2> QED
    BY <1>1, <2>1 DEF BoundedIds
<1>3. (\A o \in Obj : ArenaOf(ent, o) = {}) /\ UsersOf(ent) = {}
  BY <1>1 DEF ArenaOf, UsersOf
<1>4. IsMem(mem)
  BY <1>1, <1>2, <1>3 DEF IsMem, ent
<1>5. BlocksApart(mem, 0) /\ AllFit(mem, bytes)
  BY <1>1 DEF BlocksApart, AllFit, ent
<1>6. Holds(mem, held) /\ IsBytes(bytes)
  BY DEF Init, Holds, IsBytes
<1> QED
  BY <1>4, <1>5, <1>6 DEF MemoryInv, FitInv, Consistent

(* An access of the program is to a field inside its object. *)
LEMMA AccessFacts ==
  ASSUME NEW obj \in Obj, NEW g \in Fields[obj]
  PROVE  /\ g[1] \in Nat /\ g[2] \in Types /\ TypeSize(g[2]) \in Nat
         /\ g[1] + TypeSize(g[2]) <= Size /\ Accessed(g[1], g[2])
<1>1. g[2] \in Types /\ g[1] \in 0..Size - TypeSize(g[2]) /\ Size \in Nat
  BY RegionAssumption
<1>2. TypeSize(g[2]) \in Nat
  BY DEF TypeSize
<1> QED
  BY <1>1, <1>2 DEF Accessed

LEMMA LookupKeeps ==
  ASSUME NEW S, Consistent(S), NEW obj \in Obj, NEW g \in Fields[obj],
         NEW R, R = fldLookup(S, obj, g[1], g[2]), NEW f, f = FieldAt(R, obj, g[1], g[2])
  PROVE  /\ Consistent(R) /\ f \in DOMAIN R.ent /\ FieldOf(R.ent[f], obj, g[1], g[2])
         /\ \A k : Holds(S, k) => Holds(R, k)
         /\ \A B : AllFit(S, B) => AllFit(R, B)
<1> DEFINE off == g[1]
           type == g[2]
<1>1. off \in Nat /\ type \in Types /\ off + TypeSize(type) <= Size /\ Accessed(off, type)
  BY AccessFacts
<1>2. R = fldLookup(S, obj, off, type) /\ f = FieldAt(R, obj, off, type)
  OBVIOUS
<1>3. IsMem(S) /\ BlocksApart(S, 0)
  BY DEF Consistent
<1> HIDE DEF off, type
<1>4. /\ IsMem(R) /\ BlocksApart(R, 0)
      /\ f \in DOMAIN R.ent /\ FieldOf(R.ent[f], obj, off, type)
      /\ \A i \in DOMAIN S.ent : i \in DOMAIN R.ent /\ R.ent[i] = S.ent[i]
      /\ \A i \in DOMAIN R.ent \ DOMAIN S.ent : R.ent[i].value = "inv"
  BY <1>1, <1>2, <1>3, LookupFacts
<1>5. \A k : Holds(S, k) => Holds(R, k)
  BY <1>4 DEF Holds
<1>6. ASSUME NEW B, AllFit(S, B) PROVE AllFit(R, B)
  <2> SUFFICES ASSUME NEW i \in DOMAIN R.ent PROVE Fits(R.ent[i], B)
    BY DEF AllFit
  <2>1. CASE i \in DOMAIN S.ent
    BY <1>4, <1>6, <2>1 DEF AllFit
  <2>2. CASE i \notin DOMAIN S.ent
    BY <1>4, <2>2 DEF Fits
  <2> QED
    BY <2>1, <2>2
<1> QED
  BY <1>4, <1>5, <1>6 DEF Consistent, off, type

LEMMA NextMemory ==
  ASSUME CopiesAreWhole, MemoryInv, [Next]_vars
  PROVE  MemoryInv' /\ (AlignedFields /\ FitInv => FitInv')
<1> DEFINE Ok == /\ Consistent(mem') /\ Holds(mem', held') /\ IsBytes(bytes')
                 /\ AlignedFields /\ AllFit(mem, bytes) => AllFit(mem', bytes')
<1> SUFFICES Ok
  BY DEF MemoryInv, FitInv
<1>1. Consistent(mem) /\ Holds(mem, held) /\ IsBytes(bytes)
  BY DEF MemoryInv
<1>2. ASSUME NEW obj \in Obj, NEW g \in Fields[obj], Read(obj, g[1], g[2]) PROVE Ok
  <2> DEFINE R == fldLookup(mem, obj, g[1], g[2])
             f == FieldAt(R, obj, g[1], g[2])
  <2>1. /\ Consistent(R) /\ f \in DOMAIN R.ent /\ FieldOf(R.ent[f], obj, g[1], g[2])
        /\ \A k : Holds(mem, k) => Holds(R, k)
        /\ \A B : AllFit(mem, B) => AllFit(R, B)
    BY <1>1, LookupKeeps
  <2>2. PICK other \in IF Initializers(R, f) = {} THEN {0} ELSE Initializers(R, f) :
          mem' = valueOf(R, f, other)
    BY <1>2 DEF Read
  <2>3. held' = held /\ bytes' = bytes
    BY <1>2 DEF Read
  <2> HIDE DEF R, f
  <2>4. R.ent[f].code = "field"
    BY <2>1 DEF FieldOf
  <2>5. /\ Consistent(mem') /\ \A k : Holds(R, k) => Holds(mem', k)
        /\ AlignedFields => \A B : AllFit(R, B) => AllFit(mem', B)
    BY <2>1, <2>2, <2>4, ReadKeeps
  <2> QED
    BY <1>1, <2>1, <2>3, <2>5
<1>3. ASSUME NEW obj \in Obj, NEW g \in Fields[obj], NEW v \in Written, Write(obj, g[1], g[2], v)
      PROVE  Ok
  <2> DEFINE R == fldLookup(mem, obj, g[1], g[2])
             f == FieldAt(R, obj, g[1], g[2])
             keep == Keep
             e == R.ent[f]
  <2>1. /\ Consistent(R) /\ f \in DOMAIN R.ent /\ FieldOf(e, obj, g[1], g[2])
        /\ \A k : Holds(mem, k) => Holds(R, k)
        /\ \A B : AllFit(mem, B) => AllFit(R, B)
    BY <1>1, LookupKeeps
  <2>2. mem' = setValOfField(R, f, v, keep) /\ held' = held /\ keep = KeepOf(held)
    BY <1>3 DEF Write, Keep, KeepOf
  <2>3. bytes' = [bytes EXCEPT ![obj] = Stored(@, g[1], BytesOf(v, TypeSize(g[2])), TypeSize(g[2]))]
    BY <1>3 DEF Write
  <2> HIDE DEF R, f, keep
  <2>4. /\ e.code = "field" /\ e.obj = obj /\ e.off = g[1] /\ e.size = TypeSize(g[2])
    BY <2>1 DEF FieldOf
  <2>5. bytes' = StoreIn(bytes, e.obj, e.off, v, e.size)
    BY <2>3, <2>4 DEF StoreIn
  <2>6. Holds(R, held)
    BY <1>1, <2>1
  <2>7. /\ Consistent(mem') /\ Holds(mem', held) /\ IsBytes(bytes')
        /\ AlignedFields /\ AllFit(R, bytes) => AllFit(mem', bytes')
    BY <1>1, <2>1, <2>2, <2>4, <2>5, <2>6, WriteKeeps
  <2> QED
    BY <2>1, <2>2, <2>7
<1>4. ASSUME NEW obj \in Obj, NEW g \in Fields[obj], Hold(obj, g[1], g[2]) PROVE Ok
  <2>1. /\ mem' = fldLookup(mem, obj, g[1], g[2]) /\ held' = FieldAt(mem', obj, g[1], g[2])
        /\ bytes' = bytes
    BY <1>4 DEF Hold
  <2>2. /\ Consistent(mem') /\ held' \in DOMAIN mem'.ent /\ FieldOf(mem'.ent[held'], obj, g[1], g[2])
        /\ \A B : AllFit(mem, B) => AllFit(mem', B)
    BY <1>1, <2>1, LookupKeeps
  <2> QED
    BY <1>1, <2>1, <2>2 DEF Holds, FieldOf
<1>5. ASSUME NEW obj \in Obj, NEW v \in {"null", "undef"}, NEW w \in Windows[obj],
             Clear(obj, w[1], w[2], v)
      PROVE  Ok
  <2> DEFINE keep == Keep
             off == w[1]
             size == w[2]
  <2>1. mem' = writeUniformBlock(mem, obj, off, size, v, keep) /\ held' = held /\ keep = KeepOf(held)
    BY <1>5 DEF Clear, Keep, KeepOf
  <2>2. bytes' = StoreIn(bytes, obj, off, v, size)
    BY <1>5 DEF Clear, StoreIn
  <2>3. off \in Nat /\ size \in Nat /\ size > 0 /\ off + size <= Size
    <3>1. off \in 0..Size /\ size \in 1..Size - off /\ Size \in Nat
      BY RegionAssumption
    <3> QED
      BY <3>1
  <2>4. v \in BlockValue
    BY DEF BlockValue
  <2> HIDE DEF keep, off, size
  <2> QED
    BY <1>1, <2>1, <2>2, <2>3, <2>4, ClearKeeps
<1>6. ASSUME NEW dst \in Obj, NEW src \in Obj, dst # src, NEW c \in Copies,
             Copy(dst, src, c[1], c[2], c[3])
      PROVE  Ok
  <2> DEFINE keep == Keep
  <2>1. c[1] = 0 /\ c[2] = 0 /\ c[3] = Size
    BY DEF CopiesAreWhole
  <2>2. /\ mem' = copyBlockOfRawMemory(mem, dst, src, 0, 0, Size, keep) /\ held' = held
        /\ keep = KeepOf(held) /\ \A f \in keep : mem.ent[f].obj # dst
    BY <1>6, <2>1 DEF Copy, Keep, KeepOf
  <2>3. bytes' = CopyIn(bytes, dst, src)
    BY <1>6, <2>1 DEF Copy, CopyIn
  <2> HIDE DEF keep
  <2>4. /\ Consistent(mem') /\ Holds(mem', held) /\ IsBytes(bytes')
        /\ AllFit(mem, bytes) => AllFit(mem', bytes')
    BY <1>1, <1>6, <2>2, <2>3, CopyKeeps
  <2> QED
    BY <2>2, <2>4
<1>7. ASSUME NEW dst \in Obj, NEW src \in Obj, dst # src, objClone(dst, src) PROVE Ok
  <2> DEFINE ids == {f \in mem.live : mem.ent[f].obj = src}
             none == {}
  <2>1. /\ mem' = CopyEach(mem, dst, ids, Zeros(ids), Zeros(ids), none)
        /\ held' = held /\ bytes' = CloneIn(bytes, dst, src)
        /\ \A f \in DOMAIN mem.ent : mem.ent[f].obj # dst
    BY <1>7 DEF objClone, Ids, Zeros, CloneIn
  <2>2. ids \in SUBSET DOMAIN mem.ent /\ \A f \in ids : mem.ent[f].obj = src
    BY <1>1 DEF Consistent, IsMem
  <2>3. none = {}
    OBVIOUS
  <2> HIDE DEF ids, none
  <2>4. /\ Consistent(mem') /\ Holds(mem', held) /\ IsBytes(bytes')
        /\ AllFit(mem, bytes) => AllFit(mem', bytes')
    BY <1>1, <1>7, <2>1, <2>2, <2>3, CloneKeeps
  <2> QED
    BY <2>1, <2>4
<1>8. CASE fldLeave
  <2>1. mem' = mem /\ held' = 0 /\ bytes' = bytes
    BY <1>8 DEF fldLeave
  <2> QED
    BY <1>1, <2>1 DEF Holds
<1>9. CASE UNCHANGED vars
  <2>1. mem' = mem /\ held' = held /\ bytes' = bytes
    BY <1>9 DEF vars
  <2> QED
    BY <1>1, <2>1
<1> HIDE DEF Ok
<1> QED
  BY <1>2, <1>3, <1>4, <1>5, <1>6, <1>7, <1>8, <1>9 DEF Next, Written

(* Whatever fits the bytes agrees with them. *)
LEMMA FitsAgrees ==
  ASSUME NEW e, IsEntity(e), Fits(e, bytes)
  PROVE  Agrees(e)
<1> DEFINE v == e.value
           n == e.size
           B == bytes[e.obj]
<1>1. e.off \in Nat /\ n \in Nat /\ n > 0
  BY EntityFacts
<1>2. CASE v \in {"inv", "unk"}
  BY <1>2 DEF Agrees
<1>3. CASE v \notin {"inv", "unk"}
  <2> HIDE DEF v, n, B
  <2>1. \A p \in e.off..e.off + n - 1 : B[p] = ByteOf(v, p - e.off)
    BY <1>3 DEF Fits, v, n, B
  <2>2. ASSUME NEW i \in 0..n - 1
        PROVE  B[e.off + i] = IF e.code = "uniform" THEN BytesOf(v, 1)[0] ELSE BytesOf(v, n)[i]
    <3> DEFINE p == e.off + i
    <3>1. p \in e.off..e.off + n - 1 /\ p - e.off = i
      BY <1>1
    <3> HIDE DEF p
    <3>2. B[p] = ByteOf(v, i)
      BY <2>1, <3>1
    <3>3. BytesOf(v, n)[i] = ByteOf(v, i)
      BY <1>1, BytesOfFacts
    <3>4. BytesOf(v, 1)[0] = ByteOf(v, 0)
      BY BytesOfFacts
    <3>5. e.code = "uniform" => ByteOf(v, i) = ByteOf(v, 0)
      BY UniformBytes DEF IsEntity, v
    <3> QED
      BY <3>2, <3>3, <3>4, <3>5 DEF p
  <2> QED
    BY <2>2 DEF Agrees, v, n, B
<1> QED
  BY <1>2, <1>3

LEMMA InvSound ==
  ASSUME MemoryInv, FitInv
  PROVE  MemSound
BY FitsAgrees DEF MemoryInv, FitInv, Consistent, IsMem, AllFit, MemSound, Ids

LEMMA InvArena ==
  ASSUME MemoryInv
  PROVE  ArenaConsistent
<1>1. /\ \A o \in Obj : mem.arena[o] = ArenaOf(mem.ent, o)
      /\ BlocksApart(mem, 0) /\ 0 \notin DOMAIN mem.ent
  BY DEF MemoryInv, Consistent, IsMem, BoundedIds
<1>2. \A f, g \in Ids(mem) :
        f # g /\ IsUniform(mem, f) /\ IsUniform(mem, g) /\ mem.ent[f].obj = mem.ent[g].obj =>
          Apart(mem.ent[f], mem.ent[g])
  BY <1>1 DEF BlocksApart, Ids, IsUniform
<1> QED
  BY <1>1, <1>2 DEF ArenaConsistent, ArenaOf, Item, Apart, Ids

LEMMA InvUsed ==
  ASSUME MemoryInv
  PROVE  UsedByExact
BY DEF MemoryInv, Consistent, IsMem, UsersOf, UsedByExact, Ids

-------------------------------------------------------------------------------
(* Windows with parts taken out *)

(* Intervals in the window that share no point, and the points in them. *)
IsPieces(A, off, end) ==
  /\ \A x \in A : x = <<x[1], x[2], 0>> /\ x[1] \in Int /\ x[2] \in Int
                  /\ off <= x[1] /\ x[1] < x[2] /\ x[2] <= end
  /\ \A x, y \in A : x # y => x[2] <= y[1] \/ y[2] <= x[1]
Reaches(A, p) == \E x \in A : x[1] <= p /\ p < x[2]

LEMMA SubPieces ==
  ASSUME NEW A, NEW off \in Int, NEW end \in Int, IsPieces(A, off, end),
         NEW beg \in Int, NEW fin \in Int, beg < fin
  PROVE  /\ IsPieces(sub(A, beg, fin, 0), off, end)
         /\ \A p \in Int : Reaches(sub(A, beg, fin, 0), p) <=> Reaches(A, p) /\ ~(beg <= p /\ p < fin)
<1> DEFINE R == sub(A, beg, fin, 0)
           Hit(y) == beg < y[2] /\ y[1] < fin
           Lower(y) == <<y[1], beg, 0>>
           Upper(y) == <<fin, y[2], 0>>
           hits == {y \in A : Hit(y)}
           From(x, y) == \/ ~Hit(y) /\ x = y
                         \/ Hit(y) /\ y[1] < beg /\ x = Lower(y)
                         \/ Hit(y) /\ fin < y[2] /\ x = Upper(y)
<1>1. \A x \in A : x[1] \in Int /\ x[2] \in Int /\ x[3] = 0 /\ x = <<x[1], x[2], 0>>
                   /\ off <= x[1] /\ x[1] < x[2] /\ x[2] <= end
  BY DEF IsPieces
<1>2. \A x, y \in A : x # y => x[2] <= y[1] \/ y[2] <= x[1]
  BY DEF IsPieces
<1>3. {y \in Hits(A, beg, fin) : y[3] = 0} = hits
  BY <1>1 DEF Hits
<1>4. R = (A \ hits) \cup {Lower(y) : y \in {z \in hits : z[1] < beg}}
                     \cup {Upper(y) : y \in {z \in hits : fin < z[2]}}
  BY <1>3 DEF sub
<1>5. \A y \in A : Lower(y)[1] = y[1] /\ Lower(y)[2] = beg /\ Upper(y)[1] = fin /\ Upper(y)[2] = y[2]
                   /\ Lower(y) = <<Lower(y)[1], Lower(y)[2], 0>> /\ Upper(y) = <<Upper(y)[1], Upper(y)[2], 0>>
  OBVIOUS
<1> HIDE DEF R, Lower, Upper
<1>6. \A x : x \in R <=> \E y \in A : From(x, y)
  BY <1>4
<1>7. ASSUME NEW x \in R, NEW y \in A, From(x, y)
      PROVE  /\ x[1] \in Int /\ x[2] \in Int /\ x = <<x[1], x[2], 0>>
             /\ y[1] <= x[1] /\ x[1] < x[2] /\ x[2] <= y[2]
             /\ x[2] <= beg \/ fin <= x[1]
  BY <1>1, <1>5, <1>7
<1>8. ASSUME NEW x \in R
      PROVE  x = <<x[1], x[2], 0>> /\ x[1] \in Int /\ x[2] \in Int
             /\ off <= x[1] /\ x[1] < x[2] /\ x[2] <= end
  <2>1. PICK y \in A : From(x, y)
    BY <1>6
  <2> HIDE DEF From
  <2> QED
    BY <1>1, <1>7, <2>1
<1>9. ASSUME NEW x \in R, NEW y \in R, x # y PROVE x[2] <= y[1] \/ y[2] <= x[1]
  <2>1. PICK s \in A : From(x, s)
    BY <1>6
  <2>2. PICK t \in A : From(y, t)
    BY <1>6
  <2>3. CASE s # t
    <3> HIDE DEF From
    <3>1. s[2] <= t[1] \/ t[2] <= s[1]
      BY <1>2, <2>3
    <3>2. /\ s[1] <= x[1] /\ x[2] <= s[2] /\ t[1] <= y[1] /\ y[2] <= t[2]
          /\ x[1] \in Int /\ x[2] \in Int /\ y[1] \in Int /\ y[2] \in Int
      BY <1>7, <2>1, <2>2
    <3>3. s[1] \in Int /\ s[2] \in Int /\ t[1] \in Int /\ t[2] \in Int
      BY <1>1
    <3> QED
      BY <3>1, <3>2, <3>3
  <2>4. CASE s = t
    BY <1>1, <1>5, <1>9, <2>1, <2>2, <2>4
  <2> QED
    BY <2>3, <2>4
<1>10. IsPieces(R, off, end)
  BY <1>8, <1>9 DEF IsPieces
<1>11. ASSUME NEW p \in Int, Reaches(R, p) PROVE Reaches(A, p) /\ ~(beg <= p /\ p < fin)
  <2>1. PICK x \in R : x[1] <= p /\ p < x[2]
    BY <1>11 DEF Reaches
  <2>2. PICK y \in A : From(x, y)
    BY <1>6
  <2> HIDE DEF From
  <2>3. /\ x[1] \in Int /\ x[2] \in Int /\ y[1] <= x[1] /\ x[2] <= y[2]
        /\ x[2] <= beg \/ fin <= x[1]
    BY <1>7, <2>2
  <2>4. y[1] \in Int /\ y[2] \in Int
    BY <1>1
  <2>5. y[1] <= p /\ p < y[2] /\ ~(beg <= p /\ p < fin)
    BY <2>1, <2>3, <2>4
  <2> QED
    BY <2>5 DEF Reaches
<1>12. ASSUME NEW p \in Int, Reaches(A, p), ~(beg <= p /\ p < fin) PROVE Reaches(R, p)
  <2>1. PICK y \in A : y[1] <= p /\ p < y[2]
    BY <1>12 DEF Reaches
  <2>2. y[1] \in Int /\ y[2] \in Int
    BY <1>1
  <2>3. CASE ~Hit(y)
    BY <1>6, <2>1, <2>3 DEF Reaches
  <2>4. CASE Hit(y) /\ p < beg
    <3>1. From(Lower(y), y)
      BY <2>1, <2>2, <2>4
    <3> QED
      BY <1>5, <1>6, <2>1, <2>4, <3>1 DEF Reaches
  <2>5. CASE Hit(y) /\ fin <= p
    <3>1. From(Upper(y), y)
      BY <2>1, <2>2, <2>5
    <3> QED
      BY <1>5, <1>6, <2>1, <2>5, <3>1 DEF Reaches
  <2> QED
    BY <1>12, <2>3, <2>4, <2>5
<1> QED
  BY <1>10, <1>11, <1>12 DEF R

(* The window without the intervals lo[i] .. hi[i] - 1, one after another. *)
Taken(T, i, F, lo, hi) == IF i \in F THEN sub(T, lo[i], hi[i], 0) ELSE T
Remain(d, N, off, end, F, lo, hi) ==
  d = [i \in 0..N |-> IF i = 0 THEN add({}, off, end, 0) ELSE Taken(d[i - 1], i, F, lo, hi)]

LEMMA RemainExists ==
  ASSUME NEW N \in Nat, NEW off, NEW end, NEW F, NEW lo, NEW hi
  PROVE  \E d : Remain(d, N, off, end, F, lo, hi)
<1> DEFINE S == add({}, off, end, 0)
           Step(T, i) == Taken(T, i, F, lo, hi)
           IsDone(d, n) == d = [i \in 0..n |-> IF i = 0 THEN S ELSE Step(d[i - 1], i)]
           Reached == {n \in Nat : \E d : IsDone(d, n)}
<1> HIDE DEF Step, S
<1>1. 0 \in Reached
  <2> DEFINE d == [i \in 0..0 |-> S]
  <2>1. IsDone(d, 0)
    OBVIOUS
  <2> QED
    BY <2>1
<1>2. ASSUME NEW n \in Nat, n \in Reached PROVE n + 1 \in Reached
  <2>1. PICK d : IsDone(d, n)
    BY <1>2
  <2> DEFINE c == [i \in 0..n + 1 |-> IF i = n + 1 THEN Step(d[n], n + 1) ELSE d[i]]
  <2>2. \A i \in 0..n : c[i] = d[i] /\ d[i] = IF i = 0 THEN S ELSE Step(d[i - 1], i)
    BY <2>1
  <2>3. c[n + 1] = Step(c[n], n + 1)
    BY <2>2
  <2>4. \A i \in 0..n + 1 : c[i] = IF i = 0 THEN S ELSE Step(c[i - 1], i)
    <3> TAKE i \in 0..n + 1
    <3>1. CASE i = n + 1
      BY <2>3, <3>1
    <3>2. CASE i \in 1..n
      <4>1. i - 1 \in 0..n /\ i \in 0..n /\ i # 0
        BY <3>2
      <4> HIDE DEF c
      <4> QED
        BY <2>2, <4>1
    <3>3. CASE i = 0
      <4>1. 0 \in 0..n
        OBVIOUS
      <4> HIDE DEF c
      <4> QED
        BY <2>2, <3>3, <4>1
    <3> QED
      BY <3>1, <3>2, <3>3
  <2>5. IsDone(c, n + 1)
    <3>1. DOMAIN c = 0..n + 1 /\ c = [i \in 0..n + 1 |-> c[i]]
      OBVIOUS
    <3> HIDE DEF c
    <3> QED
      BY <2>4, <3>1
  <2>6. \E x : IsDone(x, n + 1)
    BY <2>5, Zenon
  <2> HIDE DEF IsDone
  <2> QED
    BY <2>6
<1>3. N \in Reached
  <2> HIDE DEF Reached
  <2>1. Nat \subseteq Reached
    BY <1>1, <1>2, Induction
  <2> QED
    BY <2>1
<1>4. \E d : IsDone(d, N)
  BY <1>3, Zenon
<1> QED
  BY <1>4, Zenon DEF Remain, Step, S

LEMMA RemainPoints ==
  ASSUME NEW d, NEW N \in Nat, NEW off \in Int, NEW end \in Int, off < end, NEW F, NEW lo, NEW hi,
         Remain(d, N, off, end, F, lo, hi),
         \A k \in F : lo[k] \in Int /\ hi[k] \in Int /\ lo[k] < hi[k]
  PROVE  /\ IsPieces(d[N], off, end)
         /\ \A p \in Int : Reaches(d[N], p) <=>
              /\ off <= p /\ p < end
              /\ \A k \in F : k \in 1..N => ~(lo[k] <= p /\ p < hi[k])
<1> DEFINE Out(p, n) == \A k \in F : k \in 1..n => ~(lo[k] <= p /\ p < hi[k])
           Good(n) == /\ IsPieces(d[n], off, end)
                      /\ \A p \in Int : Reaches(d[n], p) <=> off <= p /\ p < end /\ Out(p, n)
           Reached == {n \in Nat : n <= N => Good(n)}
<1>1. d[0] = {<<off, end, 0>>} /\ \A i \in 1..N : d[i] = Taken(d[i - 1], i, F, lo, hi)
  <2> DEFINE Step(T, i) == Taken(T, i, F, lo, hi)
             S == add({}, off, end, 0)
  <2>1. d = [i \in 0..N |-> IF i = 0 THEN S ELSE Step(d[i - 1], i)]
    BY DEF Remain
  <2>2. S = {<<off, end, 0>>}
    BY DEF add
  <2> HIDE DEF Step, S
  <2>3. d[0] = S /\ \A i \in 1..N : d[i] = Step(d[i - 1], i)
    BY <2>1
  <2> QED
    BY <2>2, <2>3 DEF Step
<1>2. 0 \in Reached
  <2>1. IsPieces(d[0], off, end)
    BY <1>1 DEF IsPieces
  <2>2. \A p \in Int : Reaches(d[0], p) <=> off <= p /\ p < end
    BY <1>1 DEF Reaches
  <2> QED
    BY <2>1, <2>2
<1>3. ASSUME NEW n \in Nat, n \in Reached PROVE n + 1 \in Reached
  <2> SUFFICES ASSUME n + 1 <= N PROVE Good(n + 1)
    OBVIOUS
  <2> DEFINE m == n + 1
  <2>1. Good(n) /\ d[m] = Taken(d[n], m, F, lo, hi)
    BY <1>1, <1>3
  <2>2. \A k : k \in 1..m <=> k \in 1..n \/ k = m
    OBVIOUS
  <2> HIDE DEF m
  <2>3. CASE m \in F
    <3>1. lo[m] \in Int /\ hi[m] \in Int /\ lo[m] < hi[m] /\ d[m] = sub(d[n], lo[m], hi[m], 0)
      BY <2>1, <2>3 DEF Taken
    <3>2. /\ IsPieces(d[m], off, end)
          /\ \A p \in Int : Reaches(d[m], p) <=> Reaches(d[n], p) /\ ~(lo[m] <= p /\ p < hi[m])
      BY <2>1, <3>1, SubPieces
    <3>3. \A p \in Int : Out(p, m) <=> Out(p, n) /\ ~(lo[m] <= p /\ p < hi[m])
      BY <2>2, <2>3
    <3> HIDE DEF Out
    <3> QED
      BY <2>1, <3>2, <3>3 DEF m
  <2>4. CASE m \notin F
    <3>1. d[m] = d[n]
      BY <2>1, <2>4 DEF Taken
    <3>2. \A p \in Int : Out(p, m) <=> Out(p, n)
      BY <2>2, <2>4
    <3> HIDE DEF Out
    <3> QED
      BY <2>1, <3>1, <3>2 DEF m
  <2> QED
    BY <2>3, <2>4
<1>4. N \in Reached
  <2> HIDE DEF Reached
  <2>1. Nat \subseteq Reached
    BY <1>2, <1>3, Induction
  <2> QED
    BY <2>1
<1> QED
  BY <1>4

LEMMA WithoutFieldsPoints ==
  ASSUME NEW S, IsMem(S), NEW fields, fields \subseteq DOMAIN S.ent,
         NEW off \in Int, NEW size \in Int, size > 0
  PROVE  /\ IsPieces(WithoutFields(S, fields, off, size), off, off + size)
         /\ \A p \in Int : Reaches(WithoutFields(S, fields, off, size), p) <=>
              /\ off <= p /\ p < off + size
              /\ \A f \in fields : ~(S.ent[f].off <= p /\ p < S.ent[f].off + S.ent[f].size)
<1> DEFINE N == LastId(S)
           end == off + size
           lo == [f \in fields |-> S.ent[f].off]
           hi == [f \in fields |-> S.ent[f].off + S.ent[f].size]
           first == add({}, off, off + size, 0)
           IsLeft(d) == d = [i \in 0..N |->
                              IF i = 0 THEN first
                              ELSE IF i \in fields
                              THEN sub(d[i - 1], S.ent[i].off, S.ent[i].off + S.ent[i].size, 0)
                              ELSE d[i - 1]]
           d == CHOOSE d : IsLeft(d)
<1>1. N \in Nat /\ \A f \in fields : f \in 1..N
  <2>1. BoundedIds(DOMAIN S.ent) /\ \A f \in fields : f \in DOMAIN S.ent
    BY DEF IsMem
  <2>2. N \in Nat /\ \A f \in fields : f <= N
    BY <2>1, LastIdFacts
  <2>3. \A f \in fields : f \in Nat \ {0}
    BY <2>1 DEF BoundedIds
  <2> HIDE DEF N
  <2> QED
    BY <2>2, <2>3
<1>2. \A f \in fields : S.ent[f].off \in Nat /\ S.ent[f].size \in Nat /\ S.ent[f].size > 0
  BY EntityFacts DEF IsMem
<1>3. \A f \in fields : lo[f] = S.ent[f].off /\ hi[f] = S.ent[f].off + S.ent[f].size
  OBVIOUS
<1> HIDE DEF N, lo, hi
<1>4. \A c : Remain(c, N, off, end, fields, lo, hi) <=> IsLeft(c)
  <2> TAKE c
  <2> HIDE DEF first
  <2> DEFINE G(i) == IF i = 0 THEN first ELSE Taken(c[i - 1], i, fields, lo, hi)
             H(i) == IF i = 0 THEN first
                     ELSE IF i \in fields
                     THEN sub(c[i - 1], S.ent[i].off, S.ent[i].off + S.ent[i].size, 0)
                     ELSE c[i - 1]
  <2>1. \A i \in 0..N : G(i) = H(i)
    BY <1>3 DEF Taken
  <2> HIDE DEF G, H
  <2>2. [i \in 0..N |-> G(i)] = [i \in 0..N |-> H(i)]
    BY <2>1
  <2> QED
    BY <2>2, Zenon DEF Remain, G, H, first
<1>5. \E c : IsLeft(c)
  <2> HIDE DEF IsLeft
  <2>1. PICK c : Remain(c, N, off, end, fields, lo, hi)
    BY <1>1, RemainExists
  <2> QED
    BY <1>4, <2>1
<1>6. IsLeft(d)
  BY <1>5, Zenon
<1>7. WithoutFields(S, fields, off, size) = d[N]
  BY Zenon DEF WithoutFields, N
<1> HIDE DEF IsLeft, d
<1>8. Remain(d, N, off, end, fields, lo, hi)
  BY <1>4, <1>6
<1>9. end \in Int /\ off < end
  OBVIOUS
<1>10. \A f \in fields : lo[f] \in Int /\ hi[f] \in Int /\ lo[f] < hi[f]
  BY <1>2, <1>3
<1> HIDE DEF end
<1>11. /\ IsPieces(d[N], off, end)
       /\ \A p \in Int : Reaches(d[N], p) <=>
            /\ off <= p /\ p < end
            /\ \A k \in fields : k \in 1..N => ~(lo[k] <= p /\ p < hi[k])
  BY <1>1, <1>8, <1>9, <1>10, RemainPoints
<1> QED
  BY <1>1, <1>3, <1>7, <1>11 DEF end

LEMMA LookupPoints ==
  ASSUME NEW A, \A x \in A : x[3] = 0
  PROVE  /\ \A gap \in reverseLookup(A, 0) : \E x \in A : gap[1] = x[1] /\ gap[2] = x[2]
         /\ \A x \in A : \E gap \in reverseLookup(A, 0) : gap[1] = x[1] /\ gap[2] = x[2]
<1> DEFINE Ends(x) == <<x[1], x[2]>>
<1>1. reverseLookup(A, 0) = {Ends(x) : x \in A}
  BY DEF reverseLookup
<1>2. \A x \in A : Ends(x)[1] = x[1] /\ Ends(x)[2] = x[2]
  OBVIOUS
<1> HIDE DEF Ends
<1> QED
  BY <1>1, <1>2

LEMMA WithoutGapsPoints ==
  ASSUME NEW A, NEW off \in Nat, NEW size \in Nat, size > 0, off + size <= Size,
         IsPieces(A, off, off + size)
  PROVE  /\ IsPieces(WithoutGaps(reverseLookup(A, 0), off, size), off, off + size)
         /\ \A p \in Int : Reaches(WithoutGaps(reverseLookup(A, 0), off, size), p) =>
              off <= p /\ p < off + size /\ ~Reaches(A, p)
<1> DEFINE gaps == reverseLookup(A, 0)
           end == off + size
           At(i) == CHOOSE gap \in gaps : gap[1] = i - 1
           F == {i \in 1..Size : \E gap \in gaps : gap[1] = i - 1}
           lo == [i \in F |-> At(i)[1]]
           hi == [i \in F |-> At(i)[2]]
           first == add({}, off, off + size, 0)
           IsLeft(d) == d = [i \in 0..Size |->
                              IF i = 0 THEN first
                              ELSE IF \E gap \in gaps : gap[1] = i - 1
                              THEN LET gap == CHOOSE gap \in gaps : gap[1] = i - 1
                                   IN  sub(d[i - 1], gap[1], gap[2], 0)
                              ELSE d[i - 1]]
           d == CHOOSE d : IsLeft(d)
<1>1. Size \in Nat /\ end \in Int /\ off < end
  BY RegionAssumption
<1>2. /\ \A x \in A : x = <<x[1], x[2], 0>> /\ x[1] \in Int /\ x[2] \in Int
                      /\ off <= x[1] /\ x[1] < x[2] /\ x[2] <= end
      /\ \A x, y \in A : x # y => x[2] <= y[1] \/ y[2] <= x[1]
  BY DEF IsPieces
<1>3. \A x \in A : x[3] = 0
  BY <1>2
<1>4. (\A gap \in gaps : \E x \in A : gap[1] = x[1] /\ gap[2] = x[2])
      /\ \A x \in A : \E gap \in gaps : gap[1] = x[1] /\ gap[2] = x[2]
  BY <1>3, LookupPoints
<1>5. ASSUME NEW x \in A, NEW y \in A, x[1] = y[1] PROVE x = y
  BY <1>2, <1>5
<1> HIDE DEF gaps
<1>6. \A i \in F : At(i) \in gaps /\ At(i)[1] = i - 1
  OBVIOUS
<1>7. ASSUME NEW i \in F PROVE \E x \in A : lo[i] = x[1] /\ hi[i] = x[2] /\ x[1] = i - 1
  <2>1. At(i) \in gaps /\ At(i)[1] = i - 1
    BY <1>6
  <2>2. lo[i] = At(i)[1] /\ hi[i] = At(i)[2]
    OBVIOUS
  <2> HIDE DEF At, lo, hi, F
  <2> QED
    BY <1>4, <2>1, <2>2
<1>8. ASSUME NEW x \in A PROVE \E i \in F : lo[i] = x[1] /\ hi[i] = x[2]
  <2> DEFINE i == x[1] + 1
  <2>1. i \in 1..Size /\ i - 1 = x[1]
    BY <1>1, <1>2
  <2> HIDE DEF i
  <2>2. i \in F
    BY <1>4, <2>1
  <2>3. PICK y \in A : lo[i] = y[1] /\ hi[i] = y[2] /\ y[1] = i - 1
    BY <1>7, <2>2
  <2>4. y = x
    BY <1>5, <2>1, <2>3
  <2> QED
    BY <2>2, <2>3, <2>4
<1>9. \A i \in F : lo[i] = At(i)[1] /\ hi[i] = At(i)[2]
  OBVIOUS
<1>10. \A i \in 1..Size : i \in F <=> \E gap \in gaps : gap[1] = i - 1
  OBVIOUS
<1>11. F \subseteq 1..Size
  OBVIOUS
<1> HIDE DEF F, lo, hi
<1>12. \A c : Remain(c, Size, off, end, F, lo, hi) <=> IsLeft(c)
  <2> TAKE c
  <2> DEFINE G(i) == IF i = 0 THEN first ELSE Taken(c[i - 1], i, F, lo, hi)
             H(i) == IF i = 0 THEN first
                     ELSE IF \E gap \in gaps : gap[1] = i - 1
                     THEN LET gap == CHOOSE gap \in gaps : gap[1] = i - 1
                          IN  sub(c[i - 1], gap[1], gap[2], 0)
                     ELSE c[i - 1]
  <2> HIDE DEF first
  <2>1. ASSUME NEW i \in 0..Size PROVE G(i) = H(i)
    <3>1. CASE i = 0
      BY <3>1
    <3>2. CASE i \in 1..Size /\ i \in F
      <4>1. i # 0 /\ \E gap \in gaps : gap[1] = i - 1
        BY <1>1, <1>10, <3>2
      <4>2. H(i) = sub(c[i - 1], At(i)[1], At(i)[2], 0)
        BY <4>1, Zenon
      <4>3. G(i) = sub(c[i - 1], lo[i], hi[i], 0)
        BY <3>2, <4>1 DEF Taken
      <4> QED
        BY <1>9, <3>2, <4>2, <4>3
    <3>3. CASE i \in 1..Size /\ i \notin F
      <4>1. i # 0 /\ ~\E gap \in gaps : gap[1] = i - 1
        BY <1>1, <1>10, <3>3
      <4>2. H(i) = c[i - 1]
        BY <4>1, Zenon
      <4>3. G(i) = c[i - 1]
        BY <3>3, <4>1 DEF Taken
      <4> QED
        BY <4>2, <4>3
    <3> QED
      BY <1>1, <3>1, <3>2, <3>3
  <2> HIDE DEF G, H
  <2>2. [i \in 0..Size |-> G(i)] = [i \in 0..Size |-> H(i)]
    BY <2>1
  <2> QED
    BY <2>2, Zenon DEF Remain, G, H, first
<1>13. \E c : IsLeft(c)
  <2> HIDE DEF IsLeft
  <2>1. PICK c : Remain(c, Size, off, end, F, lo, hi)
    BY <1>1, RemainExists
  <2> QED
    BY <1>12, <2>1
<1>14. IsLeft(d)
  BY <1>13, Zenon
<1>15. WithoutGaps(gaps, off, size) = d[Size]
  BY Zenon DEF WithoutGaps
<1> HIDE DEF IsLeft, d
<1>16. Remain(d, Size, off, end, F, lo, hi)
  BY <1>12, <1>14
<1>17. \A i \in F : lo[i] \in Int /\ hi[i] \in Int /\ lo[i] < hi[i]
  BY <1>2, <1>7
<1> HIDE DEF end
<1>18. /\ IsPieces(d[Size], off, end)
       /\ \A p \in Int : Reaches(d[Size], p) <=>
            /\ off <= p /\ p < end
            /\ \A i \in F : i \in 1..Size => ~(lo[i] <= p /\ p < hi[i])
  BY <1>1, <1>16, <1>17, RemainPoints
<1>19. ASSUME NEW p \in Int, Reaches(d[Size], p) PROVE off <= p /\ p < end /\ ~Reaches(A, p)
  <2>1. \A x \in A : ~(x[1] <= p /\ p < x[2])
    <3> TAKE x \in A
    <3>1. PICK i \in F : lo[i] = x[1] /\ hi[i] = x[2]
      BY <1>8
    <3> QED
      BY <1>11, <1>18, <1>19, <3>1
  <2> QED
    BY <1>18, <1>19, <2>1 DEF Reaches
<1> QED
  BY <1>15, <1>18, <1>19 DEF gaps, end

(* Every byte that is called covered is a byte of a block or field with    *)
(* that value.                                                             *)
LEMMA CoveredPoints ==
  ASSUME NEW S, IsMem(S), NEW obj \in Obj, NEW off \in Nat, NEW size \in Nat, size > 0,
         off + size <= Size, NEW v, NEW chunk \in findCoveringUniBlocks(S, obj, off, size, v),
         NEW p \in chunk[1]..chunk[2] - 1
  PROVE  \E f \in DOMAIN S.ent : /\ S.ent[f].obj = obj /\ S.ent[f].value = v
                                 /\ p \in S.ent[f].off..S.ent[f].off + S.ent[f].size - 1
<1> DEFINE fit == {f \in intersects(S.arena[obj], off, off + size) :
                     S.ent[f].value = v /\ (IsUniform(S, f) \/ v = "null")}
           left == WithoutFields(S, fit, off, size)
           rest == WithoutGaps(reverseLookup(left, 0), off, size)
<1>1. chunk \in reverseLookup(rest, 0)
  BY DEF findCoveringUniBlocks
<1>2. \A f \in fit : f \in DOMAIN S.ent /\ S.ent[f].obj = obj /\ S.ent[f].value = v
  <2>1. S.arena[obj] = ArenaOf(S.ent, obj)
    BY DEF IsMem
  <2>2. \A x \in ArenaOf(S.ent, obj) : x[3] \in DOMAIN S.ent /\ S.ent[x[3]].obj = obj
    BY DEF ArenaOf, Item
  <2> QED
    BY <2>1, <2>2 DEF intersects, Hits
<1> HIDE DEF fit
<1>3. off \in Int /\ size \in Int /\ fit \subseteq DOMAIN S.ent
  BY <1>2
<1>4. /\ IsPieces(left, off, off + size)
      /\ \A q \in Int : Reaches(left, q) <=>
           /\ off <= q /\ q < off + size
           /\ \A f \in fit : ~(S.ent[f].off <= q /\ q < S.ent[f].off + S.ent[f].size)
  BY <1>3, WithoutFieldsPoints
<1> HIDE DEF left
<1>5. /\ IsPieces(rest, off, off + size)
      /\ \A q \in Int : Reaches(rest, q) => off <= q /\ q < off + size /\ ~Reaches(left, q)
  BY <1>4, WithoutGapsPoints
<1> HIDE DEF rest
<1>6. \A x \in rest : x[3] = 0 /\ x[1] \in Int /\ x[2] \in Int
  BY <1>5 DEF IsPieces
<1>7. PICK x \in rest : chunk[1] = x[1] /\ chunk[2] = x[2]
  BY <1>1, <1>6, LookupPoints
<1>8. x[1] \in Int /\ x[2] \in Int /\ p \in Int /\ x[1] <= p /\ p < x[2]
  BY <1>6, <1>7
<1>9. off <= p /\ p < off + size /\ ~Reaches(left, p)
  BY <1>5, <1>8 DEF Reaches
<1>10. PICK f \in fit : S.ent[f].off <= p /\ p < S.ent[f].off + S.ent[f].size
  BY <1>4, <1>8, <1>9
<1>11. S.ent[f].off \in Nat /\ S.ent[f].size \in Nat
  BY <1>2, EntityFacts DEF IsMem
<1> QED
  BY <1>2, <1>8, <1>10, <1>11

LEMMA InvCoverage ==
  ASSUME MemoryInv, FitInv
  PROVE  CoverageIsTrue
<1> SUFFICES ASSUME NEW o \in Obj, NEW v \in {"null", "undef"}, NEW w \in Windows[o],
                    NEW chunk \in findCoveringUniBlocks(mem, o, w[1], w[2], v),
                    NEW p \in chunk[1]..chunk[2] - 1
             PROVE  bytes[o][p] = BytesOf(v, 1)[0]
  BY DEF CoverageIsTrue
<1> DEFINE off == w[1]
           size == w[2]
<1>1. off \in Nat /\ size \in Nat /\ size > 0 /\ off + size <= Size
  <2>1. off \in 0..Size /\ size \in 1..Size - off /\ Size \in Nat
    BY RegionAssumption
  <2> QED
    BY <2>1
<1>2. chunk \in findCoveringUniBlocks(mem, o, off, size, v)
  OBVIOUS
<1> HIDE DEF off, size
<1>3. IsMem(mem)
  BY DEF MemoryInv, Consistent
<1>4. PICK f \in DOMAIN mem.ent :
        /\ mem.ent[f].obj = o /\ mem.ent[f].value = v
        /\ p \in mem.ent[f].off..mem.ent[f].off + mem.ent[f].size - 1
  BY <1>1, <1>2, <1>3, CoveredPoints
<1>5. bytes[o][p] = ByteOf(v, p - mem.ent[f].off)
  BY <1>4 DEF FitInv, AllFit, Fits
<1>6. BytesOf(v, 1)[0] = ByteOf(v, 0)
  BY BytesOfFacts
<1> QED
  BY <1>5, <1>6, UniformBytes

-------------------------------------------------------------------------------
(* Theorems *)

LEMMA AlwaysMemory ==
  ASSUME CopiesAreWhole
  PROVE  MemSpec => []MemoryInv
<1>1. Init => MemoryInv
  BY InitMemory
<1>2. MemoryInv /\ [Next]_vars => MemoryInv'
  BY NextMemory
<1> QED
  BY <1>1, <1>2, PTL DEF MemSpec

LEMMA AlwaysFits ==
  ASSUME CopiesAreWhole, AlignedFields
  PROVE  MemSpec => [](MemoryInv /\ FitInv)
<1>1. Init => MemoryInv /\ FitInv
  BY InitMemory
<1>2. MemoryInv /\ FitInv /\ [Next]_vars => MemoryInv' /\ FitInv'
  BY NextMemory
<1> QED
  BY <1>1, <1>2, PTL DEF MemSpec

(* chkArenaConsistency(): whatever the program reads, writes, clears or    *)
(* copies, and whatever that splits, trims or destroys, the arena of every *)
(* object lists exactly the bytes of its fields and blocks, and no two     *)
(* uniform blocks share a byte.                                            *)
THEOREM ArenaStaysConsistent ==
  ASSUME CopiesAreWhole
  PROVE  MemSpec => []ArenaConsistent
<1>1. MemoryInv => ArenaConsistent
  BY InvArena
<1> QED
  BY <1>1, AlwaysMemory, PTL

(* releaseValueOf() and registerValueOf(): the users recorded for a        *)
(* pointer are always exactly the fields whose value it is.                *)
THEOREM UsersStayExact ==
  ASSUME CopiesAreWhole
  PROVE  MemSpec => []UsedByExact
<1>1. MemoryInv => UsedByExact
  BY InvUsed
<1> QED
  BY <1>1, AlwaysMemory, PTL

(* reinterpretObjData() and splitBlockByObject(): every value of a field   *)
(* or block, cached ones included, agrees with the bytes the program has   *)
(* written, when it copies whole objects and its fields of pointers and    *)
(* integers do not overlap half-way.                                       *)
THEOREM MemoryIsSound ==
  ASSUME CopiesAreWhole, AlignedFields
  PROVE  MemSpec => []MemSound
<1>1. MemoryInv /\ FitInv => MemSound
  BY InvSound
<1> QED
  BY <1>1, AlwaysFits, PTL

(* findCoveringUniBlocks(): every byte that it calls covered by blocks of  *)
(* a value has that value in the memory, whatever was written before; the  *)
(* join and the comparison of heaps rely on it.                            *)
THEOREM CoverageStaysTrue ==
  ASSUME CopiesAreWhole, AlignedFields
  PROVE  MemSpec => []CoverageIsTrue
<1>1. MemoryInv /\ FitInv => CoverageIsTrue
  BY InvCoverage
<1> QED
  BY <1>1, AlwaysFits, PTL

===============================================================================
