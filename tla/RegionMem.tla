------------------------------- MODULE RegionMem -------------------------------
(***************************************************************************)
(* The memory of objects in a symbolic heap (sl/symheap.cc), next to the   *)
(* bytes of a concrete memory.  An object has typed fields, which may      *)
(* overlap each other, and uniform blocks, which stand for many fields of  *)
(* one value.  A write reinterprets everything it overlaps; a read may     *)
(* create a field whose value is derived from what it overlaps.  Fields    *)
(* that are not live stay in the arena as a cache of values read.          *)
(*                                                                         *)
(* Values: "null" (VAL_NULL), "undef" (an unknown value of uninitialized   *)
(* memory), "unk" (any other fresh unknown value), the pointers in Ptr,    *)
(* and "inv" for a field that has no value yet.  Strings are left out.     *)
(***************************************************************************)
EXTENDS FiniteSets, IntervalArena

CONSTANTS
    Obj,        \* objects
    Size,       \* their size in bytes
    Ptr,        \* pointer values
    Fields,     \* obj -> fields the program accesses: <<offset, type>>
    Windows,    \* obj -> windows it clears: <<offset, size>>
    Copies,     \* windows it copies: <<offset in dst, offset in src, size>>
    MaxEnt      \* bound on the number of fields and blocks

TypeSize(type) == IF type = "char" THEN 1 ELSE 2     \* "char", "int", "ptr"

Types == {"char", "int", "ptr"}

ASSUME RegionAssumption ==
    /\ Size \in Nat \ {0}
    /\ \A o \in Obj : \A f \in Fields[o] : f[2] \in Types /\ f[1] \in 0 .. Size - TypeSize(f[2])
    /\ \A o \in Obj : \A w \in Windows[o] : w[1] \in 0 .. Size /\ w[2] \in 1 .. Size - w[1]
    /\ Ptr \cap {"null", "undef", "unk", "inv"} = {}

VARIABLES
    mem,        \* fields and blocks of all objects, live ones, arenas, users of pointers
    held,       \* the field that a handle of the caller refers to, 0 if none
    bytes       \* the concrete memory: obj -> offset -> byte

vars == <<mem, held, bytes>>

(* A byte is zero, undefined, of unknown content or a part of a pointer. *)
Part(p, i) == <<p, i>>
BytesOf(v, n) == [i \in 0 .. n - 1 |-> CASE v = "null" -> <<"zero", 0>> [] v = "undef" -> <<"undef", 0>>
                                         [] v = "unk" -> <<"any", 0>> [] OTHER -> Part(v, i)]
Stored(b, off, new, n) == [i \in DOMAIN b |-> IF i \in off .. off + n - 1 THEN new[i - off] ELSE b[i]]

Ids(S) == DOMAIN S.ent
IsUniform(S, f) == S.ent[f].code = "uniform"
LastId(S) == CHOOSE n \in Ids(S) \cup {0} : \A i \in Ids(S) : i <= n
NewId(S) == CHOOSE i \in 1 .. LastId(S) + 1 : i \notin Ids(S) /\ \A j \in 1 .. i - 1 : j \in Ids(S)
Room(n) == Cardinality(Ids(mem)) + n <= MaxEnt    \* bound before a step that adds n
Bounded == Cardinality(Ids(mem')) <= MaxEnt       \* bound after a copy

Init == /\ mem = [ent |-> [i \in {} |-> 0], live |-> {}, used |-> {}, arena |-> [o \in Obj |-> {}]]
        /\ held = 0
        /\ bytes = [o \in Obj |-> [i \in 0 .. Size - 1 |-> <<"any", 0>>]]

(***************************************************************************)
(* Steps on the representation.  They take and return S, the value of mem. *)
(***************************************************************************)
Insert(S, e) ==
    LET n == NewId(S)
    IN  [S EXCEPT !.ent = [i \in Ids(S) \cup {n} |-> IF i = n THEN e ELSE S.ent[i]],
                  !.arena[e.obj] = add(@, e.off, e.off + e.size, n)]

fldCreate(S, obj, off, type) ==
    Insert(S, [code |-> "field", obj |-> obj, off |-> off, size |-> TypeSize(type),
               type |-> type, value |-> "inv"])

(* The users of a pointer value follow the values of the fields. *)
releaseValueOf(S, f) == [S EXCEPT !.used = @ \ {<<S.ent[f].value, f>>}]
registerValueOf(S, f, v) == [S EXCEPT !.ent[f].value = v,
                                      !.used = IF v \in Ptr THEN @ \cup {<<v, f>>} ELSE @]

Destroy(S, f) ==
    LET e == S.ent[f]
    IN  [S EXCEPT !.ent = [i \in Ids(S) \ {f} |-> S.ent[i]], !.live = @ \ {f},
                  !.arena[e.obj] = sub(@, e.off, e.off + e.size, f)]

(* Make room for the field in a uniform block: nothing to do if they agree *)
(* on the value, otherwise the block goes, is split in two or is trimmed.  *)
splitBlockByObject(S, block, fld) ==
    LET b    == S.ent[block]
        h    == S.ent[fld]
        pre  == h.off - b.off
        post == b.size - h.size - pre
        shiftBeg == pre <= 0
        trim     == IF shiftBeg THEN h.size + pre ELSE b.size - pre
        beg      == IF shiftBeg THEN b.off ELSE h.off
        n        == NewId(S)
    IN  CASE h.code = "field" /\ b.value = h.value -> S
          [] ~(h.code = "field" /\ b.value = h.value) /\ pre <= 0 /\ post <= 0 -> Destroy(S, block)
          [] ~(h.code = "field" /\ b.value = h.value) /\ pre > 0 /\ post > 0 ->
               LET T == [S EXCEPT !.ent[block].size = pre,
                                  !.arena[b.obj] = sub(@, b.off + pre, b.off + b.size, block)]
               IN  [Insert(T, [b EXCEPT !.off = h.off + h.size, !.size = post])
                      EXCEPT !.live = @ \cup {n}]
          [] OTHER ->
               [S EXCEPT !.ent[block].size = @ - trim,
                         !.ent[block].off = IF shiftBeg THEN @ + trim ELSE @,
                         !.arena[b.obj] = sub(@, beg, beg + trim, block)]

isCoveredByBlock(f, b) == b.off <= f.off /\ f.off + f.size <= b.off + b.size

canReinterpretPtr(dst, src) == /\ dst.size = src.size
                               /\ {dst.type, src.type} = {"ptr", "int"}

(* The value of a field that another field or block overlaps.  An address, *)
(* and VAL_NULL is one (VT_OBJECT), survives between a pointer and an      *)
(* integer of its size.                                                    *)
reinterpreted(old, by) ==
    IF by.code = "uniform" /\ isCoveredByBlock(old, by) THEN by.value
    ELSE IF by.code = "field" /\ by.value \in Ptr \cup {"null"} /\ canReinterpretPtr(old, by)
    THEN by.value
    ELSE "unk"

(* Mutant: a field that is still referred to keeps its old value. *)
reinterpretObjData_Stale(S, old, fld, keep) ==
    IF IsUniform(S, old) THEN splitBlockByObject(S, old, fld)
    ELSE IF old \in keep THEN [S EXCEPT !.live = @ \ {old}]
    ELSE Destroy(releaseValueOf(S, old), old)

(* Mutant: the old value of a field is not released. *)
reinterpretObjData_NoRelease(S, old, fld, keep) ==
    IF IsUniform(S, old) THEN splitBlockByObject(S, old, fld)
    ELSE LET R == [S EXCEPT !.live = @ \ {old}]
         IN  IF old \notin keep THEN Destroy(R, old)
             ELSE registerValueOf(R, old, reinterpreted(S.ent[old], S.ent[fld]))

(* fld overlaps old: a block is split, a field gets a new value and is     *)
(* live no more.  Only the fields in keep survive that.                    *)
reinterpretObjData(S, old, fld, keep) ==
    IF IsUniform(S, old) THEN splitBlockByObject(S, old, fld)
    ELSE LET R == [releaseValueOf(S, old) EXCEPT !.live = @ \ {old}]
         IN  IF old \notin keep THEN Destroy(R, old)
             ELSE registerValueOf(R, old, reinterpreted(S.ent[old], S.ent[fld]))

(* What fld overlaps. *)
Overlaps(S, fld) ==
    LET e == S.ent[fld]
    IN  intersects(S.arena[e.obj], e.off, e.off + e.size) \ {fld}

(* Everything that fld overlaps is reinterpreted, in the order of the ids. *)
Overwrite(S, fld, keep) ==
    LET done[i \in 0 .. LastId(S)] ==
          IF i = 0 THEN S
          ELSE IF i \in Overlaps(S, fld) THEN reinterpretObjData(done[i - 1], i, fld, keep)
          ELSE done[i - 1]
    IN  done[LastId(S)]

(* Unknown values are fresh, so only other values may be there already. *)
setValueOf(S, f, v, keep) ==
    LET e == S.ent[f]
        T == [registerValueOf(releaseValueOf(S, f), f, v) EXCEPT !.arena[e.obj] = add(@, e.off, e.off + e.size, f)]
    IN  IF e.value = v /\ v \notin {"unk", "undef"} THEN S ELSE Overwrite(T, f, keep)

setValOfField(S, f, v, keep) == setValueOf([S EXCEPT !.live = @ \cup {f}], f, v, keep)

writeUniformBlock(S, obj, off, size, v, keep) ==
    LET n == NewId(S)
        T == Insert(S, [code |-> "uniform", obj |-> obj, off |-> off, size |-> size,
                        type |-> "", value |-> v])
    IN  Overwrite([T EXCEPT !.live = @ \cup {n}], n, keep)

(* The field of that type at that place, created if it does not exist. *)
Matching(S, obj, off, type) ==
    {f \in exactMatch(S.arena[obj], off, off + TypeSize(type)) :
        ~IsUniform(S, f) /\ S.ent[f].type = type}
fldLookup(S, obj, off, type) ==
    IF Matching(S, obj, off, type) # {} THEN S ELSE fldCreate(S, obj, off, type)
FieldAt(S, obj, off, type) == CHOOSE f \in Matching(S, obj, off, type) : TRUE

(* A field without a value takes it from one of the live fields and blocks *)
(* it overlaps, or gets a fresh unknown value and is live from now on.     *)
Initializers(S, f) == {o \in Overlaps(S, f) : o \in S.live}
valueOf(S, f, other) ==
    CASE S.ent[f].value # "inv" -> S
      [] S.ent[f].value = "inv" /\ other = 0 -> [S EXCEPT !.ent[f].value = "unk", !.live = @ \cup {f}]
      [] OTHER -> reinterpretObjData(S, f, other, {f})

(* A single live block copied to another object; a field is written there, *)
(* a block is only mapped.                                                 *)
copySingleLiveBlock(S, obj, src, shift, sizeLimit, keep) ==
    LET e == S.ent[src]
        n == NewId(S)
    IN  IF IsUniform(S, src)
        THEN [Insert(S, [e EXCEPT !.obj = obj, !.off = @ + shift,
                                  !.size = IF sizeLimit = 0 THEN @ ELSE sizeLimit])
                EXCEPT !.live = @ \cup {n}]
        ELSE [setValueOf(fldCreate(S, obj, e.off + shift, e.type), n, e.value, keep)
                EXCEPT !.live = @ \cup {n}]

(* Several live blocks, in the order of their ids. *)
CopyEach(S, obj, ids, shift, sizeLimit, keep) ==
    LET done[i \in 0 .. LastId(S)] ==
          IF i = 0 THEN S
          ELSE IF i \in ids THEN copySingleLiveBlock(done[i - 1], obj, i, shift[i], sizeLimit[i], keep)
          ELSE done[i - 1]
    IN  done[LastId(S)]

(* Live blocks in the window of the source; a field that sticks out of it  *)
(* is not copied, a block is cut.                                          *)
transferBlock(S, dst, src, dstOff, winBeg, winSize, keep) ==
    LET winEnd  == winBeg + winSize
        Exceeds(e) == e.off < winBeg \/ winEnd < e.off + e.size
        toCopy  == {f \in intersects(S.arena[src], winBeg, winEnd) :
                      f \in S.live /\ (Exceeds(S.ent[f]) => IsUniform(S, f))}
        Shift(e) == dstOff - winBeg - (IF e.off < winBeg THEN e.off - winBeg ELSE 0)
        Limit(e) == IF Exceeds(e) THEN e.size + e.off + winEnd - winBeg - (e.off + e.size) ELSE 0
    IN  CopyEach(S, dst, toCopy, [f \in toCopy |-> Shift(S.ent[f])],
                 [f \in toCopy |-> Limit(S.ent[f])], keep)

(* The destination is first overwritten by a block that is removed again. *)
copyBlockOfRawMemory(S, dst, src, dstOff, srcOff, size, keep) ==
    LET killer == NewId(S)
        killed == Destroy(writeUniformBlock(S, dst, dstOff, size, "null", keep), killer)
    IN  transferBlock(killed, dst, src, dstOff, srcOff, size, keep)

(* The window without the fields and blocks, and without the gaps. *)
WithoutFields(S, fields, off, size) ==
    LET left[i \in 0 .. LastId(S)] ==
          IF i = 0 THEN add({}, off, off + size, 0)
          ELSE IF i \in fields THEN sub(left[i - 1], S.ent[i].off, S.ent[i].off + S.ent[i].size, 0)
          ELSE left[i - 1]
    IN  left[LastId(S)]
WithoutGaps(gaps, off, size) ==
    LET left[i \in 0 .. Size] ==
          IF i = 0 THEN add({}, off, off + size, 0)
          ELSE IF \E gap \in gaps : gap[1] = i - 1
          THEN LET gap == CHOOSE gap \in gaps : gap[1] = i - 1 IN sub(left[i - 1], gap[1], gap[2], 0)
          ELSE left[i - 1]
    IN  left[Size]

(* Mutant: fields of any value build up the coverage. *)
findCoveringUniBlocks_AnyValue(S, obj, off, size, v) ==
    LET fit  == intersects(S.arena[obj], off, off + size)
        gaps == WithoutFields(S, fit, off, size)
    IN  reverseLookup(WithoutGaps(reverseLookup(gaps, 0), off, size), 0)

(* The parts of the window that uniform blocks of the value and fields of  *)
(* zeros cover: the complement of what is left when they are subtracted.   *)
findCoveringUniBlocks(S, obj, off, size, v) ==
    LET fit  == {f \in intersects(S.arena[obj], off, off + size) :
                   S.ent[f].value = v /\ (IsUniform(S, f) \/ v = "null")}
        gaps == WithoutFields(S, fit, off, size)
    IN  reverseLookup(WithoutGaps(reverseLookup(gaps, 0), off, size), 0)

(***************************************************************************)
(* Operations of the program.                                              *)
(***************************************************************************)
Keep == {held} \ {0}

Read(obj, off, type) ==
    /\ Room(1)
    /\ LET S == fldLookup(mem, obj, off, type)
           f == FieldAt(S, obj, off, type)
       IN  \E other \in IF Initializers(S, f) = {} THEN {0} ELSE Initializers(S, f) :
             mem' = valueOf(S, f, other)
    /\ UNCHANGED <<held, bytes>>

Write(obj, off, type, v) ==
    /\ Room(2)
    /\ v \in Ptr => type # "char"
    /\ LET S == fldLookup(mem, obj, off, type)
       IN  mem' = setValOfField(S, FieldAt(S, obj, off, type), v, Keep)
    /\ bytes' = [bytes EXCEPT ![obj] = Stored(@, off, BytesOf(v, TypeSize(type)), TypeSize(type))]
    /\ UNCHANGED held

Clear(obj, off, size, v) ==
    /\ Room(2)
    /\ mem' = writeUniformBlock(mem, obj, off, size, v, Keep)
    /\ bytes' = [bytes EXCEPT ![obj] = Stored(@, off, BytesOf(v, size), size)]
    /\ UNCHANGED held

(* The only caller, executeMemmove(), holds no handle to a field of the    *)
(* destination; the first conjunct says so, the code does not test it.     *)
Copy(dst, src, dstOff, srcOff, size) ==
    /\ \A f \in Keep : mem.ent[f].obj # dst
    /\ mem' = copyBlockOfRawMemory(mem, dst, src, dstOff, srcOff, size, Keep)
    /\ Bounded
    /\ bytes' = [bytes EXCEPT ![dst] =
                   Stored(@, dstOff, [i \in 0 .. size - 1 |-> bytes[src][srcOff + i]], size)]
    /\ UNCHANGED held

(* A copy of a whole object, into an object without contents. *)
objClone(dst, src) ==
    /\ \A f \in Ids(mem) : mem.ent[f].obj # dst
    /\ LET ids == {f \in mem.live : mem.ent[f].obj = src}
       IN  mem' = CopyEach(mem, dst, ids, [f \in ids |-> 0], [f \in ids |-> 0], {})
    /\ Bounded
    /\ bytes' = [bytes EXCEPT ![dst] = bytes[src]]
    /\ UNCHANGED held

(* The caller looks a field up and keeps the handle, or lets it go. *)
Hold(obj, off, type) ==
    /\ Room(1)
    /\ held = 0
    /\ mem' = fldLookup(mem, obj, off, type)
    /\ held' = FieldAt(mem', obj, off, type)
    /\ UNCHANGED bytes

fldLeave == held # 0 /\ held' = 0 /\ UNCHANGED <<mem, bytes>>

Next ==
    \/ \E obj \in Obj : \E f \in Fields[obj] :
        \/ Read(obj, f[1], f[2])
        \/ \E v \in Ptr \cup {"null", "undef", "unk"} : Write(obj, f[1], f[2], v)
        \/ Hold(obj, f[1], f[2])
    \/ \E obj \in Obj, v \in {"null", "undef"} : \E w \in Windows[obj] : Clear(obj, w[1], w[2], v)
    \/ \E dst, src \in Obj : dst # src /\ (\/ \E c \in Copies : Copy(dst, src, c[1], c[2], c[3])
                                           \/ objClone(dst, src))
    \/ fldLeave

MemSpec == Init /\ [][Next]_vars

(***************************************************************************)
(* Properties.                                                             *)
(***************************************************************************)
(* What the bytes must be for an entity to have its value. *)
Agrees(e) ==
    \/ e.value \in {"inv", "unk"}
    \/ \A i \in 0 .. e.size - 1 :
         bytes[e.obj][e.off + i] =
           IF e.code = "uniform" THEN BytesOf(e.value, 1)[0] ELSE BytesOf(e.value, e.size)[i]

(* Every field and every block has a value that agrees with the bytes the  *)
(* program has written, also the dead fields that only cache what was      *)
(* read, also those a handle refers to while others write over them.       *)
MemSound == \A f \in Ids(mem) : Agrees(mem.ent[f])

(* chkArenaConsistency(): the arena maps every field and block exactly to  *)
(* the bytes it occupies, whatever was split, trimmed or destroyed, and    *)
(* two uniform blocks never share bytes.                                   *)
ArenaConsistent ==
    /\ \A o \in Obj : mem.arena[o] = {<<mem.ent[f].off, mem.ent[f].off + mem.ent[f].size, f>> :
                                        f \in {i \in Ids(mem) : mem.ent[i].obj = o}}
    /\ \A f, g \in Ids(mem) : f # g /\ IsUniform(mem, f) /\ IsUniform(mem, g) /\ mem.ent[f].obj = mem.ent[g].obj =>
         mem.ent[f].off + mem.ent[f].size <= mem.ent[g].off \/ mem.ent[g].off + mem.ent[g].size <= mem.ent[f].off

(* findCoveringUniBlocks(): every byte it calls covered by a block of the  *)
(* value has the value; joins and comparisons of heaps rely on it.         *)
CoverageIsTrue ==
    \A o \in Obj, v \in {"null", "undef"} : \A w \in Windows[o] :
        \A chunk \in findCoveringUniBlocks(mem, o, w[1], w[2], v) :
            \A i \in chunk[1] .. chunk[2] - 1 : bytes[o][i] = BytesOf(v, 1)[0]

(* releaseValueOf(): the users recorded for a pointer are the fields whose *)
(* value it is; leak detection relies on them.                             *)
UsedByExact == mem.used = {<<mem.ent[f].value, f>> : f \in {g \in Ids(mem) : mem.ent[g].value \in Ptr}}

===============================================================================
