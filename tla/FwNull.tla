-------------------------------- MODULE FwNull --------------------------------
(***************************************************************************)
(* The checker fwnull (cl_fwnull.cc): a forward data-flow analysis of one  *)
(* function that looks for dereferences of NULL and for comparisons of a   *)
(* pointer with NULL that come after its dereference.  A fixed point is    *)
(* computed silently, then every block is processed once more to report.   *)
(*                                                                         *)
(* A basic block is a record of its non-terminal instructions and of its   *)
(* terminal one:                                                           *)
(*   null  dst = NULL                 addr  dst = &object                  *)
(*   copy  dst = src                  call  dst = function()               *)
(*   load  dst = *src                 deref something = *src               *)
(*   ref   something = &src           cmp   dst = (src == NULL), or !=     *)
(***************************************************************************)
EXTENDS Integers, Sequences, SequencesExt, FiniteSets

CONSTANTS
  Ptrs,       \* variables of pointer type
  Conds,      \* variables that hold results of comparisons
  Programs    \* functions to analyze, each a sequence of blocks; 1 is the entry

ASSUME FwNullAssumption ==
  /\ Ptrs \cap Conds = {} /\ "none" \notin Ptrs \cup Conds
  /\ \A prog \in Programs : 1 \in DOMAIN prog

VARIABLES
  cfg,        \* the function
  todo,       \* Data::todo, a queue
  todoLookup, \* Data::todoLookup
  stateMap,   \* Data::stateMap, the state at the begin of each block
  localState, \* Data::localState, the state before the next instruction
  block, pc,  \* the block that is being processed and the next instruction
  silent,     \* Data::silent
  next,       \* the block that is to be reported next
  messages,   \* what has been reported: <<kind, block, instruction>>
  paths       \* what executions of the function bring to each block

data == <<todo, todoLookup, stateMap>>
vars == <<cfg, data, localState, block, pc, silent, next, messages, paths>>

Vars == Ptrs \cup Conds
Undef == [code |-> "undef", peer |-> "none"]
State(code) == [code |-> code, peer |-> "none"]
Code == {"undef", "unknown", "deref", "null", "not_null", "null_deduced",
         "not_null_deduced", "might_be_null", "false", "true",
         "null_iff", "not_null_iff"}
AnyNull == {"null", "null_deduced"}
anyNotNull == {"not_null", "not_null_deduced"}
Iff == {"null_iff", "not_null_iff"}

(* Mutant: the first value that a block is told of stays. *)
mergeValues_FirstStays(dst, src) ==
  IF src.code # "undef" /\ dst.code = "undef" THEN src ELSE dst

(***************************************************************************)
(* mergeValues(), used for the Y nodes of the control flow.                *)
(***************************************************************************)
mergeValues(dst, src) ==
  IF \/ src.code = "undef" \/ dst.code = "might_be_null"
     \/ src.code = dst.code
     \/ {src.code, dst.code} \cap Iff # {}
  THEN dst
  ELSE IF dst.code = "undef" THEN src
  ELSE IF \/ src.code = "null_deduced" /\ dst.code \in anyNotNull
          \/ src.code \in anyNotNull /\ dst.code = "null_deduced"
       THEN [dst EXCEPT !.code = "might_be_null"]
       ELSE [dst EXCEPT !.code = "unknown"]

(***************************************************************************)
(* Non-terminal instructions on a state.                                   *)
(***************************************************************************)
handleVarDeref(st, v) ==
  IF st[v].code \in {"undef", "unknown"}
  THEN [st EXCEPT ![v].code = "deref"] ELSE st

(* The result is known, or it is tied to the pointer until the branch. *)
handleInsnCmpNull(st, i) ==
  LET code == st[i.src].code
  IN  [st EXCEPT ![i.dst] =
        IF code \in AnyNull \cup anyNotNull
        THEN State(IF (code \in AnyNull) # i.neg THEN "true" ELSE "false")
        ELSE [code |-> IF i.neg THEN "not_null_iff" ELSE "null_iff",
              peer |-> i.src]]

(* Assignments; everything but pointers is abstracted out. *)
handleInsnUnop(st, i) ==
  CASE i.op = "null"  -> [st EXCEPT ![i.dst].code = "null"]
    [] i.op = "addr"  -> [st EXCEPT ![i.dst].code = "not_null"]
    [] i.op = "copy"  -> [st EXCEPT ![i.dst] = mergeValues(@, st[i.src])]
    [] i.op = "deref" -> handleVarDeref(st, i.src)
    [] i.op = "load"  -> [handleVarDeref(st, i.src) EXCEPT ![i.dst].code = "unknown"]
    [] OTHER -> st

handleInsnCall(st, i) == [st EXCEPT ![i.dst].code = "unknown"]

(* Nothing is known of a variable whose address is taken. *)
treatRefAsSideEffect(st, i) ==
  IF i.op = "ref" THEN [st EXCEPT ![i.src].code = "unknown"] ELSE st

handleInsnNonterm(st, i) ==
  LET s == treatRefAsSideEffect(st, i)
  IN  CASE i.op = "cmp"  -> handleInsnCmpNull(s, i)
        [] i.op = "call" -> handleInsnCall(s, i)
        [] OTHER         -> handleInsnUnop(s, i)

(* What an instruction reports; the case of VS_NULL_DEDUCED falls through. *)
Reports(st, i) ==
  LET code == st[i.src].code
  IN  CASE i.op \in {"deref", "load"} /\ code = "null" -> {"error"}
        [] i.op \in {"deref", "load"} /\ code = "null_deduced" -> {"error", "warning"}
        [] i.op \in {"deref", "load"} /\ code = "might_be_null" -> {"warning"}
        [] i.op = "cmp" /\ code = "deref" -> {"late_check"}
        [] OTHER -> {}

(***************************************************************************)
(* Terminal instructions: the state that goes to each target.              *)
(***************************************************************************)
(* The pointer is deduced to be NULL, or not, and the condition is used up. *)
replaceInBranch(st, v, val) ==
  LET isNull == (st[v].code = "null_iff") = val
  IN  IF st[v].code \notin Iff
      THEN st
      ELSE [st EXCEPT ![v].code = "undef",
                      ![st[v].peer].code =
                         IF isNull THEN "null_deduced" ELSE "not_null_deduced"]

(* Mutant: both branches learn what holds in the first one. *)
handleInsnTerm_SameBranch(st, t) ==
  CASE t.op = "ret"  -> <<>>
    [] t.op = "jmp"  -> <<[to |-> t.targets[1], st |-> st]>>
    [] t.op = "cond" -> <<[to |-> t.targets[1], st |-> replaceInBranch(st, t.var, TRUE)],
                         [to |-> t.targets[2], st |-> replaceInBranch(st, t.var, TRUE)]>>

handleInsnTerm(st, t) ==
  CASE t.op = "ret"  -> <<>>
    [] t.op = "jmp"  -> <<[to |-> t.targets[1], st |-> st]>>
    [] t.op = "cond" ->
         CASE st[t.var].code = "true"  -> <<[to |-> t.targets[1], st |-> st]>>
           [] st[t.var].code = "false" -> <<[to |-> t.targets[2], st |-> st]>>
           [] OTHER ->
                <<[to |-> t.targets[1], st |-> replaceInBranch(st, t.var, TRUE)],
                  [to |-> t.targets[2], st |-> replaceInBranch(st, t.var, FALSE)]>>

(***************************************************************************)
(* updateState(): the target is scheduled if its state has changed.        *)
(***************************************************************************)
(* Mutant: a block that has been processed is not scheduled again. *)
updateState_Once(d, u) ==
  LET old == d.map[u.to]
      new == [v \in Vars |-> mergeValues(old[v], u.st[v])]
      sched == old = [v \in Vars |-> Undef] /\ new # old /\ u.to \notin d.lookup
  IN  [map |-> [d.map EXCEPT ![u.to] = new],
       todo |-> IF sched THEN Append(d.todo, u.to) ELSE d.todo,
       lookup |-> IF sched THEN d.lookup \cup {u.to} ELSE d.lookup]

updateState(d, u) ==
  LET old == d.map[u.to]
      new == [v \in Vars |-> mergeValues(old[v], u.st[v])]
      sched == new # old /\ u.to \notin d.lookup
  IN  [map |-> [d.map EXCEPT ![u.to] = new],
       todo |-> IF sched THEN Append(d.todo, u.to) ELSE d.todo,
       lookup |-> IF sched THEN d.lookup \cup {u.to} ELSE d.lookup]

(***************************************************************************)
(* Executions of the analyzed function.  A valuation says which pointers   *)
(* are NULL, which comparisons are true, which pointers have been          *)
(* dereferenced since they were assigned, and which variables the function *)
(* has assigned at all.  An execution goes on after a dereference of NULL, *)
(* which has been reported.                                                *)
(***************************************************************************)
Step(val, i) ==
  LET Set(old, v, S) ==
        {[old EXCEPT !.is[v] = x, !.used = @ \ {v}, !.given = @ \cup {v}] : x \in S}
      Used(p) == [val EXCEPT !.used = @ \cup {p}]
  IN  CASE i.op = "null"  -> Set(val, i.dst, {TRUE})
        [] i.op = "addr"  -> Set(val, i.dst, {FALSE})
        [] i.op = "call"  -> Set(val, i.dst, BOOLEAN)
        [] i.op = "load"  -> Set(Used(i.src), i.dst, BOOLEAN)
        [] i.op = "ref"   -> Set(val, i.src, BOOLEAN)
        [] i.op = "copy"  ->
             {[val EXCEPT !.is[i.dst] = val.is[i.src],
                          !.used  = IF i.src \in @ THEN @ \cup {i.dst} ELSE @ \ {i.dst},
                          !.given = IF i.src \in @ THEN @ \cup {i.dst} ELSE @ \ {i.dst}]}
        [] i.op = "deref" -> {Used(i.src)}
        [] i.op = "cmp"   -> Set(val, i.dst, {val.is[i.src] # i.neg})

ValuesBefore(S, bb, n) ==
  FoldLeft(LAMBDA T, i : UNION {Step(val, i) : val \in T}, S, SubSeq(bb.body, 1, n - 1))

(* The blocks that are entered from a block, with the valuations there. *)
Follow(bb, val) ==
  LET t == bb.term
      Target(last) == CASE t.op = "jmp"  -> t.targets[1]
                        [] t.op = "cond" -> t.targets[IF last.is[t.var] THEN 1 ELSE 2]
  IN  IF t.op = "ret" THEN {}
      ELSE {<<Target(last), last>> : last \in ValuesBefore({val}, bb, Len(bb.body) + 1)}

AnyValues == {[is |-> is, used |-> {}, given |-> {}] : is \in [Vars -> BOOLEAN]}

(* What all paths of n blocks bring to the begin of a block. *)
Executions(f) ==
  LET Grow(S, n) == S \cup UNION {Follow(f[e[1]], e[2]) : e \in S}
  IN  FoldLeft(Grow, {1} \X AnyValues, [n \in 1..Len(f) + 2 |-> n])

(***************************************************************************)
(* handleFnc() and handleBlock(), one instruction at a time.               *)
(***************************************************************************)
Init ==
  /\ cfg \in Programs
  /\ todo = <<1>> /\ todoLookup = {1}
  /\ stateMap = [b \in DOMAIN cfg |-> [v \in Vars |-> Undef]]
  /\ localState = [v \in Vars |-> Undef]
  /\ block = 0 /\ pc = 0
  /\ silent = TRUE /\ next = 1 /\ messages = {}
  /\ paths = Executions(cfg)

Enter(b) ==
  /\ block' = b /\ pc' = 1
  /\ localState' = stateMap[b]

(* The block-level scheduler takes the first block of the queue. *)
TakeBlock ==
  /\ silent /\ block = 0 /\ todo # <<>>
  /\ todo' = Tail(todo) /\ todoLookup' = todoLookup \ {Head(todo)}
  /\ Enter(Head(todo))
  /\ UNCHANGED <<cfg, stateMap, silent, next, messages, paths>>

StartReport ==
  /\ silent /\ block = 0 /\ todo = <<>>
  /\ silent' = FALSE
  /\ UNCHANGED <<cfg, data, localState, block, pc, next, messages, paths>>

(* Every block in turn; states are still updated and blocks scheduled. *)
ReportBlock ==
  /\ ~silent /\ block = 0 /\ next <= Len(cfg)
  /\ Enter(next)
  /\ next' = next + 1
  /\ UNCHANGED <<cfg, data, silent, messages, paths>>

Nonterm ==
  /\ block # 0 /\ pc <= Len(cfg[block].body)
  /\ localState' = handleInsnNonterm(localState, cfg[block].body[pc])
  /\ messages' = IF silent THEN messages
                 ELSE messages \cup Reports(localState, cfg[block].body[pc]) \X {block} \X {pc}
  /\ pc' = pc + 1
  /\ UNCHANGED <<cfg, data, block, silent, next, paths>>

Term ==
  /\ block # 0 /\ pc > Len(cfg[block].body)
  /\ \E d \in {FoldLeft(updateState, [map |-> stateMap, todo |-> todo, lookup |-> todoLookup],
                        handleInsnTerm(localState, cfg[block].term))} :
       todo' = d.todo /\ todoLookup' = d.lookup /\ stateMap' = d.map
  /\ block' = 0 /\ pc' = 0
  /\ localState' = [v \in Vars |-> Undef]
  /\ UNCHANGED <<cfg, silent, next, messages, paths>>

Done == ~silent /\ block = 0 /\ next > Len(cfg)
Finish == Done /\ UNCHANGED vars

Work == TakeBlock \/ StartReport \/ ReportBlock \/ Nonterm \/ Term
Next == Work \/ Finish
FwNullSpec == Init /\ [][Next]_vars /\ WF_vars(Work)

(***************************************************************************)
(* Properties.                                                             *)
(***************************************************************************)
At(b) == {e[2] : e \in {d \in paths : d[1] = b}}

(***************************************************************************)
(* Nothing is reported without a reason in a block that can be reached:    *)
(* there is an execution in which the dereferenced pointer is NULL, or the *)
(* compared one has already been dereferenced, although the states of      *)
(* different paths have been merged.                                       *)
(***************************************************************************)
ReportHasPath ==
  Done => \A m \in messages :
    LET bb == cfg[m[2]]
        vals == ValuesBefore(At(m[2]), bb, m[3])
        p == bb.body[m[3]].src
    IN  At(m[2]) = {} \/ \E val \in vals : IF m[1] = "late_check" THEN p \in val.used ELSE val.is[p]

(***************************************************************************)
(* When reporting starts the states are a fixed point, as the comment in   *)
(* handleFnc() says: a block that can be reached changes no state anymore. *)
(***************************************************************************)
ReportOverFixedPoint ==
  [][~silent /\ block # 0 /\ At(block) # {} => stateMap' = stateMap]_vars

(* What is said of v at the begin of b is true of a valuation. *)
SaidOf(b, v, val) == /\ stateMap[b][v].code \in AnyNull => val.is[v]
                     /\ stateMap[b][v].code \in anyNotNull => ~val.is[v]

(***************************************************************************)
(* A pointer that the state of a block calls NULL or not-NULL, assigned or *)
(* deduced, is so in every execution in which the function has assigned    *)
(* it, in whatever order the paths were processed and merged: mergeValues()*)
(* drops no path but those on which nothing has been assigned yet.         *)
(***************************************************************************)
AssignedIsGuaranteed ==
  Done => \A b \in DOMAIN cfg, v \in Ptrs : \A val \in At(b) :
             v \in val.given => SaidOf(b, v, val)

(***************************************************************************)
(* VS_NULL_DEDUCED: "value is guaranteed to be NULL", VS_NOT_NULL_DEDUCED: *)
(* "value is guaranteed to be not-NULL" (cl_fwnull.cc), in every execution *)
(* that enters the block, also those that have not assigned the pointer.   *)
(***************************************************************************)
DeducedIsGuaranteed ==
  Done => \A b \in DOMAIN cfg, v \in Ptrs : \A val \in At(b) :
             stateMap[b][v].code \in {"null_deduced", "not_null_deduced"} => SaidOf(b, v, val)

================================================================================
