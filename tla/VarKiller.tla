------------------------------- MODULE VarKiller -------------------------------
(***************************************************************************)
(* The killer of local variables (killer.cc): a backward data-flow         *)
(* analysis finds out where variables become dead and marks the            *)
(* instructions and the targets of branches that kill them; the analyzer   *)
(* destroys the variables there (killVar() in symproc.cc).                 *)
(*                                                                         *)
(* Variables are numbers, their uids.  An instruction is a record:         *)
(*   use    variables read, or whose address is taken                      *)
(*   def    the variable that is written as a whole, 0 if there is none    *)
(*   load   the pointer that is dereferenced to read, 0 if there is none   *)
(*   store  the pointer that is dereferenced to write, 0 if there is none  *)
(*   addr   the variable whose address is assigned, 0 if there is none     *)
(*   copy   the pointer that is assigned, 0 if there is none               *)
(* A block is a sequence of instructions, its targets, and whether it ends *)
(* with abort.  Some pointers are known to point to one variable of the    *)
(* only caller (alias), some of these are parameters (params).             *)
(***************************************************************************)
EXTENDS Integers, Sequences

CONSTANTS
  MaxUid,     \* the number of variables
  Programs    \* functions: [cfg : sequence of blocks, alias : function, params : set]

Uids == 1..MaxUid
Operand == Uids \cup {0}
InsnRec ==
  [use : SUBSET Uids, def : Operand, load : Operand, store : Operand, addr : Operand,
   copy : Operand]
BlockRec == [body : Seq(InsnRec), targets : Seq(Nat), abort : BOOLEAN]

(* A function starts at its first block and branches to one of two targets, and *)
(* abort has none; an instruction that assigns the address of a variable uses   *)
(* the variable, and one that assigns a pointer uses the pointer.               *)
IsFunction(f) ==
  /\ f.cfg \in Seq(BlockRec) /\ 1 \in DOMAIN f.cfg
  /\ \A b \in DOMAIN f.cfg :
       /\ Len(f.cfg[b].targets) <= 2
       /\ \A t \in DOMAIN f.cfg[b].targets : f.cfg[b].targets[t] \in DOMAIN f.cfg
       /\ f.cfg[b].abort => f.cfg[b].targets = <<>>
       /\ \A k \in DOMAIN f.cfg[b].body :
            LET i == f.cfg[b].body[k] IN {i.addr, i.copy} \ {0} \subseteq i.use
  /\ DOMAIN f.alias \subseteq Uids /\ f.alias \in [DOMAIN f.alias -> Uids]
  /\ f.params \subseteq DOMAIN f.alias

(* What the points-to analysis promises of an alias: the pointer is a variable *)
(* of the function that never points to another variable than that one of the  *)
(* caller, and so are its copies: an assignment unifies what the two pointers  *)
(* point to.  The function does not know the variables of its caller by name.  *)
AliasesAreTrue(f) ==
  /\ \A p, q \in DOMAIN f.alias : f.alias[p] # q
  /\ \A b \in DOMAIN f.cfg : \A k \in DOMAIN f.cfg[b].body :
       LET i == f.cfg[b].body[k]
       IN  /\ i.copy \in DOMAIN f.alias => i.def \in DOMAIN f.alias
           /\ i.def \in DOMAIN f.alias =>
                /\ i.addr = 0
                /\ i.copy # 0 => i.copy \in DOMAIN f.alias /\ f.alias[i.copy] = f.alias[i.def]
           /\ \A p \in DOMAIN f.alias : i.addr # f.alias[p]

ASSUME VarKillerAssumption ==
  /\ MaxUid \in Nat
  /\ \A f \in Programs : IsFunction(f) /\ AliasesAreTrue(f)

VARIABLES
  fnc,        \* the function
  todo,       \* Data::todo
  blocks,     \* Data::blocks, gen and kill of each block
  kills,      \* varsToKill and killPerTarget of each block, <<>> before
  at, pc,     \* execution: the block and the next instruction in it
  dead,       \* execution: variables that have been destroyed
  pts,        \* execution: what each pointer points to, 0 if to nothing
  bad         \* execution: whether a destroyed variable has been read

vars == <<fnc, todo, blocks, kills, at, pc, dead, pts, bad>>

Blocks == DOMAIN fnc.cfg
Targets(b) == fnc.cfg[b].targets
Body(b) == fnc.cfg[b].body
Inbound(b) == {a \in Blocks : b \in {Targets(a)[k] : k \in DOMAIN Targets(a)}}
derefAliases == fnc.alias
AliasTargets == {derefAliases[p] : p \in DOMAIN derefAliases}
mayBePointed(v) ==
  \E b \in Blocks : \E k \in DOMAIN Body(b) : Body(b)[k].addr = v

(***************************************************************************)
(* Which variables an instruction generates and kills.                     *)
(***************************************************************************)
BlockData == [gen |-> {}, kill |-> {}]

(* What has been killed by the block is neither killed nor generated again. *)
scanVars(d, S, dst) ==
  IF dst THEN [d EXCEPT !.kill = @ \cup S]
         ELSE [d EXCEPT !.gen = @ \cup (S \ d.kill)]

Aliases(p) == IF p \in DOMAIN derefAliases THEN {derefAliases[p]} ELSE {}

(* The variables an instruction reads and writes; a dereferenced pointer is read. *)
SrcVars(i) == i.use \cup ({i.load, i.store} \ {0}) \cup Aliases(i.load)
DstVars(i) == ({i.def} \ {0}) \cup Aliases(i.store)

(* Operands from the last one to the destination. *)
scanInsn(d, i) ==
  LET src == scanVars(d, SrcVars(i), FALSE)
  IN  scanVars(src, DstVars(i), TRUE)

(* Mutant: the variables of the caller may die with the function. *)
presetLive_No(d, b) == d

(* What the caller may still read is alive when the function returns. *)
presetLive(d, b) ==
  IF Targets(b) = <<>>
  THEN [d EXCEPT !.gen = @ \cup (AliasTargets \ d.kill)] ELSE d

(* What has been generated and killed by the first instructions of a block. *)
Scanned(b) ==
  LET scan[k \in 0..Len(Body(b))] ==
        IF k = 0 THEN BlockData ELSE scanInsn(scan[k - 1], Body(b)[k])
  IN  scan

ScanBlock(b) == presetLive(Scanned(b)[Len(Body(b))], b)

(***************************************************************************)
(* Marking: what is not alive behind an instruction that touches it.       *)
(***************************************************************************)
isPointedUid(v) == v \notin AliasTargets /\ mayBePointed(v)
KillVars(S) == {[uid |-> v, onlyIfNotPointed |-> isPointedUid(v)] : v \in S}

(* Mutant: variables that the block does not touch are forgotten. *)
Fugitives_None(live, perTarget) == {}

(* The walk through two sorted lists stops at the end of either. *)
Fugitives(live, perTarget) ==
  {v \in live \ perTarget : \E w \in perTarget : w > v}

(* What the successors of a block generate. *)
GenBehind(b) == UNION {blocks[Targets(b)[t]].gen : t \in DOMAIN Targets(b)}

LiveBehind(b) == IF Targets(b) = <<>> THEN AliasTargets ELSE GenBehind(b)

Arena(b, k) == scanInsn(BlockData, Body(b)[k])
Touched(b, k) == Arena(b, k).gen \cup Arena(b, k).kill

LiveBefore(live, b, k) == (live \cup Touched(b, k)) \ (Touched(b, k) \ Arena(b, k).gen)

(* live, from the end of a block back to in front of its last n instructions. *)
LiveBack(b) ==
  LET last == Len(Body(b))
      live[n \in 0..last] ==
        IF n = 0 THEN LiveBehind(b) ELSE LiveBefore(live[n - 1], b, last + 1 - n)
  IN  live

(* live behind the k-th instruction. *)
Live(b, k) == LiveBack(b)[Len(Body(b)) - k]

(* livePerTarget at the same place: all that has been touched is in it. *)
LivePerTarget(b, t, k) ==
  blocks[Targets(b)[t]].gen \cup UNION {Touched(b, j) : j \in k + 1..Len(Body(b))}

(* varsToKill of an instruction, and what it kills for one target only. *)
Dying(b, k) == Touched(b, k) \ Live(b, k)
DyingAt(b, t, k) ==
  IF Len(Targets(b)) < 2 THEN {}
  ELSE Touched(b, k) \ (Dying(b, k) \cup LivePerTarget(b, t, k))

commitBlock(b) ==
  [vars |-> [k \in DOMAIN Body(b) |-> KillVars(Dying(b, k))],
   target |-> [t \in DOMAIN Targets(b) |-> KillVars(
     (UNION {DyingAt(b, t, k) : k \in DOMAIN Body(b)}) \cup
     (IF Len(Targets(b)) < 2 THEN {}
      ELSE Fugitives(Live(b, 0), LivePerTarget(b, t, 0))))]]

(***************************************************************************)
(* analyzeFnc()                                                            *)
(***************************************************************************)
Init ==
  /\ fnc \in Programs
  /\ todo = Blocks
  /\ blocks = [b \in Blocks |-> ScanBlock(b)]
  /\ kills = <<>>
  /\ at = 1 /\ pc = 1 /\ dead = {} /\ bad = FALSE
  /\ pts = [v \in Uids |-> IF v \in fnc.params THEN derefAliases[v] ELSE 0]

(* A block takes over what its successors generate; any order of blocks. *)
updateBlock(b) ==
  LET new == GenBehind(b) \ blocks[b].kill
  IN  /\ b \in todo
      /\ blocks' = [blocks EXCEPT ![b].gen = @ \cup new]
      /\ todo' = (todo \ {b}) \cup
                 (IF new \subseteq blocks[b].gen THEN {} ELSE Inbound(b))
      /\ UNCHANGED <<fnc, kills, at, pc, dead, pts, bad>>

Commit ==
  /\ todo = {} /\ kills = <<>>
  /\ kills' = [b \in Blocks |-> commitBlock(b)]
  /\ UNCHANGED <<fnc, todo, blocks, at, pc, dead, pts, bad>>

(***************************************************************************)
(* The analyzer executes the function and kills variables.                 *)
(***************************************************************************)
(* Mutant: the variable is destroyed although something points at it. *)
killVar_Always(s, kv) ==
  [dead |-> s.dead \cup {kv.uid}, pts |-> [s.pts EXCEPT ![kv.uid] = 0]]

(* Nothing is destroyed that is pointed at; it loses its value if not told to wait. *)
killVar(s, kv) ==
  LET pointed == \E p \in Uids : s.pts[p] = kv.uid
  IN  IF pointed /\ kv.onlyIfNotPointed
      THEN s
      ELSE [dead |-> s.dead \cup {kv.uid}, pts |-> [s.pts EXCEPT ![kv.uid] = 0]]

(* The variables are killed in the order of their uids. *)
Killed(s, S) ==
  LET done[v \in 0..MaxUid] ==
        IF v = 0 THEN s
        ELSE IF \E kv \in S : kv.uid = v
        THEN killVar(done[v - 1], CHOOSE kv \in S : kv.uid = v)
        ELSE done[v - 1]
  IN  done

killAll(s, S) == Killed(s, S)[MaxUid]

Analyzed == kills # <<>>

(* The pointer that an instruction assigns. *)
Assigned(i) ==
  IF i.addr # 0 THEN i.addr ELSE IF i.copy # 0 THEN pts[i.copy] ELSE 0

(* A path ends where a pointer is dereferenced that has not got its target. *)
Dereferenced(p) == p \in DOMAIN derefAliases => pts[p] # 0 \/ p \in dead

execInsn ==
  /\ Analyzed /\ ~bad /\ pc \in DOMAIN Body(at)
  /\ Dereferenced(Body(at)[pc].load) /\ Dereferenced(Body(at)[pc].store)
  /\ LET i == Body(at)[pc]
         read == i.use \cup ({i.load, i.store} \ {0}) \cup
                 (IF i.load # 0 THEN {pts[i.load]} \ {0} ELSE {})
         written == ({i.def} \ {0}) \cup (IF i.store # 0 THEN {pts[i.store]} \ {0} ELSE {})
         ptr == IF i.def # 0 THEN [pts EXCEPT ![i.def] = Assigned(i)] ELSE pts
     IN  /\ bad' = (read \cap dead # {})
         /\ \E s \in {killAll([dead |-> (dead \ written) \ {i.addr}, pts |-> ptr],
                              kills[at].vars[pc])} :
              dead' = s.dead /\ pts' = s.pts
  /\ pc' = pc + 1
  /\ UNCHANGED <<fnc, todo, blocks, kills, at>>

headingToAbort(b) == fnc.cfg[b].abort

(* What a branch kills on the way to a target; nothing on the way to abort. *)
killPerTarget(t) ==
  IF headingToAbort(Targets(at)[t]) THEN {} ELSE kills[at].target[t]

(* A branch to a target kills what is alive at another one only. *)
goTo(t) ==
  /\ Analyzed /\ ~bad /\ pc > Len(Body(at)) /\ t \in DOMAIN Targets(at)
  /\ \E s \in {killAll([dead |-> dead, pts |-> pts], killPerTarget(t))} :
       dead' = s.dead /\ pts' = s.pts
  /\ at' = Targets(at)[t] /\ pc' = 1
  /\ UNCHANGED <<fnc, todo, blocks, kills, bad>>

Next ==
  \/ \E b \in Blocks : updateBlock(b)
  \/ Commit
  \/ execInsn
  \/ \E t \in 1..2 : goTo(t)

Fairness == WF_vars(\E b \in Blocks : updateBlock(b)) /\ WF_vars(Commit)
KillerSpec == Init /\ [][Next]_vars /\ Fairness

(***************************************************************************)
(* Properties.                                                             *)
(***************************************************************************)
(***************************************************************************)
(* No variable is read after it has been destroyed, neither directly nor   *)
(* through a pointer, on any path of the function.                         *)
(***************************************************************************)
NeverReadsDead == ~bad

(***************************************************************************)
(* When a function returns, the variables of its caller that it can reach  *)
(* by a pointer have not been destroyed.                                   *)
(***************************************************************************)
CallerVarsSurvive ==
  Analyzed /\ Targets(at) = <<>> /\ pc > Len(Body(at)) => AliasTargets \cap dead = {}

(***************************************************************************)
(* A variable that nothing can read anymore is destroyed when a branch is  *)
(* taken: commitBlock() catches those that are alive for some of the       *)
(* targets only.  It may stay if the target leads to abort.                *)
(***************************************************************************)
BranchKillsDead ==
  [][at' # at /\ ~headingToAbort(at') =>
       \A v \in LiveBehind(at) \ blocks[at'].gen :
         v \in dead' \/ \E p \in Uids : pts[p] = v]_vars

================================================================================
