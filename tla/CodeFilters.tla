------------------------------ MODULE CodeFilters ------------------------------
(***************************************************************************)
(* What a callback of a compiler adapter goes through (cl/): the filters   *)
(* that give labels unique names and unfold switch statements, the         *)
(* integrity checker, and the builder of the code storage.                 *)
(*                                                                         *)
(* A callback is a record: cb is its name, code the kind of an             *)
(* instruction, labels the labels it mentions in the order they are        *)
(* resolved, and arg the rest (a function, an operation or a case value).  *)
(* Every operator takes the state of the listener and returns the next.    *)
(***************************************************************************)
EXTENDS Integers, SequencesExt

CONSTANT Fncs       \* functions of a compilation unit, as numbers 1 .. n

NoLabel == <<"none">>

Call(cb, arg) == [cb |-> cb, code |-> "", labels |-> <<>>, arg |-> arg]
BbOpen(label) == [cb |-> "bb_open", code |-> "", labels |-> <<label>>, arg |-> 0]
Insn(code, arg, labels) == [cb |-> "insn", code |-> code, labels |-> labels, arg |-> arg]

(* The chain of filters: the analyzer plugged into gcc unfolds switches,   *)
(* which takes a filter for labels on either side, and unifies the labels  *)
(* once more; the one for LLVM only unifies labels, function by function.  *)
InitListener(adapter) ==
    [chain  |-> adapter,
     uni    |-> <<<<>>, <<>>, <<>>>>,                  \* labels seen by the filters, in order
     sw     |-> [switchCnt |-> 0, casePerSwitchCnt |-> 0, defLabel |-> NoLabel],
     state  |-> "S_INIT", defined |-> {}, reachable |-> {}, errors |-> 0,
     cfg    |-> [f \in Fncs |-> <<>>],                 \* blocks in order of their first mention
     fnc    |-> 0, bb |-> 0, insn |-> 0, crashed |-> FALSE]

CL_ERROR(S) == [S EXCEPT !.errors = 1]      \* only whether there was one matters
CL_TRAP(S) == [S EXCEPT !.crashed = TRUE]

(***************************************************************************)
(* ClfCbSeqChk and ClfLabelChk.                                            *)
(***************************************************************************)
Terminals == {"JMP", "COND", "RET", "ABORT"}
cl_is_term_insn(code) == code \in Terminals

(* Mutant: blocks may be opened outside of functions. *)
Legal_AnyBlock(from, to) ==
    <<from, to>> \in {<<"S_INIT", "S_FILE_LEVEL">>, <<"S_INIT", "S_ACKNOWLEDGE">>,
                      <<"S_FILE_LEVEL", "S_INIT">>, <<"S_FILE_LEVEL", "S_FNC_DECL">>,
                      <<"S_FNC_BODY", "S_BLOCK_LEVEL">>, <<"S_FNC_BODY", "S_FILE_LEVEL">>,
                      <<"S_FILE_LEVEL", "S_BLOCK_LEVEL">>, <<"S_BLOCK_LEVEL", "S_INSN_CALL">>}

Legal(from, to) ==
    <<from, to>> \in {<<"S_INIT", "S_FILE_LEVEL">>, <<"S_INIT", "S_ACKNOWLEDGE">>,
                      <<"S_FILE_LEVEL", "S_INIT">>, <<"S_FILE_LEVEL", "S_FNC_DECL">>,
                      <<"S_FNC_BODY", "S_BLOCK_LEVEL">>, <<"S_FNC_BODY", "S_FILE_LEVEL">>,
                      <<"S_BLOCK_LEVEL", "S_INSN_CALL">>}

setState(S, new) == [(IF Legal(S.state, new) THEN S ELSE CL_ERROR(S)) EXCEPT !.state = new]
Expect(S, states) == IF S.state \in states THEN S ELSE CL_ERROR(S)

(* Instructions that end a block lead back to the level of the function;   *)
(* so does the jump to the entry block, which precedes all blocks.         *)
chkInsn(S, code) ==
    LET T == Expect(S, IF code = "JMP" THEN {"S_FNC_DECL", "S_BLOCK_LEVEL"} ELSE {"S_BLOCK_LEVEL"})
    IN  IF cl_is_term_insn(code) THEN [T EXCEPT !.state = "S_FNC_BODY"] ELSE T

ClfCbSeqChk(S, c) ==
    CASE c.cb = "file_open"       -> setState(S, "S_FILE_LEVEL")
      [] c.cb = "file_close"      -> setState(S, "S_INIT")
      [] c.cb = "fnc_open"        -> setState(S, "S_FNC_DECL")
      [] c.cb = "fnc_arg_decl"    -> Expect(S, {"S_FNC_DECL"})
      [] c.cb = "fnc_close"       -> setState(S, "S_FILE_LEVEL")
      [] c.cb = "bb_open"         -> setState(S, "S_BLOCK_LEVEL")
      [] c.cb = "insn_call_open"  -> setState(S, "S_INSN_CALL")
      [] c.cb = "insn_call_arg"   -> Expect(S, {"S_INSN_CALL"})
      [] c.cb = "insn_call_close" -> [Expect(S, {"S_INSN_CALL"}) EXCEPT !.state = "S_BLOCK_LEVEL"]
      [] c.cb = "insn"            -> chkInsn(S, c.code)
      [] c.cb = "acknowledge"     -> setState(S, "S_ACKNOWLEDGE")
      [] OTHER                    -> S

(* Labels of unreachable blocks only give a warning. *)
ClfLabelChk(S, c) ==
    CASE c.cb = "fnc_open"  -> [S EXCEPT !.defined = {}, !.reachable = {}]
      [] c.cb = "bb_open"   -> [(IF c.labels[1] \in S.defined THEN CL_ERROR(S) ELSE S)
                                  EXCEPT !.defined = @ \cup {c.labels[1]}]
      [] c.cb = "insn"      -> [S EXCEPT !.reachable = @ \cup ToSet(c.labels)]
      [] c.cb = "fnc_close" -> IF S.reachable \subseteq S.defined THEN S ELSE CL_ERROR(S)
      [] OTHER              -> S

(***************************************************************************)
(* ClStorageBuilder.  A block is known from its first mention on; its      *)
(* number in the sequence stands for the pointer.  The callbacks for       *)
(* switch statements are left out: they are unfolded or never sent.        *)
(***************************************************************************)
BlockNo(cfg, name) == IF \E i \in DOMAIN cfg : cfg[i].name = name
                      THEN CHOOSE i \in DOMAIN cfg : cfg[i].name = name
                      ELSE 0
WithBlock(cfg, name) == IF BlockNo(cfg, name) # 0 THEN cfg
                        ELSE Append(cfg, [name |-> name, insns |-> <<>>, inbound |-> <<>>])

openInsn(S, insn) ==
    LET block == S.cfg[S.fnc][S.bb]
    IN  IF S.insn # 0 \/ S.bb = 0 THEN CL_TRAP(S)
        ELSE IF block.insns # <<>> /\ cl_is_term_insn(Last(block.insns).code) THEN CL_TRAP(S)
        ELSE [S EXCEPT !.cfg[S.fnc][S.bb].insns = Append(@, insn), !.insn = 1]

closeInsn(S) ==
    LET targets == Last(S.cfg[S.fnc][S.bb].insns).targets
    IN  IF S.insn = 0 THEN CL_TRAP(S)
        ELSE [S EXCEPT !.insn = 0,
                       !.cfg[S.fnc] = FoldLeft(LAMBDA cfg, t : [cfg EXCEPT ![t].inbound = Append(@, S.bb)],
                                               @, targets)]

(* The jump to the entry block is ignored: no block is open by then. *)
storeInsn(S, c) ==
    IF S.bb = 0 THEN S
    ELSE IF S.fnc = 0 THEN CL_TRAP(S)
    ELSE LET T == [S EXCEPT !.cfg[S.fnc] = FoldLeft(WithBlock, @, c.labels)]
             U == openInsn(T, [code |-> c.code, arg |-> c.arg,
                               targets |-> [i \in DOMAIN c.labels |-> BlockNo(T.cfg[S.fnc], c.labels[i])]])
         IN  IF U.crashed THEN U ELSE closeInsn(U)

ClStorageBuilder(S, c) ==
    CASE S.crashed -> S
      [] ~S.crashed /\ c.cb = "fnc_open"  -> [S EXCEPT !.fnc = c.arg, !.bb = 0]
      [] ~S.crashed /\ c.cb = "fnc_close" -> [S EXCEPT !.fnc = 0]
      [] ~S.crashed /\ c.cb = "bb_open"   ->
           IF S.fnc = 0 THEN CL_TRAP(S)
           ELSE LET cfg == WithBlock(S.cfg[S.fnc], c.labels[1])
                IN  [S EXCEPT !.cfg[S.fnc] = cfg, !.bb = BlockNo(cfg, c.labels[1])]
      [] ~S.crashed /\ c.cb = "insn" -> storeInsn(S, c)
      [] ~S.crashed /\ c.cb = "insn_call_open" ->
           IF S.fnc = 0 THEN CL_TRAP(S) ELSE openInsn(S, [code |-> "CALL", arg |-> c.arg, targets |-> <<>>])
      [] ~S.crashed /\ c.cb = "insn_call_close" ->
           IF S.insn = 0 THEN CL_TRAP(S) ELSE closeInsn(S)
      [] OTHER -> S

Listener(S, c) == ClStorageBuilder(ClfCbSeqChk(ClfLabelChk(S, c), c), c)

(***************************************************************************)
(* ClfUniLabel and ClfUnfoldSwitch.                                        *)
(***************************************************************************)
labelLookup(seen, label) == IF label \in ToSet(seen) THEN seen ELSE Append(seen, label)
resolveLabel(seen, label) == <<"L", CHOOSE i \in DOMAIN seen : seen[i] = label>>

(* Filter number k sees the labels of the callback, and resolves them in   *)
(* what it passes on.                                                      *)
ClfUniLabel(S, k, c) ==
    LET reset == S.chain = "llvm" /\ c.cb = "fnc_open"      \* CL_SCOPE_FUNCTION
    IN  [S EXCEPT !.uni[k] = IF reset THEN <<>> ELSE FoldLeft(labelLookup, @, c.labels)]

Resolved(S, k, c) == [c EXCEPT !.labels = [i \in DOMAIN @ |-> resolveLabel(S.uni[k], @[i])]]

(* What ClfUnfoldSwitch passes on goes through two more filters for labels *)
(* and the checker to the listener itself.                                 *)
UnfoldSlave(S, c) ==
    LET T == ClfUniLabel(S, 2, c)
        d == Resolved(T, 2, c)
        U == ClfUniLabel(T, 3, d)
    IN  Listener(U, Resolved(U, 3, d))

(* Mutant: the blocks are not told apart by the case. *)
CaseLabel_Same(sw) == <<"switch", sw.switchCnt>>

CaseLabel(sw) == <<"switch", sw.switchCnt, sw.casePerSwitchCnt>>

(* A case value becomes a comparison and a branch, to the target or to a   *)
(* new block where the next case is tried.                                 *)
emitCase(S, val, label) ==
    LET T   == [S EXCEPT !.sw.casePerSwitchCnt = @ + 1]
        aux == CaseLabel(T.sw)
    IN  FoldLeft(UnfoldSlave, T, <<Insn("BINOP", <<"aux">>, <<>>),
                                   Insn("COND", <<"case", val>>, <<label, aux>>),
                                   BbOpen(aux)>>)

(* Mutant: a range of values without its end. *)
CaseValues_Open(range) == [i \in 1 .. range[2] - range[1] |-> range[1] + i - 1]

CaseValues(range) == [i \in 1 .. range[2] - range[1] + 1 |-> range[1] + i - 1]

(* The default label has no value and is kept for the end. *)
ClfUnfoldSwitch(S, c) ==
    CASE c.cb = "insn_switch_open" -> S
      [] c.cb = "insn_switch_case" /\ c.arg = <<>> -> [S EXCEPT !.sw.defLabel = c.labels[1]]
      [] c.cb = "insn_switch_case" /\ c.arg # <<>> ->
           FoldLeft(LAMBDA T, val : emitCase(T, val, c.labels[1]), S, CaseValues(c.arg))
      [] c.cb = "insn_switch_close" ->
           IF S.sw.defLabel = NoLabel THEN CL_TRAP(S)
           ELSE [UnfoldSlave(S, Insn("JMP", 0, <<S.sw.defLabel>>))
                   EXCEPT !.sw = [switchCnt |-> @.switchCnt + 1, casePerSwitchCnt |-> 0, defLabel |-> NoLabel]]
      [] OTHER -> UnfoldSlave(S, c)

(* ClFactory: the filters in the order of the chain, the checker and the   *)
(* listener itself.                                                        *)
Emit(S, c) ==
    LET T == ClfUniLabel(S, 1, c)
        d == Resolved(T, 1, c)
    IN  IF S.chain = "llvm" THEN Listener(T, d) ELSE ClfUnfoldSwitch(T, d)

EmitAll(S, cs) == FoldLeft(Emit, S, cs)

===============================================================================
