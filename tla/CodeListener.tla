------------------------------ MODULE CodeListener ------------------------------
(***************************************************************************)
(* The compiler adapters of Code Listener, the plug-ins of gcc             *)
(* (cl/gcc/clplug.c) and LLVM (cl/llvm/clplug.cc): they walk the           *)
(* control-flow graphs of the compiler, block by block, and emit callbacks *)
(* from which the storage of the analyzers is built.                       *)
(*                                                                         *)
(* A function of the compiler is a record: named, whether it has a name    *)
(* (LLVM), hasCfg, whether the CFG was found (gcc), and bbs, its blocks in *)
(* order.  A block has phis (LLVM; records [dst, src], where src gives the *)
(* incoming value for each predecessor), stmts and a terminator term:      *)
(*   gcc    goto, cond, switch, ret, noreturn (a call), resx; an "eh" or   *)
(*          "abnormal" edge may come before the one that is fallen through *)
(*   LLVM   goto, cond, ret, unreachable, and what is not supported        *)
(* with the targets in to, and for a switch the case ranges; the first     *)
(* target is the default.  Labels are numbers of blocks, or fresh.  The    *)
(* compiler has no errors of its own to report.                            *)
(***************************************************************************)
EXTENDS CodeFilters, FiniteSets

CONSTANTS
    Sources,    \* compilation units: [adapter, fncs]
    Values      \* values of the operand of a switch

VARIABLES
    source,     \* the unit that is compiled
    phase,      \* "unit", "fnc", "bb", "end", "ack" or "done"
    fnc, bb,    \* the function and the block that come next
    bbUID,      \* number of fresh labels (LLVM)
    cl,         \* filters, checker and storage
    opened      \* block of the storage that each block of the source opened

vars == <<source, phase, fnc, bb, bbUID, cl, opened>>

Bb(i) == <<"bb", i>>
Aux(i) == <<"label", i>>
Function_ == source.fncs[fnc]
Block == Function_.bbs[bb]

Init ==
    /\ source \in Sources
    /\ phase = "unit" /\ fnc = 1 /\ bb = 1 /\ bbUID = 0
    /\ cl = InitListener(source.adapter)
    /\ opened = [f \in Fncs |-> <<>>]

CallInsn(what) == <<Call("insn_call_open", what), Call("insn_call_arg", 1), Call("insn_call_close", 0)>>

(***************************************************************************)
(* The adapter of gcc.                                                     *)
(***************************************************************************)
emit_abort_once(sent) == IF sent THEN <<>> ELSE <<Insn("ABORT", 0, <<>>)>>

cb_walk_gimple_stmt(stmt) ==
    CASE stmt = "call"   -> CallInsn(stmt)
      [] stmt = "assign" -> <<Insn("UNOP", stmt, <<>>)>>
      [] stmt = "label"  -> <<Insn("LABEL", stmt, <<>>)>>
      [] stmt = "asm"    -> <<>>                   \* not supported, a warning

handle_stmt_switch(term) ==
    <<Call("insn_switch_open", 0)>>
      \o [i \in DOMAIN term.to |-> [cb |-> "insn_switch_case", code |-> "", labels |-> <<Bb(term.to[i])>>,
                                    arg |-> IF i = 1 THEN <<>> ELSE term.cases[i - 1]]]
      \o <<Call("insn_switch_close", 0)>>

(* The statement at the end of a block. *)
LastStmt(term) ==
    CASE term.kind = "cond"     -> <<Insn("BINOP", <<"aux">>, <<>>), Insn("COND", <<"br">>, <<Bb(term.to[1]), Bb(term.to[2])>>)>>
      [] term.kind = "switch"   -> handle_stmt_switch(term)
      [] term.kind = "ret"      -> <<Insn("RET", 0, <<>>)>>
      [] term.kind = "noreturn" -> CallInsn("call") \o emit_abort_once(FALSE)
      [] term.kind = "resx"     -> emit_abort_once(FALSE)
      [] OTHER                  -> <<>>

(* Only the first of the edges that leave the block is looked at. *)
FirstEdge(term) ==
    CASE term.edge = "eh" -> emit_abort_once(term.kind \in {"noreturn", "resx"})
      [] term.edge = "none" /\ term.kind = "goto" -> <<Insn("JMP", 0, <<Bb(term.to[1])>>)>>
      [] OTHER -> <<>>

handle_fnc_bb(i, block) ==
    <<BbOpen(Bb(i))>> \o FlattenSeq([k \in DOMAIN block.stmts |-> cb_walk_gimple_stmt(block.stmts[k])])
      \o LastStmt(block.term) \o FirstEdge(block.term)

(***************************************************************************)
(* The adapter of LLVM.  Phi nodes are eliminated: the assignments are     *)
(* made where the predecessor jumps, in a new block if the jump is         *)
(* conditional.                                                            *)
(***************************************************************************)
(* Callbacks that eliminate the phi nodes of block succ on the way from. *)
PhiAssigns(from, succ) ==
    LET phis == Function_.bbs[succ].phis
    IN  [i \in DOMAIN phis |-> Insn("UNOP", <<"copy", phis[i].dst, phis[i].src[from]>>, <<>>)]
testPhi(succ) == Function_.bbs[succ].phis # <<>>
insertPhiAssign(from, succ, label) ==
    <<BbOpen(label)>> \o PhiAssigns(from, succ) \o <<Insn("JMP", 0, <<Bb(succ)>>)>>

(* A branch on a constant is an unconditional one in the source already.   *)
(* A condition is a comparison, or it is compared with zero.               *)
handleBranchInstruction(from, term, uid) ==
    LET to == term.to
        label1 == IF testPhi(to[1]) THEN Aux(uid) ELSE Bb(to[1])
        label2 == IF ~testPhi(to[2]) THEN Bb(to[2]) ELSE IF testPhi(to[1]) THEN Aux(uid + 1) ELSE Aux(uid)
    IN  IF term.kind = "goto"
        THEN PhiAssigns(from, to[1]) \o <<Insn("JMP", 0, <<Bb(to[1])>>)>>
        ELSE <<Insn("BINOP", <<"aux">>, <<>>), Insn("COND", <<"br">>, <<label1, label2>>)>>
               \o (IF testPhi(to[1]) THEN insertPhiAssign(from, to[1], label1) ELSE <<>>)
               \o (IF testPhi(to[2]) THEN insertPhiAssign(from, to[2], label2) ELSE <<>>)

(* The ternary operator splits its block. *)
handleSelectInstruction(uid) ==
    <<Insn("COND", <<"select">>, <<Aux(uid), Aux(uid + 1)>>),
      BbOpen(Aux(uid)), Insn("UNOP", <<"select", TRUE>>, <<>>), Insn("JMP", 0, <<Aux(uid + 2)>>),
      BbOpen(Aux(uid + 1)), Insn("UNOP", <<"select", FALSE>>, <<>>), Insn("JMP", 0, <<Aux(uid + 2)>>),
      BbOpen(Aux(uid + 2))>>

handleInstruction(stmt, uid) ==
    CASE stmt = "select" -> handleSelectInstruction(uid)
      [] stmt = "call"   -> CallInsn(stmt)
      [] stmt = "assign" -> <<Insn("UNOP", stmt, <<>>)>>

handleTerminator(i, term, uid) ==
    CASE term.kind \in {"goto", "cond"} -> handleBranchInstruction(i, term, uid)
      [] term.kind = "ret"              -> <<Insn("RET", 0, <<>>)>>
      [] term.kind = "unreachable"      -> <<Insn("ABORT", 0, <<>>)>>
      [] term.kind = "unsupported"      -> <<>>     \* a warning, or an error for a switch

(* Fresh labels: three for a select instruction, and one for each target   *)
(* of a branch that has phi nodes.                                         *)
UidsBefore(k) == 3 * Cardinality({j \in 1 .. k - 1 : Block.stmts[j] = "select"})
LlvmBlock ==
    <<BbOpen(Bb(bb))>>
      \o FlattenSeq([k \in DOMAIN Block.stmts |-> handleInstruction(Block.stmts[k], bbUID + UidsBefore(k))])
      \o handleTerminator(bb, Block.term, bbUID + UidsBefore(Len(Block.stmts) + 1))
LlvmUids == UidsBefore(Len(Block.stmts) + 1)
              + IF Block.term.kind = "cond" THEN Cardinality({i \in 1 .. 2 : testPhi(Block.term.to[i])}) ELSE 0

(***************************************************************************)
(* The traversal of a compilation unit.                                    *)
(***************************************************************************)
file_open ==
    /\ phase = "unit"
    /\ cl' = Emit(cl, Call("file_open", 0))
    /\ phase' = "fnc"
    /\ UNCHANGED <<source, fnc, bb, bbUID, opened>>

NextFnc == /\ phase' = IF fnc = Len(source.fncs) THEN "end" ELSE "fnc"
           /\ fnc' = fnc + 1
           /\ bb' = 1

(* handle_fnc_decl(), handleFunction(): the function, its arguments and a  *)
(* jump to the entry block.  A function without a CFG is not closed; one   *)
(* without a name is not opened, but its blocks are.                       *)
fnc_open ==
    /\ phase = "fnc"
    /\ cl' = EmitAll(cl, IF ~Function_.named THEN <<>>
                         ELSE <<Call("fnc_open", fnc), Call("fnc_arg_decl", 1)>>
                                \o (IF Function_.hasCfg THEN <<Insn("JMP", 0, <<Bb(1)>>)>> ELSE <<>>))
    /\ IF Function_.hasCfg THEN phase' = "bb" /\ UNCHANGED <<fnc, bb>> ELSE NextFnc
    /\ UNCHANGED <<source, bbUID, opened>>

(* The block of the storage is the one its first callback opens. *)
OpenBlock(calls) ==
    LET open == Emit(cl, Head(calls))
    IN  /\ cl' = EmitAll(open, Tail(calls))
        /\ opened' = [opened EXCEPT ![fnc] = Append(@, open.bb)]
        /\ bb' = bb + 1
        /\ UNCHANGED <<source, phase, fnc>>

GccBb ==
    /\ phase = "bb" /\ source.adapter = "gcc" /\ bb <= Len(Function_.bbs)
    /\ OpenBlock(handle_fnc_bb(bb, Block))
    /\ UNCHANGED bbUID

LlvmBb ==
    /\ phase = "bb" /\ source.adapter = "llvm" /\ bb <= Len(Function_.bbs)
    /\ OpenBlock(LlvmBlock)
    /\ bbUID' = bbUID + LlvmUids

fnc_close ==
    /\ phase = "bb" /\ bb > Len(Function_.bbs)
    /\ cl' = Emit(cl, Call("fnc_close", 0))
    /\ NextFnc
    /\ UNCHANGED <<source, bbUID, opened>>

file_close ==
    /\ phase = "end"
    /\ cl' = Emit(cl, Call("file_close", 0))
    /\ phase' = "ack"
    /\ UNCHANGED <<source, fnc, bb, bbUID, opened>>

(* cb_finish(), doFinalization(): the analyzer is run on the storage, even *)
(* if the checker has reported errors; the exit code tells in the end.     *)
acknowledge ==
    /\ phase = "ack"
    /\ cl' = Emit(cl, Call("acknowledge", 0))
    /\ phase' = "done"
    /\ UNCHANGED <<source, fnc, bb, bbUID, opened>>

Next == file_open \/ fnc_open \/ GccBb \/ LlvmBb \/ fnc_close \/ file_close \/ acknowledge

ListenerSpec == Init /\ [][Next]_vars

(***************************************************************************)
(* Properties.                                                             *)
(***************************************************************************)
(* What decides where the execution of a block goes. *)
Outcomes == [br : BOOLEAN, select : BOOLEAN, val : Values]
Regs == {"x", "y"}
Start == [log |-> <<>>, env |-> [r \in Regs |-> r], next |-> 0]

(* What a block of the source does: the operations it makes, where it goes *)
(* and what the phi nodes there, all at once, make of the registers.       *)
CaseTarget(term, val) ==
    LET hit == {i \in DOMAIN term.cases : val \in term.cases[i][1] .. term.cases[i][2]}
    IN  IF hit = {} THEN term.to[1] ELSE term.to[1 + CHOOSE i \in hit : TRUE]
SourceNext(term, o) ==
    CASE term.kind = "goto"   -> term.to[1]
      [] term.kind = "cond"   -> IF o.br THEN term.to[1] ELSE term.to[2]
      [] term.kind = "switch" -> CaseTarget(term, o.val)
      [] OTHER                -> 0
SourceRun(bbs, i, o) ==
    LET stmts == SelectSeq(bbs[i].stmts, LAMBDA s : s # "asm")
        next  == SourceNext(bbs[i].term, o)
        phis  == IF next = 0 THEN <<>> ELSE bbs[next].phis
    IN  [log  |-> [k \in DOMAIN stmts |-> IF stmts[k] = "select" THEN <<"select", o.select>> ELSE stmts[k]]
                     \o (IF bbs[i].term.kind = "noreturn" THEN <<"call">> ELSE <<>>),
         env  |-> [r \in Regs |-> IF \E k \in DOMAIN phis : phis[k].dst = r
                                  THEN phis[CHOOSE k \in DOMAIN phis : phis[k].dst = r].src[i] ELSE r],
         next |-> next]

(* What the storage does from instruction i of block p on, up to a block   *)
(* that some block of the source opened; fuel blocks at most.              *)
RECURSIVE StorageRun(_, _, _, _, _, _, _)
StorageRun(cfg, blocks, p, i, o, run, fuel) ==
    IF i > Len(cfg[p].insns) \/ fuel = 0 THEN [run EXCEPT !.next = -1]
    ELSE LET insn == cfg[p].insns[i]
             Goto(q) == IF \E b \in DOMAIN blocks : blocks[b] = q
                        THEN [run EXCEPT !.next = CHOOSE b \in DOMAIN blocks : blocks[b] = q]
                        ELSE StorageRun(cfg, blocks, q, 1, o, run, fuel - 1)
             Value(src) == IF src \in Regs THEN run.env[src] ELSE src
         IN  CASE insn.code = "JMP"   -> Goto(insn.targets[1])
               [] insn.code = "COND"  ->
                    Goto(insn.targets[IF CASE insn.arg[1] = "br" -> o.br [] insn.arg[1] = "select" -> o.select
                                           [] insn.arg[1] = "case" -> o.val = insn.arg[2]
                                      THEN 1 ELSE 2])
               [] insn.code \in {"RET", "ABORT"} -> run
               [] insn.code = "BINOP" -> StorageRun(cfg, blocks, p, i + 1, o, run, fuel)
               [] insn.code = "UNOP" /\ insn.arg # "assign" /\ insn.arg[1] = "copy" ->
                    StorageRun(cfg, blocks, p, i + 1, o,
                               [run EXCEPT !.env[insn.arg[2]] = Value(insn.arg[3])], fuel)
               [] OTHER -> StorageRun(cfg, blocks, p, i + 1, o, [run EXCEPT !.log = Append(@, insn.arg)], fuel)

(* Unless an error was reported, the analyzers get the program that the    *)
(* compiler had: every function starts with its entry block; for every     *)
(* outcome of conditions and every value of a switch, the blocks of the    *)
(* storage make the same operations as the block of the source, lead to    *)
(* the same successor and hand the same values to its phi nodes; and the   *)
(* predecessors of a block are those that have it as a target.  Blocks     *)
(* with exception edges, which are cut off with a warning, are exempt.     *)
CfgFollowsSource ==
    phase = "done" /\ cl.errors = 0 =>
        \A f \in DOMAIN source.fncs :
            LET cfg == cl.cfg[f]
                bbs == source.fncs[f].bbs
            IN  /\ opened[f][1] = 1 /\ Len(opened[f]) = Len(bbs)
                /\ \A i \in DOMAIN bbs : bbs[i].term.edge # "eh" =>
                     \A o \in Outcomes :
                         StorageRun(cfg, opened[f], opened[f][i], 1, o, Start, Len(cfg)) = SourceRun(bbs, i, o)
                /\ \A p, q \in DOMAIN cfg :
                     Len(SelectSeq(cfg[p].inbound, LAMBDA r : r = q))
                       = Len(SelectSeq(FlattenSeq([k \in DOMAIN cfg[q].insns |-> cfg[q].insns[k].targets]),
                                       LAMBDA r : r = p))

(* The builder of the storage crashes on incorrect sequences of callbacks, *)
(* "since this should have already been caught by ClfCbSeqChk": an error   *)
(* comes before every crash.                                               *)
CrashIsAnnounced == cl.crashed => cl.errors # 0

(* What both adapters support passes the integrity checks, through all     *)
(* filters: no label is missing or defined twice, whatever blocks are      *)
(* made for cases, selections and phi nodes, and every block ends once.    *)
Supported(f) == /\ f.named /\ f.hasCfg
                /\ \A i \in DOMAIN f.bbs : f.bbs[i].term.edge # "abnormal" /\ f.bbs[i].term.kind # "unsupported"
NoFalseAlarm == (\A f \in DOMAIN source.fncs : Supported(source.fncs[f])) => cl.errors = 0

===============================================================================
