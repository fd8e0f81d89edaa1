----------------------------- MODULE ControlFlow -----------------------------
(***************************************************************************)
(* The control-flow graph of the function under analysis (cl/storage.hh)   *)
(* and the options of the analyzer (sl/config.h, sl/glconf.hh), as far as  *)
(* the fixed-point engine looks at them.  Both are chosen once, in the     *)
(* initial state, and never change.                                        *)
(*                                                                         *)
(* An instruction is a record with its code, its targets and fns, the      *)
(* names of the transfer functions that say what it does to a heap:        *)
(*   "op"    a regular instruction        fns = <<f>>                      *)
(*   "call"  a call of a defined function fns = <<f>>                      *)
(*   "cmp"   the CL_INSN_BINOP that the next CL_INSN_COND decides on       *)
(*   "jmp"   CL_INSN_JMP                  targets = <<t>>                  *)
(*   "cond"  CL_INSN_COND   fns = <<fThen, fElse>>, targets = <<t1, t2>>   *)
(*   "ret"   CL_INSN_RET                  fns = <<f>>                      *)
(*   "abort" CL_INSN_ABORT                                                 *)
(***************************************************************************)
EXTENDS Integers, Sequences, FiniteSets

CONSTANTS
  Block,     \* basic blocks
  Fn,        \* names of transfer functions
  Programs,  \* the functions to analyze: [entry, insns, closing]
  Confs      \* the configurations to analyze them with

VARIABLES
  prog,      \* the analyzed function
  conf       \* the options in effect

TermCodes == {"jmp", "cond", "ret", "abort"}
Insn == [code : {"op", "call", "cmp"} \cup TermCodes,
         fns : Seq(Fn), targets : Seq(Block)]

(***************************************************************************)
(* What the Code Listener guarantees of a stored function (storage.cc,     *)
(* clf_intchk.cc): a block is a non-empty sequence with its only terminal  *)
(* instruction at the end, and a CL_INSN_COND follows the comparison.      *)
(***************************************************************************)
WellFormedBlock(insns) ==
  /\ insns \in Seq(Insn) /\ Len(insns) > 0
  /\ \A i \in 1..Len(insns) :
        /\ insns[i].code \in TermCodes <=> i = Len(insns)
        /\ insns[i].code = "cond" <=> i > 1 /\ insns[i - 1].code = "cmp"
        /\ insns[i].code \in {"op", "call", "ret"} => Len(insns[i].fns) = 1
        /\ insns[i].code = "jmp" => Len(insns[i].targets) = 1
        /\ insns[i].code = "cond" => /\ Len(insns[i].targets) = 2
                                     /\ Len(insns[i].fns) = 2

(***************************************************************************)
(* joinMode is joinOnLoopEdgesOnly, ordering is stateLiveOrdering,         *)
(* schedKind, pruneMode, missThr and totalThr are the SE_BLOCK_SCHEDULER_  *)
(* KIND and SE_STATE_PRUNING_* macros.                                     *)
(***************************************************************************)
Conf == [joinMode : -1..3, ordering : 0..2, forbidReplace : BOOLEAN,
         exitLeaks : BOOLEAN, schedKind : 0..3, pruneMode : 0..3,
         missThr : Nat, totalThr : Nat]

ASSUME ControlFlowAssumption ==
  /\ Confs \subseteq Conf
  /\ \A p \in Programs :
        /\ p.entry \in Block
        /\ p.closing \subseteq Block \X Block
        /\ DOMAIN p.insns = Block
        /\ \A b \in Block : WellFormedBlock(p.insns[b])

InitControlFlow == prog \in Programs /\ conf \in Confs

Insns(b) == prog.insns[b]
FirstInsn(b) == Insns(b)[1]
LastInsn(b) == Insns(b)[Len(Insns(b))]

(* Block::targets(): the targets of the terminal instruction. *)
Targets(b) == LastInsn(b).targets

(* Block::inbound().size(): appendPredecessor() is called once per edge. *)
InboundCnt(b) ==
  Cardinality({e \in Block \X {1, 2} :
                  e[2] <= Len(Targets(e[1])) /\ Targets(e[1])[e[2]] = b})

(* isLoopClosingEdge(): compares blocks, not positions of targets. *)
IsLoopClosingEdge(b, ofBlock) == <<b, ofBlock>> \in prog.closing

(* Mutant: nobody marks the targets of loop-closing edges. *)
IsLoopEntry_Never(b) == FALSE

(* Block::isLoopEntry() *)
IsLoopEntry(b) == \E p \in Block : <<p, b>> \in prog.closing

(* A block that does nothing but decide where to go. *)
IsTrivial(b) ==
  \/ FirstInsn(b).code \in TermCodes
  \/ LastInsn(b).code = "cond" /\ Len(Insns(b)) = 2

==============================================================================
