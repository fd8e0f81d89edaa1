# Predator in TLA+

Predator is a shape analyzer for C programs: it executes a program on
*symbolic heaps*, graphs that describe sets of memory configurations, until it
has seen all the heaps that can come up anywhere.  This directory holds a
TLA+ development of its core: the fixed-point computation and everything it is
built on (containers of heaps, scheduling, loop-closing edges, calls and their
cache, the cut of heaps at calls, integer ranges, the memory of objects,
signals), the way a program gets from the compiler into the analyzer, and one of
the smaller analyzers of the repository.

Contents: [the system](#the-system), [modules](#modules-and-the-code-they-model),
[runs](#runs), [proofs](#proofs), [findings](#findings),
[what is not modelled](#what-is-not-modelled), [plan](#plan).

## The system

### Components, their state and operations

| Component | Source | State | Operations | Module |
|---|---|---|---|---|
| Containers of heaps | `sl/symstate.*` | `heaps_`, `done_`, `cntPending_`, `anyHit` per block | `insert`, `packState`, `rotateExisting`, `setDone`, `clear`, `swap` | `SymState` |
| Block scheduler | `sl/symstate.cc` | `todo`, `sched` | `schedule`, `getNext` | `BlockScheduler` |
| Fixed-point engine | `sl/symexec.cc` | `block_`, `insnIdx_`, `heapIdx_`, `localState_`, `nextLocalState_`, `callResults_`, `endReached_` | `run`, `execBlock`, `execInsn`, `updateState`, `pruneOrigin`, `joinCallResults` | `SymExecEngine` |
| Execution stack, call cache, backtrace | `sl/symexec.cc` (`SymExec`), `sl/symcall.*`, `sl/symbt.*` | `execStack_`, `PerFncCache` per function, `ctxStack`, `bt` | `execFnc`, `enterCall`, `getCallCtx`, `flushCallResults`, `invalidate`, `importGlVar` | `CallCache` |
| Cut at calls | `sl/symcut.*` | maps of objects and values, a work list | `splitHeapByCVars`, `joinHeapsByCVars` | `SymCut` |
| Join and comparison | `sl/symjoin.*`, `sl/symcmp.*` | - | `joinSymHeaps`, `areEqual` | `SymJoin` (contract) |
| Symbolic heap | `sl/symheap.*` and helpers | objects, values, fields, uniform blocks, predicates | several hundred accessors | `RegionMem`, `RangeVals` (parts) |
| Integer ranges, arena | `sl/intrange.*`, `sl/intarena.hh` | - | range arithmetic; multimap of intervals | `IntRange`, `IntervalArena` |
| Instruction semantics, abstraction | `sl/symproc.*`, `sl/symbin.*`, `sl/symabstract.*`, `sl/symdiscover.*` | - | `SymExecCore::exec`, `abstractIfNeeded` | parameters |
| Signals, entry point | `sl/sigcatch.*`, `sl/cl_symexec.cc` | `sig_flags`, `backup` | `install`, `caught`, `cleanup`, `execute` | `SigCatch` |
| Trace graph | `sl/symtrace.*` | nodes with parents and children | `traceUpdate`, `replaceNode` | - |
| Loop scan | `cl/loopscan.cc` | a stack of edges, visited blocks | `analyzeFnc` | `LoopScan` |
| Variable killer | `cl/killer.cc` | live and killed variables per block, todo | `updateBlock`, `commitBlock` | `VarKiller` |
| Code Listener | `cl/` | blocks, instructions; labels, open switch | a chain of listeners from the adapter to the storage | `CodeFilters` |
| Compiler adapters | `cl/gcc/`, `cl/llvm/` | position in the compiler's functions | callbacks | `CodeListener` |
| fwnull | `fwnull/cl_fwnull.cc` | state of variables per block, todo | `handleInsn...`, `mergeValues`, `handleFnc` | `FwNull` |
| Container detection | `sl/adt_op*`, `sl/cont_shape*`, `sl/fixed_point*` | - | an optional pass over a finished fixed point | - |
| Forester, VRA | `fa/`, `vra/` | - | other analyzers on top of the Code Listener | - |

### How they interact

A compiler plug-in walks the functions of a unit and emits callbacks.  They go
through filters (unique labels, switches unfolded into branches) and an
integrity checker to a builder, which stores every function as a control-flow
graph.  `loopscan` marks loop-closing edges in it and the killer marks where
variables die.  `execute()` installs signal handlers and creates, for each root
function, a `SymExec`, whose `execFnc()` keeps a stack of engines, one per
pending call.  The engine on top runs until it is done or meets a call.  It
takes a block from the scheduler, copies the heaps of the block to
`localState_`, and executes instruction by instruction, for each instruction
heap by heap.  A terminal instruction calls `updateState()`, which abstracts the
heap on a loop-closing edge, inserts it into the container of the target block
and, if that has changed anything, schedules the block.  A call suspends the
engine; `execFnc()` cuts off the part of the heap that the callee can reach,
asks the call cache for the result or pushes a new engine, and wakes the engine
up with the results, joined with the rest.  Between instructions the engine
polls the flags of signals.

The program has one thread; only signal handlers interrupt it.  What is hard in
it is *re-entrance*: the block being executed may be changed by its own
successors, a container is rearranged while it is walked over, a computation is
suspended in the middle of a block, the keys of a cache are rewritten while the
contexts are on the stack, the vectors and the counter of a container have to
agree through every rearrangement, overlapping fields invalidate and revive each
other, and whether the whole ends depends on decisions (loop-closing edges,
pruning, a bypass of checks) made in three different files.

### What correctness means, component by component

- *Containers*: a mark means "processed as it is"; whatever was inserted is
  covered by something processed or pending; no isomorphic heaps side by side;
  `packState()` ends.
- *Scheduler*: queue and set agree.
- *Engine*: a pending heap is never forgotten; the skip and the prune
  conditions are met only when they should be; the results cover all paths;
  the computation ends; the "end not reached" warning is no false alarm; seen
  from outside it is a work-set algorithm.
- *Calls*: keys and contexts agree, a pending context is never erased, backtrace
  and stack agree, results are what the program computes.
- *Cut*: nothing is lost, doubled or shared; a cut and a join around a change
  are the change.
- *Integers*: a range contains the number it stands for; what is decided from
  ranges is true of the numbers.
- *Memory*: a value read is one the bytes can have; the arena and the lists of
  users describe exactly the fields there are.
- *Signals*: none is lost unnoticed; a request to finish ends the analysis unless
  another signal keeps overtaking it.
- *Loop scan*: every loop has a loop-closing edge, nothing else is one, it ends.
- *Killer*: nothing is read after it was killed, variables of the caller
  survive, a branch kills what its target does not need.
- *fwnull*: a report has an execution that justifies it and is made over a fixed
  point; what is said of a pointer that was assigned holds in every execution.
- *Code Listener*: the storage means what the compiler's program means, or an
  error was reported; what is supported gives no error.

## Modules and the code they model

```
ControlFlow   SymJoin ----- SymState
    |                          |
    +------ SymExecEngine -----+--- BlockScheduler
    |            |
    |         Places --- PathSemantics
    |            |
    |       EngineRefinement --INSTANCE--> WorkSet --- WorkSetProofs
    |
    +------ LoopScan
CallCache --- CallSemantics          SymCut        SigCatch
IntRange --- RangeVals               IntervalArena --- RegionMem
CodeFilters --- CodeListener         VarKiller     FwNull
```

Each `MC...` module instantiates the module of its name for the model checker.
`ListHeaps` is the domain of heaps that the engine is checked on.  A module
`...Proofs` holds the theorems about the module of its name; there is one for
`WorkSet`, `LoopScan`, `CallCache`, `RegionMem`, `SigCatch` and `VarKiller`.  Those
about the engine build on each other: `SymExecEngineProofs` begins with the
containers of `SymState`, which the engine's proofs use throughout;
`EngineRefinementProofs` ends with the soundness over all paths of
`PathSemantics`.

**`ControlFlow`** (`include/cl/storage.hh`, `cl/storage.cc`, `sl/config.h`):
the analyzed function `prog` and the options `conf`.  An instruction is its
code, its targets and the names of the transfer functions that say what it does
to a heap.  `prog` and `conf` are variables that never change, so that one run
covers many functions and configurations.  Options that are macros in the code
(scheduler kind, pruning) are fields of `conf`, too.

**`SymJoin`** (`sl/symjoin.cc`, `sl/join_status.hh`): the contract of
`joinSymHeaps()`.  A heap is one value per isomorphism class; `Covers` is
entailment, `ThreeWay` the heap that a three-way join builds, `Forced` the pairs
for which `joinCustomValues()` sets `forceThreeWay`.

**`SymState`** (`sl/symstate.*`): a container is a record of `heaps`, `done`,
`cntPending` and `anyHit`; each protected operation of `SymStateMarked` is an
operator on it.  `SymStateMap::insert()` is split into `InsertBegin` (bypass,
isomorphism check or join with the first joinable heap), a `PackStep` per turn
of the loop in `packState()`, `PackDone`, and `InsertReturn`.  The history
variables `arrived` and `processed` record what was inserted and what was
marked as done.  The container of `joinCallResults()` is one more key,
`CallResults`; nobody reads its marks or its `anyHit`.

**`BlockScheduler`** (`sl/symstate.cc`): `Schedule` and `GetNextBlock` for the
four kinds.  The load-driven one breaks ties by the addresses of the blocks,
which the model leaves open.

**`SymExecEngine`** (`sl/symexec.cc`): composes the two.  `pc` says where `run()`
is: `getNext` (head of the main loop), `insn` (the loop over `localState_` in
`execInsn()`), `emit` (a terminal instruction is calling `updateState()`),
`wait` and `join` (a call).  One action per branch of `execInsn()`:
`SkipDone`, `LookAheadCond`, `HandleExitPoint`, `ExecNontermInsn`,
`SuspendForCall`, `ExecReturn`, `ExecAbort`, `ExecJump`, `ExecCondInsn`.
`EndOfInsn` includes `pruneOrigin()`, as `execBlock()` does.  The parameters
`Post`, `Fatal`, `Abstract`, `SetExit`, `Destroy` stand for the instruction
semantics, the abstraction and the treatment of an exited program.

**`Places`**: a place is a heap in front of an instruction.  What an instruction
does to a place, and which results of the function it yields.

**`PathSemantics`**: the reference the engine is compared with.  It follows every
path place by place, without joins, abstraction, pruning or schedules, for
`MaxPath` instructions.

**`WorkSet`**: what a fixed-point computation promises.  Places wait or have been executed.  `Execute` executes
one that waits; both actions may replace what waits by anything that covers it,
and drop what an executed place covers.  Nothing is said about blocks,
containers, joins or orders.

**`EngineRefinement`**: shows that the engine implements `WorkSet`.  The mapping
collects the places that wait from eight variables of the engine (pending heaps,
the rest of `localState_`, `nextLocalState_`, `callResults_`, the container of
`joinCallResults()`, the calls of `updateState()` still to be made).  The engine
does not remember what it has executed inside of a block; the history variable
`executed` does.

**`LoopScan`** (`cl/loopscan.cc`): `analyzeFnc()` with an action per branch of
its loop.

**`CallCache`** (`sl/symexec.cc`, `sl/symcall.cc`, `sl/symbt.cc`): the loop of
`execFnc()` over the stack of engines, `getCallCtx()` with its lookup, rotation
of hits and import of global variables, `flushCallResults()`, `invalidate()` and
the erasure of contexts after too many misses, and the backtrace.  A heap is the
value of one local variable and of the global variables alive in it; a function
is a sequence of assignments, branches and calls.  **`CallSemantics`** computes
the same on the whole memory, without frames or a cache.

**`SymCut`** (`sl/symcut.cc`): `DeepCopy` with its work list, `splitHeapByCVars()`
and `joinHeapsByCVars()`.  Objects have one field; values are addresses with an
offset, null or unknown, with Neq predicates between them.

**`IntRange`** (`sl/intrange.cc`) and **`RangeVals`** (`sl/symheap.cc`,
`sl/symproc.cc`, `sl/symbin.cc`, `sl/symjoin.cc`): ranges with their alignment,
and the operations that the analyzer applies to values: arithmetic, conversion
on assignment, comparison and the trimming that follows, dependent values, join.
An equality that cannot trim replaces one of the two values by the other one,
whichever was created first (`valMerge()`); joins are refused below
`SE_INT_ARITHMETIC_LIMIT`.
The module carries the numbers of a concrete execution along.  Integers of the
host have `Width` bits; its two extreme numbers mean "unbounded".

**`IntervalArena`** (`sl/intarena.hh`) and **`RegionMem`** (`sl/symheap.cc`):
`fldLookup()`, `valueOf()`, `setValueOf()`, `writeUniformBlock()`,
`copyBlockOfRawMemory()`, `objClone()`, `reinterpretObjData()`,
`splitBlockByObject()`, `findCoveringUniBlocks()`, handles of fields and the
lists of users of pointers, next to the bytes of a concrete memory.  The sets of
fields that the code walks over are ordered by id, the gaps by their start; the
model walks over the ids, and over the offsets, in the same order.  `Copy` requires
that no handle to a field of the destination is held: `copyBlockOfRawMemory()` does
not test it, but its only caller, `executeMemmove()`, has none.

**`SigCatch`** (`sl/sigcatch.cc`, `sl/symexec.cc`, `sl/cl_symexec.cc`): flags,
handlers and backups, each tested, set or restored in a step of its own, and the
action `Arrive` between any two of them.

**`VarKiller`** (`cl/killer.cc`, `killVar()` in `sl/symproc.cc`) and **`FwNull`**
(`fwnull/cl_fwnull.cc`): data-flow computations over the blocks of a function
with their work lists, and what is done with the result.  `VarKiller` takes what
the points-to analysis promises of aliases as an assumption (`AliasesAreTrue`)
and executes the function with the marks that the analysis made.  On the way to a
block that ends with abort nothing is killed (`headingToAbort()`).  A pointer gets
its target by an address, or by a copy of another variable; a pointer that is read
from or written to memory through another pointer is taken to point to none of
the variables, and an execution ends where a pointer with an alias is
dereferenced before it has got its target.

**`CodeFilters`** (`cl/clf_unilabel.cc`, `cl/clf_unswitch.cc`,
`cl/clf_intchk.cc`, `cl/cl_storage.cc`) and **`CodeListener`**
(`cl/gcc/clplug.c`, `cl/llvm/clplug.cc`): each callback goes through the whole
chain (`Emit`); an action per function, block and end of file of the adapters.

The operators whose comment starts with "Mutant:" are never used by a
specification.  Each is a plausible bug in the operator below it, and is used to
show that a property notices it.

## Runs

| Run | Config | Distinct states | Instance |
|---|---|---|---|
| `symstate` | `MCSymState.cfg` | 1 262 940 | containers under an arbitrary client |
| `engine` | `MCEngineRefinement.cfg` | 160 084 | eight functions in many configurations, and all control flow over three blocks |
| `self_jump` | `SelfJump.cfg` | violation | the finding below |
| `loopscan` | `MCLoopScan.cfg` | 753 481 | every control-flow graph of four blocks |
| `call_cache` | `MCCallCache.cfg` | 58 737 | 564 programs of four functions |
| `heap_cut` | `MCSymCut.cfg` | 1 135 312 | every heap of two variables and two objects |
| `int_ranges` | `MCRangeVals.cfg` | 15 739 | one integer through any sequence of operations |
| `region_memory` | `MCRegionMem.cfg` | 700 863 | two objects of four bytes, any sequence of accesses |
| `signals` | `MCSigCatch.cfg` | 5 690 | three signals, two root functions |
| `var_killer` | `MCVarKiller.cfg` | 158 001 | functions of four blocks, all orders |
| `null_checker` | `MCFwNull.cfg` | 82 256 | functions of four blocks |
| `code_listener` | `MCCodeListener.cfg` | 85 440 | units of two functions, gcc and LLVM |

### Properties

`symstate`:

- `StateTypeOK`: among others, the result of a failed join is never stored.
- `DoneIsProcessed`: a marked heap has been processed in the form it has now.
- `NothingLost`: each inserted heap is covered by one that has been processed or
  is pending.
- `NoIsomorphicPair`: outside `packState()` no two heaps of a block are
  isomorphic (unless the block bypasses the check).  This is not obvious:
  `packState()` does not compare again with what it has passed when the new heap
  grows later in the loop.  It may leave a heap that the grown one covers, but
  never an isomorphic one.
- `PackTerminates`: the loop in `packState()` ends.

`engine`:

- `PendingIsScheduled`: a block with a pending heap is queued, or being walked
  over with the heap still ahead, or its change is just about to be reported.
- `SkippedIsProcessed`: what `execInsn()` skips has been processed.
- `PruneNeverFails`: `pruneOrigin()` never meets a pending heap.
- `QueueMatchesTodo`: the queue and the set of scheduled blocks agree.
- `CoversAllPaths`: at the end, what any path brings to a block is covered by a
  heap processed there, and any path's result by a result.
- `EndNotReachedIsTrue`: the warning "end of function ... has not been reached"
  is given only if no path ends.
- `Termination`.
- `ImplementsWorkSet`: every step is a step of `WorkSet` or changes nothing of it.

`loopscan`: `EveryLoopIsClosed`, `ClosesALoop`, and `ScanEnds` (all reachable
blocks are visited, and the search ends).

`call_cache`:

- `KeyMatchesEntry`: as long as no call was refused or cut off, the key of a
  context in the cache is its entry heap, through all the rewriting by
  `importGlVar()`.
- `PendingIsOnStack`: a context is pending exactly as long as it is on the stack,
  and is not erased meanwhile.
- `BacktraceInStep`: as long as no call was refused, backtrace and stack agree.
- `ResultsAreExact`: without recursion the results are exactly the memories the
  program may end in.

`heap_cut`: `SplitPartitions` (every object goes to exactly one part),
`Separated` (no object and no unknown value is in both), `FrameRule` (split,
change by the callee and join give the heap with the change made to it directly,
up to names).

`int_ranges`: `CoversValue` (the range of a value contains the number),
`CompareAgrees` (the outcome of a comparison that is derived from ranges is
that of the numbers).

`region_memory`: `MemSound` (every value, cached ones included, agrees with the
bytes), `ArenaConsistent` (the arena holds exactly the intervals of the fields),
`UsedByExact` (the lists of users of pointers are exact), `CoverageIsTrue` (what
`findCoveringUniBlocks()` says is uniform is).

`signals`: `NotLostUnnoticed` (a signal that arrived and was not reported since is still
flagged while the analysis runs, or just being reported), `DieSignalEndsAnalysis` (SIGINT or SIGTERM
during the analysis ends it, unless signals of lower numbers, which `caught()`
prefers, are reported instead of it again and again: `Overtaken`).

`var_killer`: `NeverReadsDead`, `CallerVarsSurvive`, `BranchKillsDead` (when the
marking is complete, a branch kills whatever is alive behind it and not needed
at its target, unless the target aborts).

`null_checker`: `ReportHasPath` (a reported test or dereference has an execution
that justifies it), `AssignedIsGuaranteed` (what the state of a block says of a
pointer holds in every execution in which the function has assigned the
pointer), `ReportOverFixedPoint` (the reports are made over a fixed point).

`code_listener`: `CfgFollowsSource` (the stored control-flow graph runs like the
function of the compiler: same operations, same choices, phi nodes included; the
inbound edges are right), `CrashIsAnnounced` (an assertion of the builder fails
only after an error of the integrity checker), `NoFalseAlarm` (units with
supported constructs only give no error).

### Bounds, and why they are enough

- `symstate`: five heaps, three of which cannot be joined with each other, with
  every kind of pair (isomorphic, covering in either direction, joinable into a
  third one, forced, not joinable), and at most three heaps in the container
  before an insertion (`MaxHeaps` = 4; with `ClientKeys` a bound of the arbitrary
  client only).  So `packState()` meets the new heap and up to three others,
  before, between and behind it, and passes heaps that it has compared with an
  earlier form of the new heap only.  Four settings of join mode
  and ordering reach every branch; in the mode that allows it, the one block
  bypasses the checks.
- `engine`: the eight functions have loops of one and of several blocks, nested
  and irreducible loops, calls with several results and with none, an exit right
  before a condition, an abort, and a block with enough heaps to reach the
  pruning thresholds, which the configurations lower to 2 and 3.  The generated
  functions have three free blocks, each a jump, a condition or an append; the
  sets of loop-closing edges are all those with the properties that the
  `loopscan` run establishes.  Two kinds of function are left out because the
  code mishandles them: blocks that consist of a jump to themselves, and
  bypassed loop heads at the function's entry.  The engine itself has no bound:
  its heaps come from a finite domain.  The paths it is compared with are
  followed for `MaxPath` = 120 instructions: there are five blocks of at most
  three instructions and eight heaps, hence at most 120 places, and all places
  of all paths are reached.
- `loopscan`: all graphs over four blocks, irreducible and unreachable parts
  included, with conditions whose two targets differ.
- `call_cache`: two global variables (an import can change a key twice, or make
  two keys equal).  `MaxDepth` (`SE_MAX_CALL_DEPTH`) is 3, so that the limit is
  met, and `MissThr` (`SE_CALL_CACHE_MISS_THR`) is 2, so that eviction is.
- `heap_cut`: two variables and two anonymous objects, addresses with and
  without an offset, two unknown values with or without a Neq: sharing from either side,
  cycles, and an unknown value used on both sides of the cut.
- `int_ranges`: integers of five bits and operands for which the operations are
  meant (positive factors, masks that clear low bits); overflow of the host's
  integers is excluded by range, as the code assumes.  `IntArithmeticLimit`
  (`SE_INT_ARITHMETIC_LIMIT`) is 2, so that some joins are refused.  Only ranges of one
  number are converted to other types (`Converts`): wider ones are mishandled,
  see below.
- `region_memory`: a pointer and an integer of two bytes at the same place, a
  byte that overlaps both in part, a cleared window that contains all of them and
  one that starts in their middle, whole copies, at most four fields and blocks
  at a time (`MaxEnt`).  A block is cut in two by a field, trimmed at its start and
  at its end, destroyed, and left alone by a field with its value.  Fields and
  blocks that overlap in other ways are left to the proofs.
- `signals`: three signals arrive without a bound, any number of times and
  between any two steps; the flags keep the state space finite.
- `var_killer`, `null_checker`: an entry, a branch, an arm that joins or loops (in
  `var_killer` also one that aborts), and an exit, with every combination of small
  bodies.
- `code_listener`: two functions, so that state left by one meets the next; three
  blocks, of which two end in every way the adapters know.

### Fairness

`StateSpec` has weak fairness of `packState()` (a function that was called runs
until it returns); `ScanSpec`, `Spec` and `HistSpec` of their whole next-state
relation, `FwNullSpec` of the work of the checker, `KillerSpec` of `updateBlock`
and `Commit`: the program is sequential and takes a step whenever it can.
`SigSpec` has weak fairness of the program and none of the signals, which may
arrive or not, once or for ever.  No fairness is assumed of choices (ties of the load-driven
scheduler, the next block of the killer, the results of instructions).

Deadlock is checked except where a sequential program simply ends or a bound
stops a client (`CHECK_DEADLOCK FALSE`).

## Proofs

The theorems are proved with TLAPS for *every* value of the constants: every set
of heaps and join contract, every program and configuration, containers, stacks,
graphs and paths of any size.

| Component | Theorem | States | Hypothesis |
|---|---|---|---|
| containers | `StateTypeCorrect` | `StateTypeOK` | |
| | `MarksAreTrue` | `DoneIsProcessed` | |
| | `NothingIsLost` | `NothingLost` | |
| | `NoPairIsIsomorphic` | `NoIsomorphicPair` | |
| engine | `EngineTypeCorrect` | `StateTypeOK`, and no index of `run()` leaves its sequence | `NoSelfJump` |
| | `WorkIsScheduled` | `PendingIsScheduled` | `NoSelfJump` |
| | `SkippingIsSound` | `SkippedIsProcessed` | `NoSelfJump` |
| | `PruningIsSafe` | `PruneNeverFails` | `NoSelfJump` |
| | `QueueIsConsistent` | `QueueMatchesTodo` | `NoSelfJump` |
| | `FixedPointIsReached` | when `run()` returns, what arrived is covered by what was processed | `NoSelfJump` |
| work set | `WorkInvariant`, `WorkSetSound` | the invariant, and soundness, of the abstract computation | the order of coverage is a preorder |
| refinement | `EngineImplementsWorkSet` | `ImplementsWorkSet` | `NoSelfJump` |
| | `EngineIsSound` | `CoversAllPaths` | `NoSelfJump`, monotone instructions |
| | `EndWarningIsTrue` | `EndNotReachedIsTrue` | `NoSelfJump`, monotone instructions |
| loop scan | `LoopsAreCut` | `EveryLoopIsClosed` | |
| | `OnlyLoopsAreCut` | `ClosesALoop` | |
| | `ScanComplete` | all that the entry reaches was traversed at the end | |
| calls | `ContextsOutliveCalls` | `PendingIsOnStack` | |
| | `BacktraceListsCalls` | `BacktraceInStep` | |
| memory | `ArenaStaysConsistent` | `ArenaConsistent` | `CopiesAreWhole` |
| | `UsersStayExact` | `UsedByExact` | `CopiesAreWhole` |
| | `MemoryIsSound` | `MemSound` | `CopiesAreWhole`, `AlignedFields` |
| | `CoverageStaysTrue` | `CoverageIsTrue` | `CopiesAreWhole`, `AlignedFields` |
| killer | `KillerNeverReadsDead` | `NeverReadsDead` | |
| | `KillerSparesCaller` | `CallerVarsSurvive` | |
| signals | `SignalsNotLost` | `NotLostUnnoticed` | |
| | `CleanupIsComplete` | no handler of ours is left between root functions and at the regular end | |

### Assumptions

- `SymJoinAssumption`: entailment is a partial order on isomorphism classes, a
  three-way join covers both operands.  That is the contract of
  `joinSymHeaps()`; the inside of the join is not modelled.
- `ControlFlowAssumption`: what the integrity checker of Code Listener accepts: a
  block is a sequence of instructions of which exactly the last one is terminal,
  with the targets and transfer functions that its code calls for; a condition
  follows its comparison.
- `EngineAssumption`: the types of the transfer functions; an abstracted heap
  covers the original; a return yields one heap and a condition does not exit
  the program.
- `SymStateAssumption`, `CallCacheAssumption`, `SigCatchAssumption`,
  `MaxLenAssumption` and `MaxPathAssumption`: types of the constants, distinctness
  of names, and a bound on the length of a block.
- `RegionAssumption`: the accesses and windows of the program lie inside of the
  objects, and pointers differ from the other values.
- `VarKillerAssumption`: branches lead to blocks of the function and have at most
  two targets, an address or a pointer that is assigned is used; and
  `AliasesAreTrue`, what the killer relies on when it takes `*p` for a variable: `p`
  never points to another variable than that one of the caller, nor do the
  pointers it is assigned from or to, and the function does not name the
  variable.  `killer.cc` does not check it; the points-to graph, which is not
  modelled and unifies what is assigned, is to provide it.
- `CopiesAreWhole` and `AlignedFields`: a copy is one of a whole object, and fields
  of pointers and integers that overlap start at the same offset.  These are
  hypotheses of the theorems about the memory and not assumptions, since the
  code does not establish them: without the one a copy cuts blocks wrongly, and
  without the other a pointer is read at the wrong place, see `PartCopies` and
  `MisalignedFields` in the table below.  Fields of one byte, and cleared
  windows, may overlap anything.
- `NoSelfJump`: no block starts with a jump to itself.  It is a hypothesis of the
  theorems and no assumption on the constants, since the code does not establish
  it: without it the theorems are false, see the finding below.
- `PostIsMonotone` and `EndIsMonotone`, in `Places`: of two heaps one of which
  covers the other, the results for the former cover those for the latter.  A
  heap stands for a set of memories, an instruction for what may become of each
  of them, so this is what "covers" is meant to mean; whether the functions of
  `symproc.cc` have the property is outside of the model.  Only `EngineIsSound`
  and `EndWarningIsTrue` use them.

TLC evaluates all assumptions on the instances of the runs.  `NoSelfJump` holds
of the programs of the run `engine`, `CopiesAreWhole` and `AlignedFields` of the
instance of the run `region_memory`.

### Containers

*Argument*: none of the properties is inductive.  While `packState()` runs, the
state is only as good as its indices: it throws away the heap at `idxOld` because
the heap at `idxNew` covers it, and relies on the latter being pending.  The
inductive invariant `StateInv` therefore adds to the types

- `GoodState` of every container: the vectors have equal length, marks are
  true, and whatever arrived is covered by something processed or pending;
- `PackInv`: inside `packState()`, `idxNew` is the index of an existing heap
  without a mark.

The proof has a lemma per operation of `SymStateMarked` (`InsertNewIsGood`,
`SwapExistingIsGood`, `EraseExistingIsGood`, `RotateExistingIsGood`,
`MarkDoneIsGood`, `ClearStateIsGood`), each resting on what the operation does to
single indices, and a lemma per action (`*KeepsInv`).  The crucial one is
`PackStepKeepsInv`: after the merge (`MergedIsGood`) the heap at `idxNew` covers
the one at `idxOld` and is pending, so that `EraseExistingIsGood` applies, and
the index arithmetic of `--idxNew` follows the erased element.
Transitivity of `Covers` carries coverage over chains of joins.

`IsoInv` is about isomorphic heaps: inside `packState()` the heaps other than the
new one differ from each other, and none of those before `idxOld` covers the
new one.  The new one only grows, so it can never become one of them; this is
where antisymmetry of `Covers` is needed.

### Engine

`EngineInv` is `StateInv` and `IsoInv` with what `run()` knows at each `pc`.  The
parts that matter are `WalkInv` (during the walk over a block's heaps the copy
in `localState_` equals the original, and the heaps before the current one
carry the mark; the jump of a block to itself would break exactly this),
`InsertInv` (which container an unfinished `insert()` works on, and for whom)
and `PendingInv` (a heap without a mark is in a scheduled block, ahead in the
walk, or its block is about to be scheduled).  `IsoInv` is needed in the engine's
proof, too: it is why `insert()` of a heap that is there changes nothing.

### Refinement and soundness

`RefInv` relates marks and history: what was processed in front of a block has
been executed there or its call is on the way, and behind a leading comparison
it has been executed or still waits.  With it each action of the engine is shown
to be a step of `WorkSet` or to leave it alone (`RefStep`): what stops waiting is
executed by the step, or covered by what waits afterwards or has been executed
already.  `EngineImplementsWorkSet` combines these; `WorkSpec` has no fairness,
and so nothing of it is left to TLC.

`WorkInv` says that the start and all successors of executed places are covered
by what waits or has been executed.  A replacement keeps that by transitivity
(`StillCovered`).  At the end nothing waits; the set of places covered by executed
ones then contains the start and, by monotonicity, is not left by any step,
hence contains every path.  `EngineRefinementProofs` carries this over to
the engine.  `PathInv` says what the engine notes of executed places: the mark, and
`endReached`.  `SoundInv` is the conjunction of all these invariants.  When `run()`
has returned, nothing waits (`FinishedInv`), and `PathsAreExecuted` shows for each
`n` that what `n` instructions lead to is covered by an executed place.

The induction over `n`, and the existence of all recursive functions in the
modules with proofs (`ReachedIn`, `ImportLevels`, `Scanned`, `Overwrite`...), are derived from the
well-foundedness of `<`: a non-empty set of numbers that violate the claim has a
least element (lemmas `LeastNumber`, `Induction`).

### Loop scan

`ScanInv`: every edge of a block that is done, and every edge the search has
passed, leads to a block that is done or is loop-closing; in each non-empty set
of blocks that are done there is one all of whose edges into the set are
loop-closing (`DoneIsCut`, `EveryLoopIsClosed` of what is traversed so far); each
block on the stack reaches the ones above it.  Reachability is stated by sets
that no edge leaves, which needs no induction over paths.

### Calls

`StackInv` adds to `PendingIsOnStack` and `BacktraceInStep` that no context is on
the stack twice: when `flushCallResults()` takes the top away, its context is not
in use below, and `invalidate()`, which spares a cache with a context in use, can
only hit contexts that nobody waits for.  That the import of global variables
rewrites entries and keys all over the stack does not matter here
(`PrepareCallKeeps`).

The attempt to prove the unconditional form of `KeyMatchesEntry`
(`KeysAreEntries`) failed for a good reason: it is false after a call that
`SE_MAX_CALL_DEPTH` has cut off, see the table below.

### Memory

`MemoryInv` is inductive, and `FitInv` is inductive relative to it:

- `IsMem`: each field and block lies inside of its object, a field is one that
  the program accesses, a block is of zeros or undefined, the arenas and the lists of users
  are what they must be;
- `BlocksApart`: no two blocks share a byte;
- `Holds`: the handle of the caller refers to a field that is there;
- `FitInv`: each field and block has the value that its bytes have.

In the middle of an operation they do not hold: a write enters the new field or
block first and then goes through all it overlaps.  `Overwritten` says what
holds after the ids up to `n`: what is still ahead is as it was; everything else
is what one of the old entities was settled to (`Settled`: a piece of a block
outside of the new entity, the whole block if the new field has its value, or a
field that is kept and got the reinterpreted value); blocks other than the new one do not share bytes.  One turn of the loop is
`OverwriteStepFacts`, its cases are those of `splitBlockByObject()`
(`SplitFacts`: gone, cut in two, trimmed at either end, left alone) and of
`reinterpretObjData()`.  At the end nothing but the new entity has bytes that were
written with another value (`OverwriteFits`); it is in `ReinterpretedFits` that a
pointer, or a NULL, must not be kept at another offset (`AlignedFields`).  `Copied` is the
same for the loops of `transferBlock()` and `objClone()`: every entity of the
destination is the copy of one of the source.  It relies on the dummy block of
`copyBlockOfRawMemory()`: all that was in the destination is overlapped by it
(`KillFacts`), as the window is the whole object.

`CoverageIsTrue` follows from `FitInv` by what `sub()` does to points: the two
loops of `findCoveringUniBlocks()` leave disjoint intervals
(`RemainPoints`), the first one those points of the window that no fitting block
has, and the second one, the gaps being disjoint and thus determined by their
start, none of them.

### Killer

`KillerInv` relates the two directions of the analysis.  `scanBlock()` goes
forward and finds what a block generates and kills, `commitBlock()` goes backward
from what is alive behind the block.  The link is that what is alive in front of
the `k`-th instruction, without what the first `k - 1` kill, is generated by the block: at
the fixed point, the variables alive at the start of a block are in its `gen`,
and so alive behind each of its predecessors.  The execution then has destroyed
nothing that is alive at its place (`ExecInv`).  A variable that is read through a
pointer is either the target of an alias, which `presetLive()` and the aliases
keep alive, or has had its address taken, and then it is destroyed only while no
pointer points at it (`PointersOK`).  A copy of a pointer with an alias has the
same alias, so that nothing else points to the variables of the caller.

### Signals

`SigInv`: a signal that is owed a report has its flag set, unless it is just
being reported; every handler of ours is in `::backup`; and `cleanup()` passes
over none of them.

### Only model-checked

- Liveness (`PackTerminates`, `Termination`, `ScanEnds`, `DieSignalEndsAnalysis`):
  out of the prover's reach.
- `BranchKillsDead`: false for functions like `OneSided`, see the table below.
- `KeyMatchesEntry`: it needs that two contexts with the same entry make the same
  imports in the same order, which relates two executions.
- `ResultsAreExact` and `CfgFollowsSource`: their references are recursive
  operators (`CallSemantics`, the executions in `CodeListener`).
- `CrashIsAnnounced` and `NoFalseAlarm`: the chain of filters is a recursive
  operator as well.
- `CoversValue` and `CompareAgrees`: products, divisions and masks are not linear,
  and the provers know no such arithmetic.
- The properties of `SymCut` and `FwNull`: the former relate heaps up to names that
  a work list made, the latter (`ReportOverFixedPoint` aside, which holds of the
  functions of the run only, see `EmptyEntry` below) a report to the existence of
  an execution.

## Findings

**A block that jumps to itself** (run `self_jump`, `sl/symexec.cc:677`).
`execInsn()` walks over a copy of the block's heaps and looks for the marks in
the original.  If the first instruction of a block is a jump to the block,
`for (;;);`, the jump changes the original during the walk: a heap may be skipped
that was not processed, or `done_.at()` is out of range.  Needs several heaps in
front of the loop and two of them joinable.

Other disagreements between the code and what its comments, assertions or docs
say were met while modelling.  The passing runs have instances that stay clear of
them, or do not check the property; each shows up in the module's specification when the constant given here
takes the place of the usual one, with the property as an invariant (or, where
it is temporal, as a property):

| Where | What | Constant | Property |
|---|---|---|---|
| `sl/symstate.cc:467` | `rotate(itIdx, itTop, end)` moves the *top* element to the place of the block; a rescheduled block moves up by one and not "to front of queue" (`sl/config.h:144`). Only the order is affected. | four blocks, kind 2 | `RescheduledIsNext` |
| `sl/symstate.cc:616` | The bypass of the isomorphism check counts inbound edges; entering a function is none (`cl/cl_storage.cc:638`). A loop at the entry inserts the same heaps for ever. | `EntryLoopPrograms` | `LoopEntryIsChecked` |
| `sl/symcall.cc:815` | A refused recursive call has been pushed on the backtrace and is not popped. | `OneRecursive` | `BacktraceIsTrue` |
| `sl/symcall.cc:98` | `updateCacheEntry()` takes the first isomorphic key for that of the context. After a call cut off by `SE_MAX_CALL_DEPTH` two contexts of a function may have the same entry and different imports to make; the key of the wrong one is rewritten. | `CutOffCall`, five functions, `MissThr` = 3 | `KeysAreEntries` |
| `sl/symcall.cc:488` | "call cache completely disabled (saves a lot of memory)" (`sl/config.h:210`), but contexts are neither kept nor deleted. | `DisabledCache` | `DisabledKeepsNothing` |
| `sl/symexec.cc:1336` | A signal that ends the analysis by an exception leaves the handlers installed. | as in the run | `HandlersRestored` |
| `sl/sigcatch.cc:106` | `caught()` returns the lowest signal that is flagged, one per poll; a SIGUSR1 that comes again before every poll puts off a SIGTERM, which is to be processed "eventually" (`sl/symexec.cc:52`), for ever. | as in the run | `RequestIsServed` |
| `sl/sigcatch.cc:89` | A signal after the last poll is dropped by `cleanup()`; it is to be processed "eventually" (`sl/symexec.cc:52`). | as in the run | `EventuallyProcessed` |
| `sl/intrange.cc:225` | A negative factor swaps the ends; "we do not allow empty ranges" (`sl/intrange.cc:58`). | `NegOperand` | `NoEmptyRange` |
| `sl/intrange.cc:367` | Masks that clear high bits are taken for masks that clear low bits. | `MaskOperand` | `CoversValue` |
| `sl/symheap.cc:2363` | Trimming gives all dependent values the offset of the trimmed one. | `ShiftOperand`, two variables | `ChkValueDeps` |
| `sl/symproc.cc:1966` | A comparison may move the end of an aligned range outwards. | `MulOperand` | `TrimNeverEnlarges` |
| `sl/symproc.cc:768` | Conversion of a negative range to an unsigned type may leave it negative. | larger `Converts` | `NegativeIsMovedUp` |
| `sl/symheap.cc:1170` | The value of a pointer is kept for an integer of its size at *another* offset. | `MisalignedFields` | `MemSound` |
| `sl/symheap.cc:1502` | A copy that cuts a uniform block at one side gets the wrong size. | `PartCopies` | `MemSound` |
| `sl/symcut.cc:148` | A dead instance of a variable, kept by a dangling pointer, is taken for the live one. | `DeadObjects`, `DeadAddrs` | `SplitPartitions` |
| `fwnull/cl_fwnull.cc:523` | A successor is scheduled only if something was merged into it; behind an entry block that says nothing, no block is. | `EmptyEntry` | `ReportOverFixedPoint` |
| `fwnull/cl_fwnull.cc:206` | Where a path behind the test of `p` meets one that never tested it, `mergeValues()` takes over the state of the former: `VS_NULL_DEDUCED`, "value is guaranteed to be NULL" (`fwnull/cl_fwnull.cc:45`), although `p` may be anything on the other path, and a dereference is reported as an error. Only a path that has assigned the pointer is never forgotten (`AssignedIsGuaranteed`). | `SkippedTest` | `DeducedIsGuaranteed` |
| `fwnull/cl_fwnull.cc:281` | `p = q` merges the state of `q` into that of `p`. | `Copies`, `TwoPtrs` | `ReportHasPath` |
| `cl/killer.cc:486` | The walk over two sorted lists ends with the shorter one. | `OneSided` | `BranchKillsDead` |
| `cl/llvm/clplug.cc:1762` | Phi nodes become assignments one by one; two that swap their values do not. | `SwapSources` | `CfgFollowsSource` |

## What is not modelled

- The inside of heap graphs as far as join, abstraction and the semantics of
  single instructions work on it.  `SymJoin`, and `Post` and `Abstract` of
  `SymExecEngine`, state what is relied on.  Of the symbolic heap, `RegionMem`
  and `RangeVals` model memory and integral values; strings, list segments,
  the life cycle of objects and Neq predicates (except in `SymCut`) are left out.
- The trace graph, plotting, statistics: they do not influence what is computed.
- The experimental join-based lookup of the call cache, and container
  detection, an optional pass that is off by default.
- The parser of options.
- In the adapters, the filters and the builder: operands, types, variables and
  initializers, which is most of their code and a translation of data
  structures without control; the checker of operands; the callbacks for switch
  statements in the builder, which are unfolded before or never sent; the width
  of case values (`for (int i = lo; i <= hi; ++i)` at `cl/clf_unswitch.cc:89`
  overflows for a range that ends at `INT_MAX`).
- The points-to graph, from which the killer takes its aliases.
- Forester and VRA, which share only the Code Listener with Predator.

Most lines of the repository that are not covered belong to a vendored unit-test
framework and unit tests (`vra/tests-unit`), to Forester and VRA, to the algorithms on
heap graphs, and to the translation of operands.

## Plan

1. Trace graph: parents and children through `replaceNode()` and the resolution
   of identity maps.
2. The points-to graph, composed with `VarKiller`; the ranges of VRA.
3. The life cycle of objects in the symbolic heap, Neq predicates and values with
   offsets, as a further part of `RegionMem`.

Of the proofs, `SplitPartitions` of `SymCut` and `AssignedIsGuaranteed` of `FwNull` are the
next ones: both are invariants of a work list, like those of the killer.
