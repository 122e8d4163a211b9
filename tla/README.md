# A formal model of deko-shader-compiler

deko-shader-compiler turns WGSL into DKSH packages for the Tegra X1 (NVIDIA
Maxwell, SM50). This directory holds TLA+ models of its parts, TLC
configurations that check them on small instances, and theorems that TLAPS
proves for every instance. Paths below are relative to the repository.

```
tlc -config MCParCopy.cfg MCParCopy.tla       # check one run
tlapm ParCopyProofs.tla                       # check one proof module
```

`PROJECT.json` lists the runs, the lines each definition models (`map`), the
mutants (a plausible bug for every property, which the property's run must
find), the hazards, the findings and the theorems.

## 1. Inventory: the parts of the system

A compilation is a pipeline; the only part with concurrency is the cache in
front of it.

    callers (threads, processes)
       |  CompileOptions, source, entry point
    CompilerCache -------- persistent directory (shared between processes)
       |  on a miss
    Compiler::compile_wgsl (lib.rs): naga parse + validate, resolve entry point
       |  naga::Module
    lower.rs: structured control flow -> NAK IR (blocks, SSA, predicates)
       |  ir::Shader
    compile_ir (deko-nak/compiler.rs): optimise, legalise, to CSSA, spill,
       |  allocate registers, lower copies, schedule, insert dependencies
    SM50 encoder, program header
       |  code
    deko-dksh: container

| Component | State | Operations | What is hard | What makes it correct |
|---|---|---|---|---|
| `cache.rs` CompilerCache | LRU map, queue and byte counter behind a mutex; files of a directory; a process-wide sequence number | two compile requests, lookups, insertion, eviction, publishing a file | threads and processes race between system calls; any call fails; processes die; directory already damaged | answers equal what compiling would give; limits and accounting; no torn or leaked file; every request ends |
| `lower.rs` predication | execution predicate, locals, early returns, switch breaks, pointer arguments | one per Naga statement | a merge must undo exactly what an arm did; causes for a lane to be inactive accumulate and end at different constructs | each lane sees what it would have seen alone |
| `lower.rs` loops | loop contexts, phis, break/continue edges, exit scratch | `lower_loop`, conditional break/continue | values that leave a loop along several edges in several iterations | the code stores what the program means, its edges are declared, it ends |
| `lib.rs` Compiler | none | parse, validate, lower, package | - | errors at the first failing stage |
| `deko-dksh` | none | encode, parse | size and alignment limits | parse inverts encode, rejects the rest |
| `cfg.rs` | graph, dominator tree, loop headers | built once | irreducible shapes | dominance and loops are what their definitions say |
| `dataflow.rs`, `liveness.rs` | bit sets and next uses per block, work list | worklist until nothing changes | order of blocks, loops | live is what a path to a use says; it ends |
| `opt_*.rs`, `legalize.rs` | per pass | rewriting passes | liveness through phis (dce), order of side effects (scheduler) | the program means the same |
| `opt_instr_sched_prepass.rs` | order so far, live values, counts of what each instruction would change | choose an instruction, try the next limit | the counts are kept incrementally; limits grow while blocks are scheduled | effects in order, operands made before their uses, no more registers than the limit |
| `union_find.rs`, `to_cssa.rs` | parents and sizes; phi webs | find, union, coalesce | path halving, interference | classes are those of the equivalence generated |
| `spill_values.rs` | resident and spilled values at both ends of every block | spill, fill, connect edges | loops, joins, edges of predicated branches | no more values live than there are registers; values in registers where used |
| `repair_ssa.rs` | versions per block, new phis | rename, phis at joins and loop headers, remove redundant ones | loops: a phi is needed before its sources are known | one definition, which reaches every use |
| `assign_regs.rs` | register file, pins | vector allocation, parallel copies | moving what is in the way | no two live values share a register |
| `lower_par_copies.rs`, `lower_copy_swap.rs` | copy graph, read counts, stack of ready nodes | ready loop, cycle loop | cycles, fan-out, files without direct copies | the sequence equals the parallel copy |
| `calc_instr_deps.rs` | dependence graph, six barriers, texture queue depth, delay counters | assign barriers, insert texture barriers, delays | barriers run out; control-flow joins | no register is read before it is written |
| `opt_crs.rs`, `sm50.rs` | control stack | remove pushes, encode | hardware stack | pushes and pops match |

Everything under `crates/deko-nak/upstream`, the macros, the generic containers,
the fuzz targets and the tools are vendored, generated or glue code.

Hazards are in `PROJECT.json`, each at the line where it bites, with the
properties that would catch it.

## 2. Plan

Order: most important behaviour first; a module that others rest on before
those. Done: 1 to 10.

1. **Cache**: `CompileService` (abstract: what callers are promised),
   `CompilerCache` (implements it), and `CompilerCacheProofs` (types, temporary names,
   the refinement, the memory tier, the files). Every safety property is proved.
2. **Parallel copies**: `ParCopy`, `ParCopyProofs`.
3. **Predication**: `Invocations` (abstract: what a structured program means per
   lane), `Predication` (composes it with the lowerer's state), `PredicationProofs`,
   `PredicationValues`. Every property is proved.
4. **Structured loops**: `LoopMeaning` (what a program means), `LoopLowering`
   (a recursive lowering to blocks), `StructuredLoops` (executes the blocks). Only
   for TLC.
5. **Scheduling, scoreboard, delays**: `PostSchedule`, `Scoreboard`, `Delays`,
   one after the other as in the pipeline, against an asynchronous machine;
   `DelaysProofs` (the data flow of `calc_delays`), `ScoreboardProofs` (the rest).
   Every property is proved.
6. **Control flow, data flow**: `ControlFlow` (dominators, loop headers),
   `Dataflow` (the work list, and what liveness asks of it), `Liveness` (what is read of
   the solution).
7. **SSA**: `CopyProp`, `Legalize`, `DeadCode` with `NeededValues` (what it ought to keep),
   `ConventionalSsa`, `UnionFind`. `AnalysisProofs` proves what `Dataflow` and `DeadCode`
   find; these two have no recursive operators.
8. **Registers**: `RegisterAllocator` (one file), `AssignRegs` (one
   instruction), `RegisterAllocation` (composes 6 to 9 in the order of the pipeline
   and runs the code that comes out).
9. **Spilling**: `NextUse`, `Spilling`, `RepairSsa`, which `RegisterAllocation`
   puts between SSA and registers.
10. **Scheduling before allocation**: `PrepassSchedule`, which `RegisterAllocation`
   puts between dead code elimination and SSA for graphics shaders.
11. Left: the binding layout, DKSH, the peephole passes besides copy propagation.

## 3. The cache

`CompilerCache.tla` models `cache.rs`. Variables: per process the map
(`entries`), the LRU queue (`order`), the byte count and the mutex; the
directory (`entry` for final files, `scratch` for temporary ones); per process
the process id and `TEMP_FILE_SEQUENCE`; per thread a program counter, the
request's locals and the last reply; a count of what has gone wrong.

One action is one critical section, one file system call, or one call into the
compiler, so threads interleave exactly where the code lets them: `MemoryGet`
(lock, look up, touch), `Metadata`/`Read`/`Discard` (the three calls of
`persistent_get`), `ResolveEntryPoint`, `Compile`, `Check`/`Create`/`Write`/
`Rename`/`Cleanup` (`persistent_insert`), `Insert`/`Evict`/`Unlock`
(`memory_insert`; the lock is held across several steps so that the eviction
loop can be watched). `IoFailure`, `UnlinkFailure`, `Damage` and `Crash` are
the environment; a configuration switches each on and bounds their number.
File contents are abstract: a whole envelope for a key, a prefix of one, bytes
that fail a check, an over-long file.

`CompileService.tla` is the abstract specification: a request is made and is
later answered with what compiling it from scratch gives. `ServiceSpec` is the
refinement, with the artifact's key as the answer.

Assumptions: processes that live at the same time and share a directory have
different process ids (no shared directory across pid namespaces); SHA-256 has no
collisions and nobody forges envelopes with a valid checksum for wrong contents;
the compiler is deterministic; a panic while the mutex is held (poisoning) does
not happen.

| Run | What it shows | Bounds |
|---|---|---|
| `cache_memory` | accounting exact, limits, shared allocation, every request ends | 2 threads, 3 artifacts of sizes 1, 1, 2, room for 2 entries and 2 bytes, 3 requests each: an insertion can evict none, one or two entries |
| `cache_directory` | temporary names exclusive, files never torn or removed, no leak | 2 processes, 3 process ids, 2 requests each, 3 mishaps: enough for a crash, a reuse of the id and a failing call; the memory tier is off (`MaxEntries = 0`), so that every request goes to the directory |
| `cache_service` | refinement of the abstract service; aliases are never stored; what is found damaged is regenerated | 2 threads of 2 processes, every initial directory, every hazard switched on, one mishap: a remover and a writer race |

Liveness (`Answered`) uses weak fairness of each thread's `Advance`: the
operating system runs every runnable thread, and as a holder of the mutex
keeps it for finitely many steps, a `Mutex` acquired infinitely often is granted
eventually. Deadlock is not an error in these runs: with all requests made, all
threads rest.

Proved (`CompilerCacheProofs`), for any number of threads, processes, keys and
mishaps: `TypeCorrect`, and `ScratchIsExclusive`. The second is not inductive as
it stands: two threads of one process differ by the sequence number, two
processes by their ids, but a name left by a dead process with the same id must
be known to make `create_new` fail. The strengthening says that the sequence
numbers held by a process's writers are below its counter and pairwise
different, that ids of live processes differ, and what the state of a thread
says about its file.

It goes on to prove `CanonicalIsRetained` and, from it,
`CacheImplementsService`: `Spec => ServiceSpec`, with every hazard of the
environment. An answer is taken from one of three places (the memory tier, a file
that passed the checks, the compiler), so the inductive invariant `AnswerInv`
says of each that it holds the artifact of its own key (`FilesOK`,
`OnlyCanonicalRetained`), and of a thread on its way there that the key and the
resolved entry point it carries are those of its request (`KeyOK`, `ResolvedOK`).

Its second part proves the three properties of the memory tier, for any sizes,
limits and threads: `MemoryIsConsistent`, `LimitsAreKept`, `InsertedStays`. All three
speak of what is seen while the lock is free, but the eviction loop passes through
states over the limits, so the inductive invariant (`MemoryInv`) has for every process,
locked or not, that the byte count is the sum of the sizes of what is retained and that
the LRU queue is injective and names exactly that (`Accounted`); for a lock that is
free, that both limits hold; and for the thread that is evicting, that it holds the lock
and that its key is the newest of the queue and fits by itself (`Inserted`). From this
the loop cannot run dry: if only the new entry is left, the limits are met, so what
is removed is never it. The sums are folds over finite sets; their equations
(`FiniteSums.tla`: `SumUnfolds`, `SumWithOneMore`, `SumOfDisjoint`, `SumIsZero`) are
derived from the fixpoint the fold is defined as.

Its last part proves what concerns the directory.

- `NoEntryIsTorn` and `EntriesStay`, under the assumption `OwnDirectory`: the directory
  was empty at the start and nobody else damages it. Without it a final file may be
  anything, and the code deletes it. The proof is that the only writer of a final name
  is `rename`, and what is renamed is complete (`ScratchIsExclusive`).
- `FilesAreRegenerated`, whatever the directory holds at the start. The inductive
  invariant (`RegenerationInv`) is that every temporary name is fresh (so `create_new`
  succeeds), that no request is past its miss while a file that does not decode is in
  place, and that each delivered artifact is filed or owed by another request.
  It holds until the first mishap, after which the property claims nothing. The proof
  showed that the property needs the premise that there is a directory at all.
- `LeftoversArePaidFor`, under `OneThreadEach`: at most one thread in each process.
  With more, one crash leaves the temporary files of all of them, and the count the
  property makes is no longer the right one.

Only model-checked: liveness (`Answered`).

## 4. Parallel copies

`ParCopy.tla` models `lower_par_copy` one loop iteration per action (`Scan`,
`PopReady`, `Skip`, `Swap`, `Save`/`Rotate`/`Restore`) together with the machine
that executes what is emitted. A register's contents are the set of initial words
whose exclusive or it is, so the three-XOR swap is computed and the results hold
for all contents. `emitted` and `exchanged` are the copies and the swaps that the
last step emitted: `CopiesLowerable` asks of every copy that `lower_copy` has an
instruction for its two files (`Lowerable`), and of every swap what `lower_swap`
asserts (`Exchangeable`: one file, not memory). Either half has its own mutant: the
temporary of a copy to memory left out, and a cycle of memory slots swapped.

Assumptions: parallel copies are those `assign_regs` and `spill_values` build
(destinations distinct; a GPR gets a GPR or a constant, and so on); `tmp` is
present, as `assign_regs` always reserves it. The code makes a node per
occurrence of a constant; one node does here, since nothing is copied to it.

The run `par_copy` takes every parallel copy of four GPRs and a constant and of
three predicates or memory slots and a constant: cycles of length 2, 3 and 4, two
cycles of length two, chains into cycles are excluded by the single reader each
node of a cycle has, and fan-out of every degree. Fairness: the pass is a
sequential loop that runs until it returns, hence `WF_vars(Next)`. Deadlock is
switched off because `done` is the end.

Proved (`ParCopyProofs`), for any number of registers: `CopyTypes`,
`ReadsAreExact` (the counter is the number of edges, even through the rewriting
of edges by swaps), `OnlyCyclesAreLeft` (the claim of the comment in the code: by
the pigeonhole principle, lemma `Permutes`: if every waiting node is read by at
least one waiting node, it is by exactly one), and `CopiesDelivered`. The
inductive invariant says of every node which value it still holds (`Held`), which
cycle is being rotated (`Broken`), and that a node that has its value is read by
nobody (`Unread`). `CopiesAreLowerable` adds that the nodes of an edge are in files
that can be copied, also after swaps have rewritten the edge, and those of a cycle in
one file (`FilesOK`): every copy emitted has an instruction and every swap is of two
registers `lower_swap` accepts. Only model-checked: termination.

## 5. Predication

`Invocations.tla` gives a structured program its meaning, one lane at a time: a
lane runs or waits for the end of a construct. `Predication.tla` adds the state
of `FunctionLowerer` and, for every statement, what `execute_statements` does
with it. A program is a walk through the actions, so every program within the
bounds is explored; an SSA value stands for its contents in each lane, so
straight-line code is executed as it is emitted. The properties compare the two:
the execution predicate is the set of lanes that run (`MaskIsLive`), a running
lane finds in its locals and behind its pointer what it has put there itself
(`LocalsAreOwn`), stores happen in the right lanes (`EffectsAreOwn`), and at the end of a function every lane gets its own return
value and keeps its own writes (`ValueIsOwn`, `WritesArePreserved`).

Abstracted: values are scalars; there is one pointer parameter; a call's result
is stored in a local by the call. Naga admits no statement after a `break` or
`return` in the same block. Conditions are arbitrary sets of lanes, since the
lowerer never looks at them.

| Run | Programs | Shows |
|---|---|---|
| `predication` | 7 statements, 4 constructs deep, with a switch whose default comes first and shares its case with a label | mask, locals, pointer, effects, return values, pointer writes |
| `pointer_write_after_return` | the excluded class below | finding 1 |

Two lanes are enough to tell "this lane" from "another lane", which is all the
properties distinguish; their symmetry is used, and is sound as operands do not
depend on the lane and no liveness is checked. Ends of constructs do not count
against the bound, so every program that is opened is closed. Deadlock is off: a
walk ends with its program, or where it would leave the class of programs.

Proved (`PredicationProofs`), for any number of lanes, any program and any depth:
`ShapeIsKept` (types, one frame of the lowerer for each open construct) and
`MaskFollowsLanes`: `Spec => []MaskIsLive`, whatever `StoreAfterReturn` and
`ReturnAfterBreak` are. The assumption used about programs is `PredicationAssumption`:
the labels of a switch are there once, as Naga's validator demands.
`MaskIsLive` speaks of the mask of the moment, but a mask is restored from frames
and unions when constructs end, so the inductive invariant `Inductive` says of
every open construct `k`

- who waits for its end (`Waiting`): behind `if` the lanes of the other arm, behind
  `else` those that came out of the accepted arm, at a switch those that are outside of
  its open case or are covered by its break edges, and never both;
- that the cases to come find all lanes that select them, though the default is
  taken from what earlier cases have left (`CasesFind`);
- that when the counts of early returns and of breaks are those of the start of an
  arm, the arm has all of its lanes (`EdgesTell`). This is what the code infers
  `partial` from; a lane may have left by a `return` for which no early return has
  been pushed yet (`Pending`), which is why arms with a value count for nothing.

How many early returns a function has when `k` is the innermost construct, and which
list of breaks belongs to it, is no part of the state: the two are functions
(`returns`, `slot`) whose existence is part of the invariant. Closing a conditional
of which one arm has returned adds an early return to all constructs of the function at
once (`Counted`).

`PredicationValues` proves the properties about values: `LanesFindTheirOwn`
(`LocalsAreOwn`), `EffectsHappenInPlace` (`EffectsAreOwn`), `CallersGetTheirValue`
(`ValueIsOwn`) and `CallersGetTheirWrites` (`WritesArePreserved`), for any number of
lanes, any program and any depth. They assume `~StoreAfterReturn` and
`~ReturnAfterBreak`, as the passing run does: without either the code is wrong, see the
findings. A wrong value in what the lowerer keeps shows only when a construct ends, so
the inductive invariant `VInv` adds `ValuesOk`, which follows every lane, running or not,
in the function that runs and in each that waits for a call (`ViewOk`):

- a lane that waits finds its own values where the merge will look for them (`Homes`):
  behind `if` in what the frame has kept of the state before it, behind `else` in the
  accepted arm, at a switch in the first break edge that covers it, or else in what the
  open case will be merged with (`AtSwitch`);
- a lane that has returned has its value in the first early return that covers it, or in
  the value the block ends with (`Answers`). When it left in an accepted arm, it is that
  arm's value which counts, until both are merged (`Reaches`, `LeftArm`). Nobody else is
  covered by an early return;
- when no break has been added in an arm, its lanes are all there or have returned, and
  arms nest (`ArmShape`). This is why the early return that a conditional pushes, under
  the predicate of the *whole* arm, covers no lane that goes on; it is the step that
  fails for a program of `ReturnAfterBreak`;
- a function that passes on its own pointer has had no early return (`PassedOn`), so
  what the callee writes is not lost in lanes that have left the caller. This is where
  `~StoreAfterReturn` is used, with writes of the function itself.

TLC checked `ValuesOk` on the instance of run `predication` before it was proved.

### Findings

Two classes of programs are kept out of the passing run, by `StoreAfterReturn`
and `ReturnAfterBreak`.

1. *Pointer writes after an early return.* `if (lane==0) { *p = 11; return; }
   *p = 22;` in a helper: `store_argument_pointer` (lower.rs:5501) replaces the
   value in every lane, and `conditional` remembers only the returned value of the
   lanes that have left. Lane 0 reads 22. README.md:30 promises otherwise.

The other class is a break before a return in one switch case, `case 1 { if
(lane==0) { break; } return 7; }`: `conditional` (lower.rs:7955) records the return
under the predicate of the whole arm, so lane 0, which goes on behind the switch,
gets 7 from `finalize_return`. With `ReturnAfterBreak = TRUE` TLC finds
`ValueIsOwn` violated. No document speaks of this case, so it is no finding.

## 6. Structured loops

Loops are the one construct that is not if-converted: `lower_loop` builds
blocks, and the ways out of the middle of a loop become branches.
`LoopLowering.tla` is that lowering as a recursive function from a structured
program to blocks and edges. The lowerer's fields are the fields of a record and
each function of `lower.rs` is one operator: the analysis of the statements
(`Prefix`, `RequiresScratch`, `Written`, `Carried`), the two branches
(`ConditionalBreak`, `ConditionalContinue`), the three ways a local gets its value
after a loop (`ExitLocals`), returns from a loop (`MergeLoopReturns`), conditionals
with loop control in their arms (`Conditional`, `LowerIf`) and inlining
(`LowerCall`). `StructuredLoops.tla` executes the result, one instruction per
step, for one invocation; `LoopMeaning.tla` says recursively what the program
means. A register or a scratch slot that is read before it is written holds an
arbitrary value (`Unwritten`), so a value that does not reach its use shows.

Abstracted: values are single words that wrap at `Modulus`; a phi and its
destination are one register, written by the sources' instruction in the
predecessor. `OpBrk` and `OpCont` go where they say. Programs that do not end
within `Fuel` iterations are left out; those here need at most 8.

| Run | Programs | Shows |
|---|---|---|
| `structured_loops` | some 900, in the class below | `StoresAreMeant`, `EdgesAreDeclared`, `Ends` |
| `void_return_in_loop` | that of a test | finding 2 |

The programs of the first run are all combinations of: breaks before and after
writes, in either arm, in lexical blocks; continues with and without writes;
bodies that end in `break` or `continue`; continuing blocks and `break_if`; a loop
inside a loop; a helper inlined that returns from its loop; a loop inside a
conditional. Two locals are what it takes to confuse one with the other, three
iterations what it takes to see the first, a middle and the last. `Ends` assumes
that the machine goes on executing (`WF_vars(Next)`); deadlock is off because
programs end.

### Findings

The class is narrow, and what is outside it is compiled without an error. In it:
the locals a loop reads before it writes them are those it writes (`Merged`);
breaks without exit scratch come before the writes of the iteration; control
statements are at most one conditional deep; a loop inside a conditional ends
whatever the condition; returns from loops carry a value.

2. *A return without a value is forgotten by the next iteration*
   (`void_return_in_loop`). It clears only the execution predicate, which is
   computed anew; README.md:25 and the test at lib.rs:2363 say otherwise, and the
   program is that test's.

The other exclusions are necessary as well. `MCStructuredLoops` has a set of
programs for each; with `Programs` set to it, TLC finds `StoresAreMeant` (`Ends` for
the last) violated. README.md:15-16 promises a typed error for what is not
supported; none of these gives one.

- `WrittenBeforeBreak`: `loop { v += 1; if v == 2 { break; } }` leaves `v = 1`, the
  value at the loop header (lower.rs:7095; README.md:28-29 mentions the path).
- `NestedControl`: a break two conditionals deep is predicated by the inner
  condition alone (lower.rs:6831).
- `WriteOnly`: `for (...) { last = i; }`: `merge_continue_locals` (lower.rs:7286)
  resets a local nobody reads to its value before the loop.
- `ReadOnly`: a local that a loop with exit scratch only reads is afterwards read
  from the phi of the continuing block, which may never have been reached.
- `DivergentLoops`: `if stop { loop { if stop { break; } } }` never ends for the
  lanes that do not take the branch: all lanes run the loop.

## 7. Scheduling, scoreboard and delays

The last passes before encoding work on registers. `PostSchedule.tla` is
`opt_instr_sched_postpass.rs`: the dependence graph of a block (`DepGraph`: for
each register the first write after an instruction and the reads up to it; guards;
memory operations and branches in order), the distances to the end, and list
scheduling from the end (`Start`, `IsNext`, `Place`). `Scoreboard.tla` goes on with
`assign_barriers` (`calc_instr_deps.rs`) and the machine it is written for.
The program is chosen an instruction at a time (`Write`) and scheduled block by
block, an instruction a step (`StartBlock`, `ScheduleNext`, `FinishBlock`). `Analyse` is the pass's first walk: what each register
is used by (`uses`, the RegTracker), the dependencies not waited for yet
(`active`) and the first instruction that waits for each (`firstWait`, DepGraph).
`Assign` is the second walk: it frees the barriers an instruction waits for and
allocates those of an operation somebody waits for later, taking over the oldest
when none is free (`barDep`, BarAlloc). `Delays.tla` is `calc_delays`: a backward
data flow of cycles, a step of the solver at a time: `StartDelays` sets it up,
`VisitBlock` takes the next block (of the first round, then of the work list),
`VisitInstr` is `process_instr`, `FinishVisit` ages the uses and compares them with
those of the last visit, `TellPred` merges them into a predecessor and queues it, and
`SetDelays` takes the delays once no block is left.

The machine (external: no file of the repository) issues in order, an
instruction whose wait mask names a barrier with an outstanding signal not at
all. An operation of variable latency reads its sources and writes its
destinations in steps of their own, in any order among operations, and signals
its read barrier after the first, its write barrier after the second. An
instruction whose predicate is false only waits; a branch may lead to any block.
Registers hold versions, and `order` is the file as program order has it; that the
two agree is `OperandsInPlace` (what is read) and `WritesInOrder` (what is left).
`DelaysSuffice` is about the static part: on every path between two instructions
enough cycles pass for a fixed latency, for a source to be read, and for a
barrier to be set before it is waited for. Paths are those within a block, over the
ends of blocks, and by way of one branch. Two branches on the way need no statement:
each takes 13 cycles (`exec_latency`, sm50.rs:96), and no latency is above 14.

| Run | What it shows | Bounds |
|---|---|---|
| `scoreboard` | scheduling swaps only what is independent; delays suffice; no operand is read too early or overwritten, no late write lands, a barrier means one thing | every program of 5 instructions out of 7, in one block or with a label in the middle, 6 issued; two registers and a predicate, two barriers |
| `guard_overwritten` | finding 3 | conditional stores; six barriers, as the hardware has |

Two barriers are fewer than the dependencies of two loads, so four instructions
can have a barrier taken over; the fifth may be a branch back to any block
afterwards, and six issues are a loop of three instructions gone through twice.
Assumed: an operation reads and writes all its registers at once, and
instructions of fixed latency take effect at once. The nops that carry delays too
long for one instruction are left out: a delay is any number. The texture queue
(`insert_texture_barriers`) runs on Kepler only, and `assign_deps_serial` is a
debugging mode. Deadlock is off because programs end.

Proved (`ScoreboardProofs`, `DelaysProofs`), for any instructions, registers, layouts and length of the
program, two barriers or more, and any path and order of completion:

- `ScheduleOrder` (`ScheduleKeepsOrder`). Edges join only neighbours: a write and the
  next write of the register, a read and the next write after it. That what is further
  apart stays in order too is `ChainKeepsOrder`, used for the writes of a register, the
  memory operations and the branches. `OrderOk` says of the list scheduler that all uses
  of what has been placed are placed behind it, and that what waits is what may be
  placed; the last instruction not yet placed always may, so all of the block is placed
  when nothing waits (`FinishedOrder`).
- `OperandsAreInPlace`, `LateWritesInOrder` and `BarriersAreExclusive`. The properties speak
  of the machine and the reason lies in the two walks before it, so the inductive
  invariant `SInv` carries it over:
  - `AnalysisOk`: for an operation `i` and a later instruction `j` that needs or replaces
    what `i` writes, somebody between `i` and `j` waits for the write; likewise for a
    source that `j` overwrites, where waiting for the write will do (`InTime`). Nothing
    is outstanding behind a branch, which is why a walk that ignores jumps is enough;
  - `BarsOk`: the barrier an operation was given stands for its dependency or has been
    waited for since, by the first who needs to at the latest (`Stands`), and two
    operations with the same barrier have a wait between them;
  - `MachineOk`: an operation in flight is `Behind` the program counter, and nobody has
    waited since for a barrier it has yet to signal. Hence what can issue has no conflict
    with anything in flight (`SafeToIssue`), a write no conflict with a read still to
    come (`SafeToWrite`), and at a branch nothing is in flight but operations that have
    nothing left to do;
  - `Newest` and `SourcesKept` about the versions in the registers.

TLC checked the invariant on the instance of run `scoreboard` before it was proved. The bound
`MaxIssues` limits how long the machine runs in a run; the theorems hold for any value
of it.

- `DelaysAreEnough` (`DelaysSuffice`). The delays are read off a data flow that has been
  solved, and the property is about whole paths, so the argument has two halves.
  - *While it is solved.* `FlowInv` is what every step of the solver keeps. A block that
    has been visited and is not queued (`Calm`) is `Finished`: each of its instructions
    starts early enough for the rest of the block (`Spaced`) and for the uses known at its
    end (`Covers`), and what the block uses or lets through is known at its start, with no
    more cycles than there are (`Exposes`). And each predecessor has been `Told` what is
    known at the start of the block, unless it is about to be. A block that is changed
    under way is no longer calm, because it is queued; one whose start did not change has
    told its predecessors before. `InstrReached` is the step inside a block: adding an
    instruction in front keeps what was so for those behind it, and settles it for the new
    one. `AgeIs` is where a use that the block itself makes is counted from its own cycle,
    and where it matters that no latency is above `LatencyUpperBound`: what is dropped is
    too far away to be too near (`Known`).
  - *When it is solved* every block is calm, and facts travel over blocks: from the start
    of a block to the end of a predecessor (`KnownBefore`), through a block that does not
    write the register (`KnownThrough`), and so across any number of blocks
    (`KnownAcross`), by taking the last block at which it would fail. `UseIsKnown` brings a
    use to the start of every block before it, `FarEnough` compares it with an instruction
    in front, and `DirectPath`, `BranchPath` and `BarrierPath` are the three kinds of way
    (`SolvedIsEnough`). The delays of the instructions between two places add up to at
    least the difference of their cycles (`CostWithin`, by `SumOfDisjoint`).

  The theorem says nothing of whether the solver ends; where it does not, there are no
  delays.

### Findings

3. *The comparison of a later conditional is moved before the store an earlier one
   guards* (`guard_overwritten`). `generate_dep_graph` (opt_instr_sched_postpass.rs:99)
   has no edge from an instruction to the next write of its guard; the comment
   at opt_instr_sched_postpass.rs:38-39 says that predicates are represented among
   the uses, and README.md:22-23 that divergent branches predicate their side effects.
   The passing run's `Independent` therefore says nothing of guards that are
   overwritten, and the machine starts from the scheduled program. `calc_delays` has
   a comment that there is no write after a predicate read ("WaP does not exist"),
   which is about latency: the two are issued in order there.

## 8. From SSA to registers

`RegisterAllocation.tla` takes a function from the end of lowering to registers,
in the order of `compile_ir`, and then runs it. One action is one pass, or one
block or instruction of a pass whose state matters in between:

| Phase | Actions | Module | Code |
|---|---|---|---|
| graph | `Init` | `ControlFlow` | `cfg.rs`: reachable blocks, depth-first numbers, dominators, the dominance intervals, back edges and loop headers |
| propagate, propagate again | `PropagateCopies` | `CopyProp` | `opt_copy_prop.rs`, twice as in `compile_ir`; the `opt_dce` before `legalize` is left out, since the one after it removes the same |
| legalize | `LegalizeAll` | `Legalize` | `legalize.rs`: copies until no component appears in two places; equal vectors share them |
| dce | `Mark`, `RemoveDead` | `DeadCode` | `opt_dce.rs`: a block a step, sweep after sweep |
| prepass, schedule | `PrepareSchedule`, `ScheduleUnit`, `ApplySchedule` | `PrepassSchedule` | `opt_instr_sched_prepass.rs`, for graphics shaders only: the limits to try, a block or an attempt a step, the third pass |
| prepass, liveness, cssa | `Solve` | `Dataflow`, `Liveness` | `dataflow.rs` (backward), `SimpleLiveness`, `CalcMaxLive` |
| liveness | `ToCssa` | `ConventionalSsa` | `to_cssa.rs`: copies at phis, the coalesce graph |
| spill | `StartSpilling`, `SpillNext`, `ConnectSpills` | `NextUse`, `Spilling` | `spill_values.rs`, a block a step and then all edges; predicates to GPRs, then GPRs to memory |
| repair | `Repair` | `RepairSsa`, `UnionFind` | `repair_ssa.rs` |
| sweep | `Mark`, `RemoveDead` | `DeadCode` | `opt_dce.rs` once more; then liveness is solved again (`cssa`) |
| cssa | `StartAssignment` | - | the limit on registers (`assign_regs.rs:1449`) |
| webs | `ConnectWebs` | `UnionFind`, `ConventionalSsa` | `union_find.rs`, `PhiWebs` |
| first pass | `EnterBlock`, `AssignNext`, `LeaveBlock` | `RegisterAllocator`, `AssignRegs` | `RegAllocator`, `PinnedRegAllocator`, `AssignRegsBlock`, an instruction a step |
| second pass | `ConnectBlock` | `RegisterAllocation` | copies into the registers of the successors |
| run | `ExecuteCopy`, `Execute`, `Jump` | `RegisterAllocation` | external: the machine |

The machine's registers hold the *names* of the SSA values they are equal to: a
copy adds the name of its destination, a new value drops all others, entering a
block renames according to the phis. The spilled form of a value and its versions
go by the name of the value, and spills and fills are copies, so a place in memory
holds names too. `OperandsInPlace` says that every instruction
finds in the registers it reads the values it was written to read, on every path
(a predicated branch may go either way) and in every iteration. That is the
property everything before it is for; the others say of one pass what its comments
promise, against a definition that is not the algorithm: paths for dominance,
loops and liveness (`StructureIsReal`, `LivenessIsReal`), reachability
from effects for `OnlyDeadRemoved`, a closure for `WebsAreConnected`, all pairs
for `PhisAreConventional`, and for `SourcesKeepMeaning` the words that instructions
read, computed from all inputs before and after the pass. Of spilling, `SpillingFits` says that afterwards no
more values are live at once than the file has registers, by the liveness that
is solved anew and not by the sets the pass keeps; and `SsaIsRepaired` that every
value has one definition, which comes before its uses on every path, and that
whatever a phi makes comes in over every edge.

| Run | What it shows | Bounds |
|---|---|---|
| `register_allocation` | all properties, and that the passes end (`Analysed`) | all control-flow graphs of 2 to 4 blocks in block order; chains of two operations that copy propagation knows, in every combination of modifiers, with every kind of reader behind them (`Chains`); straight-line code with four operands of one or two components in all ways to overlap and die; diamonds of copies, constants and undefined values; functions that `LoopLowering` makes; functions that have to spill (`TightShaders`): lines, joins, loops with exchanged values, nested loops, more predicates than registers |
| | of graphics shaders | loads, stores and outputs under a guard; a second block that needs more registers than the first; of the functions above those that spill, and the same with room for all they need |
| `critical_edge` | finding 4 | helpers that return from a loop |

Copy propagation replaces an operand by what it is a copy of and merges the
modifiers of the two: `-(a + -0)` is read as `-a`. What it may do depends on the
types on both sides, since `FNeg` flips a bit and `INeg` is a subtraction, on
whether a carry is written, and on whether a predicate read where it is false is
meant. `SourcesKeepMeaning` evaluates every operand and every predicate before and
after for all values of the inputs; the carry of an addition is told apart by what
`OpIAdd2::fold` (ir.rs:3728) adds. Words have three bits, `SignBit` is 4 where the
code has 2^31: a sign, an addition that wraps around and saturating sums all occur.
On the legalize step the same property says that every instruction can be placed
and reads, through the copies that were inserted, what it did.

Graphs of four blocks have nested loops, loops with two back edges and
irreducible cycles. `MinGprs` is 16 in the code, for four vectors of four
components; the functions here have vectors of two at most, and 8 (3 without
vectors) leaves the allocator as little room in proportion. A function that spills
has 5 or 6 GPRs, two of which are kept for copies, and 1 or 2 predicates: enough
for one to stay and one to go at every point, and in a nested loop for a value
that is carried past the inner loop in memory, one filled inside it and one that
the loop exchanges with another. Functions with too many predicates go through
both rounds, predicates to GPRs and then GPRs to memory.
The scheduler counts occupancy in the registers of a multiprocessor. The functions
here have a tenth of the code's registers, so `TotalRegs`, `Granule` and
`TargetFree` are scaled (8192, 2 and 1 for 65536, 8 and 4): occupancy falls after
3, 5, 7, 9, 11 and so on, and functions go through several limits. With 20 GPRs the limit is
found by occupancy and latencies decide; with 5 to 7 it is what the machine
has and pressure decides; with 5 or 6 some orders spill as they are and the last
attempt is `Spill`. `NeverStuck` includes the scheduler's own assertions: the count
of live values at the start of a block is that of the liveness analysis
(opt_instr_sched_prepass.rs:633), each prediction comes true (line 586), each
instruction is placed once (line 608), and no more is live at once than the final
limit (line 976). That values are made before they are used is `OperandsInPlace`
and `SsaIsRepaired` of the same function further down; that loads, stores and outputs
keep their order, `OnlyDeadRemoved`.

`Analysed` assumes `WF_vars(Analyse)`: the compiler is a sequential program that
does not stop within a pass. Deadlock is checked: a run that ends stutters in
`Ended`.

Abstracted: the scheduler knows one latency of loads and one of everything else;
cycles are not counted, since `FutureReadyInstr::new` (opt_instr_sched_common.rs:423)
takes the `ready_cycle` of the graph's node, which stays 0, and not the one
`generate_order` keeps in `instr_info`, so that no instruction ever waits for a
cycle; carry registers are left out (see below); `NextUse` and `Repair` are computed in one step, the first as the least
fixed point, with the worklist of `dataflow.rs` left to `Solve`; among values used
at the same distance, which is spilled is left to an arbitrary fixed order; a fill
under a predicate, which is made only on critical edges, is executed in any case;
nothing is pinned, and there are no uniform registers; path halving in lookups that are not followed by a union; what `legalize_op` asks
of single opcodes;
in copy propagation the instructions `lower.rs` does not emit (halves and doubles,
`Prmt`, `Lop3`, `IAdd3`), constant buffers and flushed denormals; coalesced
copies stay in the code as copies of a register to itself; `SetWebs` picks any order
where the code iterates over a hash map. Copies of a constant on critical edges can
leave phis that are not conventional (`PhisAreConventional` fails for them); it
costs a copy, and their functions are not in the run.

### Proved

The properties of the runs compare what a pass finds with recursive definitions, about
which nothing can be proved here. `AnalysisProofs` therefore states for two of the
passes what is behind `LivenessIsReal` and `OnlyDeadRemoved` without them, for
functions of any size and blocks with any uses and definitions, and with the pass itself
(`SolveStep`, `MarkBlock`) as the only step of a specification of its own.

*`LivenessFindsPaths`*: when the worklist is empty, a value is in `live_in` (`live_out`)
of a block exactly if a path leads from the block's beginning (from one of its
successors) to a use of the value, with no definition on the way. Assumed are that
`succ` and `pred` are each other's converse, and that a block uses no value before it
defines it, as in SSA form. Three facts are inductive together (`SolverInv`): a block
that has been visited and does not wait for another visit has in `live_in` what
its uses and `live_out` ask for (`Settled`); what is in its `live_in` is in
`live_out` of all its predecessors (`PassedOn`); and nothing is in either set without a
path that justifies it (`OnlyLive`). `Settled` is where the order matters: a visit changes
`live_out` of the predecessors, and each of them must be queued, or have its turn in
the initial pass still to come, which is what `pred_idx >= block_idx` decides. At the end
the first two facts carry a value from the use at the end of a path back to its
beginning, the third is the other direction. That the worklist becomes empty is
`Analysed`, which only TLC checks.

*`DeadCodeMarksLeast`*: when marking is over, the marked values and phis are enough
for all instructions (`EnoughForAll`: an instruction with an effect or a marked result has
what it reads marked, a phi or copy what its wanted parts read), and are
contained in every pair of sets that is. The invariant (`MarkInv`): as long as a sweep
has noted nothing new, what is marked is enough for every block behind it; it
is carried through the instructions of a block from the last to the first
(`MarkedThrough`).

What a visit queues and what a block marks are folds over sequences; both
proofs derive the equation of the fold from the fixpoint it is defined as
(`QueueFoldUnfolds`, `MarkFoldUnfolds`), as `FiniteSums` does for sums.

### Findings

4. *Copies for one successor are made before a branch that may go to the other*
   (`critical_edge`). `second_pass` (assign_regs.rs:1406) puts them before the
   predicated branch; repair_ssa.rs:301 says "There are no critical edges", but
   `lower.rs` makes them wherever a loop is left under a predicate, and
   spill_values.rs:1028-1030 describes the hazard. A helper that returns from a
   loop has its exit phi moved into a register the next iteration reads. The
   passing run therefore has graphs with critical edges only with instructions that
   read single components, for which values stay where they are.

   `repair_ssa` relies on the same sentence: into a block with two successors it puts
   no sources for the phis it has made in either. With less room than they need
   (`Room(5, 7)`), the functions of `LoopLowering` that leave a loop under a predicate
   violate `SsaIsRepaired` in this way, and the compiler panics on the phi without
   sources. The functions of `TightShaders` have no such edge with a phi behind it.

### Disagreements without a run

Four more places where parts of the compiler disagree, found while modelling them.
None is in a run: the first needs the carry file, which the model leaves out; the
others are excluded by the choice of rooms and of inputs.

- compiler.rs:34-36 keeps compute shaders from the scheduler because it "may interleave
  independent 64-bit address additions, but GM20B has one carry register". Graphics
  shaders are scheduled, and `storage_address` (lower.rs:4722) makes the same pairs of
  `IAdd2` and `IAdd2X` for every storage access with a dynamic index. Nothing in
  `generate_dep_graph` keeps a pair together, `SPILL_FILES` has no entry for carries, so
  that under pressure an `IAdd2X` (no change in GPRs) ranks above an `IAdd2` (one more),
  and `assign_regs` spills no carries.
- The last assertion (line 976) compares with the limit in use. When the original order
  needs exactly `max_regs` GPRs, `get_schedule_types` offers `max_regs -
  SW_RESERVED_GPRS` as its last limit and no `Spill`, which takes more than `max_regs`
  (lines 787-795). If no order is found within the limit the original one stays, and the
  assertion (a debug assertion) fails. TLC shows this with 5 and 6 GPRs and the functions
  `Meetings`, `Exchanges` and `Fetches`; the run gives these 7 or 20.
- `prop_to_gpr_src` (opt_copy_prop.rs:291-298) takes a copy of zero for zero whatever
  its modifier: `-0.0 - 0.0`, stored directly, becomes +0, where `prop_to_scalar_src`
  would keep the sign. WGSL lets an implementation ignore the sign of zero. `Chains`
  start from inputs, not from a negated constant zero.
- `is_instr_live` (opt_dce.rs:61) counts an instruction whose predicate is known to be
  false as dead even when its result is used, so that a use can be left without a
  definition (`OnlyDeadRemoved` fails on such a function). No function of the run reads
  what only such an instruction makes.

## 9. Not modelled

See the components of `PROJECT.json` with status `not_modelled`.

- *The control stack* (`OpPBk`, `OpPCnt`, `opt_crs.rs`): `OpBrk` and `OpCont` are
  encoded without a target (sm50.rs:3064-3098); where they go is decided by the
  hardware's stack, whose rules are in no file of the repository. `StructuredLoops` and
  `RegisterAllocation` let them go to the block they name.
- *Expression lowering, encoding tables, program headers and the per-opcode part of
  legalisation* are tables without state, where TLA+ says no more than the code.
- *Resource layout, DKSH, command line, compiler API, containers*: sequential code
  without shared state and with unit tests of its own.

What TLC checks and no theorem states:

- `Answered` and `Analysed`: liveness under fairness is out of the prover's reach.
- `StoresAreMeant` (section 6): the lowering and the meaning of a program are recursive
  definitions over the program, and what they compute for every program is an induction
  over it.
- the properties of `RegisterAllocation` (section 8): dominance, liveness, next uses,
  dead code and phi webs are compared with recursive definitions, by operators that are
  recursive themselves. For liveness and dead code, section 8 says what is proved instead.

Induction is done over sets instead of operators: a least counterexample
exists (`LeastElement` of `FiniteSums` and `PredicationProofs`, `GreatestElement`),
and what holds of a finite set when it holds of its proper subsets holds of all of them
(`SubsetInduction`). What a recursive definition computes for every input is not proved.
