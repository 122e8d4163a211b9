----------------------------- MODULE Scoreboard -----------------------------
(***************************************************************************)
(* From allocated registers to the machine: the order of instructions      *)
(* (PostSchedule), assign_barriers (calc_instr_deps.rs) and the machine.   *)
(*                                                                         *)
(* The machine issues instructions in order but operations of variable     *)
(* latency (loads, textures) read their sources and write their            *)
(* destinations later, in any order.  The pass numbers a read and a write  *)
(* dependency per such operation, finds the first instruction that must    *)
(* wait for each, and gives those that are waited for one of a few         *)
(* hardware barriers.  A first walk over the program finds the waits       *)
(* (Analyse), a second one allocates barriers (Assign); then the program   *)
(* runs.  The program is written first (Write), and its blocks, which end  *)
(* with a branch, are scheduled one by one (ScheduleNext).                 *)
(*                                                                         *)
(* Instructions of fixed latency are covered by delays (calc_delays) and   *)
(* read and write at once.                                                 *)
(***************************************************************************)
EXTENDS Delays, FiniteSets

CONSTANTS
    NumBars,        \* hardware barriers: 6 in BarAlloc::new
    Instructions,   \* what programs are made of
    Layouts,        \* sets of places with a label: each starts a block
    MaxInstrs,      \* bound: length of the program
    MaxIssues       \* bound: instructions issued before the run is cut off

ASSUME BarsAssumption == NumBars \in Nat /\ NumBars >= 2
ASSUME InstructionsAssumption == Instructions \subseteq InstructionSet
ASSUME BoundsAssumption == MaxInstrs \in Nat /\ MaxIssues \in Nat

VARIABLES
    program,    \* the instructions of the function
    labels,     \* where it has labels
    scheduled,  \* how many of them are in the blocks scheduled so far
    list,       \* the state of generate_order while it schedules a block
    analysed,   \* how many have been analysed
    uses,       \* RegTracker<RegUse>: what the next access to a register waits for
    active,     \* DepGraph.active: signalled and not waited for yet
    firstWait,  \* DepNode.first_wait, 0 for None
    barDep,     \* BarAlloc.bar_dep, 0 for a free barrier
    sched,      \* InstrDeps of the instructions assigned so far
    flow,       \* the state of calc_delays while it runs
    delays,     \* InstrDeps.delay, once known
    pc,         \* the next instruction to issue
    issued,     \* how many have been issued: also the version of what they write
    flying,     \* operations issued and not finished
    contents,   \* the version each register holds
    order       \* the version program order gives each register

assignVars == <<program, labels, scheduled, list, analysed, uses, active, firstWait, barDep, sched>>
delayVars == <<flow, delays>>
passVars == <<assignVars, delayVars>>
machineVars == <<pc, issued, flying, contents, order>>
vars == <<passVars, machineVars>>

Bars == 1 .. NumBars
Deps == 1 .. 2 * MaxInstrs
None == 0

Rd(ip) == 2 * ip - 1
Wr(ip) == 2 * ip
IsWrite(dep) == dep % 2 = 0
ReadDep(wr) == wr - 1
-----------------------------------------------------------------------------
(* The function as the earlier passes leave it, and the loop over its      *)
(* blocks in opt_instr_sched_postpass: an instruction of the block is      *)
(* placed per step, until none is waiting.                                 *)

Write ==
    /\ Len(program) < MaxInstrs
    /\ \E instr \in Instructions : program' = Append(program, instr)
    /\ UNCHANGED <<labels, scheduled, list, analysed, uses, active, firstWait, barDep, sched, delayVars, machineVars>>

Block == SubSeq(program, scheduled + 1, BlockEnd(program, labels, scheduled + 1))

StartBlock ==
    /\ Len(program) = MaxInstrs
    /\ scheduled < MaxInstrs
    /\ list = << >>
    /\ list' = Start(Block)
    /\ UNCHANGED <<program, labels, scheduled, analysed, uses, active, firstWait, barDep, sched, delayVars, machineVars>>

ScheduleNext ==
    /\ list # << >>
    /\ list.waiting # {}
    /\ \E state \in {FastForward(Block, list)} :
       \E next \in {i \in state.waiting : IsNext(Block, state, i)} :
          list' = Place(Block, state, next)
    /\ UNCHANGED <<program, labels, scheduled, analysed, uses, active, firstWait, barDep, sched, delayVars, machineVars>>

FinishBlock ==
    /\ list # << >>
    /\ list.waiting = {}
    /\ scheduled' = BlockEnd(program, labels, scheduled + 1)
    /\ program' = SubSeq(program, 1, scheduled)
                    \o InOrder(Block, list.order)
                    \o SubSeq(program, scheduled' + 1, MaxInstrs)
    /\ list' = << >>
    /\ UNCHANGED <<labels, analysed, uses, active, firstWait, barDep, sched, delayVars, machineVars>>
-----------------------------------------------------------------------------
(* RegUse.  A use is a set of dependencies: empty, one write, or reads.    *)

Writes(use) == {dep \in use : IsWrite(dep)}

(* Mutant: an access that consumes a result forgets the readers as well.   *)
ClearWriteAll(use) == {}

ClearWrite(use) == use \ Writes(use)

Touched(instr) == instr.pred \union instr.srcs

(* Mutant: a destination is not checked for a result still to come.        *)
CandidatesNoOverwrite(instr) ==
    (UNION {Writes(uses[r]) : r \in Touched(instr)})
        \union (UNION {ClearWrite(uses[r]) : r \in instr.dsts})

(* What the instruction has to wait for: the results it consumes, and for  *)
(* what it overwrites also the operations that still read it.              *)
Candidates(instr) ==
    (UNION {Writes(uses[r]) : r \in Touched(instr)})
        \union (UNION {uses[r] : r \in instr.dsts})

ScoreboardUse(instr, ip, r) ==
    CASE r \in instr.dsts -> {Wr(ip)}
      [] r \in instr.srcs \ instr.dsts -> ClearWrite(uses[r]) \union {Rd(ip)}
      [] r \in instr.pred \ (instr.srcs \union instr.dsts) -> ClearWrite(uses[r])
      [] OTHER -> uses[r]

FixedUse(instr, r) ==
    CASE r \in instr.dsts -> {}
      [] r \in Touched(instr) \ instr.dsts -> ClearWrite(uses[r])
      [] OTHER -> uses[r]

Signals(instr, ip) ==
    (IF instr.srcs = {} THEN {} ELSE {Rd(ip)})
        \union (IF instr.dsts = {} THEN {} ELSE {Wr(ip)})

(* add_waits: a wait for a write is a wait for the read before it.         *)
Unread(signalled, waits) ==
    signalled \ {ReadDep(dep) : dep \in Writes(waits)}

Kept(signalled, waits) ==
    {dep \in waits : firstWait[dep] = None /\ dep \in Unread(signalled, waits)}

AddWaits(ip, signalled, waits) ==
    /\ firstWait' = [dep \in Deps |->
           IF dep \in Kept(signalled, waits) THEN ip ELSE firstWait[dep]]
    /\ active' = Unread(signalled, waits) \ Kept(signalled, waits)

AnalyseBranch(instr, ip) ==
    /\ IsBranch(instr)
    /\ AddWaits(ip, active, active)
    /\ UNCHANGED uses

AnalyseScoreboard(instr, ip) ==
    /\ OpNeedsScoreboard(instr)
    /\ uses' = [r \in Registers |-> ScoreboardUse(instr, ip, r)]
    /\ AddWaits(ip, active \union Signals(instr, ip), Candidates(instr))

AnalyseFixed(instr, ip) ==
    /\ ~IsBranch(instr) /\ ~OpNeedsScoreboard(instr)
    /\ uses' = [r \in Registers |-> FixedUse(instr, r)]
    /\ AddWaits(ip, active, Candidates(instr))

Analyse ==
    /\ scheduled = MaxInstrs
    /\ analysed < MaxInstrs
    /\ analysed' = analysed + 1
    /\ \/ AnalyseBranch(program[analysed'], analysed')
       \/ AnalyseScoreboard(program[analysed'], analysed')
       \/ AnalyseFixed(program[analysed'], analysed')
    /\ UNCHANGED <<program, labels, scheduled, list, barDep, sched, delayVars, machineVars>>
-----------------------------------------------------------------------------
(* BarAlloc and the second walk.                                           *)

InstrWaits(ip) == {dep \in Deps : firstWait[dep] = ip}

WaitedAfter(dep, ip) == firstWait[dep] > ip

Free(bars) == {bar \in Bars : bars[bar] = None}

(* try_find_free_bar, else free_some_bar: the oldest dependency.           *)
PickBar(bars) ==
    CHOOSE bar \in Bars :
        IF Free(bars) # {}
        THEN bar \in Free(bars) /\ \A other \in Free(bars) : bar <= other
        ELSE \A other \in Bars : bars[bar] <= bars[other]

(* Mutant: the barrier taken over is not waited for.                       *)
ReusedUnwaited(bars) == {}

Reused(bars) == IF Free(bars) = {} THEN {PickBar(bars)} ELSE {}

(* One barrier for dep, if anyone waits for dep after ip.                  *)
Allocate(bars, dep, ip) ==
    IF WaitedAfter(dep, ip)
    THEN [bar |-> PickBar(bars), wait |-> Reused(bars),
          bars |-> [bars EXCEPT ![PickBar(bars)] = dep]]
    ELSE [bar |-> None, wait |-> {}, bars |-> bars]

Freed(ip) == {bar \in Bars : barDep[bar] \in InstrWaits(ip)}

AfterWaits(ip) == [bar \in Bars |-> IF bar \in Freed(ip) THEN None ELSE barDep[bar]]

AssignScoreboard(ip) ==
    /\ OpNeedsScoreboard(program[ip])
    /\ \E rd \in {Allocate(AfterWaits(ip), Rd(ip), ip)} :
       \E wr \in {Allocate(rd.bars, Wr(ip), ip)} :
        /\ barDep' = wr.bars
        /\ sched' = Append(sched, [wait |-> Freed(ip) \union rd.wait \union wr.wait,
                                   rd |-> rd.bar, wr |-> wr.bar])

AssignOther(ip) ==
    /\ ~OpNeedsScoreboard(program[ip])
    /\ barDep' = AfterWaits(ip)
    /\ sched' = Append(sched, [wait |-> Freed(ip), rd |-> None, wr |-> None])

Assign ==
    /\ analysed = MaxInstrs
    /\ Len(sched) < MaxInstrs
    /\ \/ AssignScoreboard(Len(sched) + 1)
       \/ AssignOther(Len(sched) + 1)
    /\ UNCHANGED <<program, labels, scheduled, list, analysed, uses, active, firstWait, delayVars, machineVars>>
-----------------------------------------------------------------------------
(* calc_delays: the blocks are visited backwards, an instruction per step; *)
(* what a visit finds at the start of a block is joined into the uses at   *)
(* the end of its predecessors, one per step.                              *)

StartDelays ==
    /\ Len(sched) = MaxInstrs
    /\ flow = << >>
    /\ flow' = Unsolved(program, labels, Bars)
    /\ UNCHANGED <<assignVars, delays, machineVars>>

VisitBlock ==
    /\ flow # << >>
    /\ Idling(flow) /\ ~Solved(flow)
    /\ flow' = EnterBlock(program, labels, flow)
    /\ UNCHANGED <<assignVars, delays, machineVars>>

VisitInstr ==
    /\ flow # << >>
    /\ flow.block # 0 /\ flow.at >= flow.block
    /\ flow' = ProcessInstr(program, sched, flow)
    /\ UNCHANGED <<assignVars, delays, machineVars>>

FinishVisit ==
    /\ flow # << >>
    /\ flow.block # 0 /\ flow.at < flow.block
    /\ flow' = LeaveBlock(program, labels, flow)
    /\ UNCHANGED <<assignVars, delays, machineVars>>

TellPred ==
    /\ flow # << >>
    /\ flow.joins # {}
    /\ flow' = JoinPred(flow)
    /\ UNCHANGED <<assignVars, delays, machineVars>>

SetDelays ==
    /\ flow # << >>
    /\ Solved(flow)
    /\ delays = << >>
    /\ delays' = DelaysOf(program, labels, flow)
    /\ UNCHANGED <<assignVars, flow, machineVars>>

CalcDelays ==
    \/ StartDelays
    \/ VisitBlock
    \/ VisitInstr
    \/ FinishVisit
    \/ TellPred
    \/ SetDelays
-----------------------------------------------------------------------------
(* The machine.                                                            *)

(* The barriers an operation in flight has yet to signal.                  *)
Pending(op) ==
    {bar \in {sched[op.ip].wr} \union
              (IF op.stage = "read" THEN {sched[op.ip].rd} ELSE {}) : bar # None}

Ready ==
    /\ delays # << >>
    /\ pc <= MaxInstrs
    /\ issued < MaxIssues
    /\ \A op \in flying : Pending(op) \intersect sched[pc].wait = {}

Version(file, instr) ==
    [r \in Registers |-> IF r \in instr.dsts THEN issued + 1 ELSE file[r]]

Operation(instr) ==
    [ip |-> pc, stage |-> IF instr.srcs = {} THEN "write" ELSE "read",
     wanted |-> [r \in instr.srcs |-> order[r]], version |-> issued + 1]

(* An instruction whose predicate is false waits and does nothing.         *)
IssueOff ==
    /\ Ready
    /\ program[pc].pred # {}
    /\ pc' = pc + 1
    /\ issued' = issued + 1
    /\ UNCHANGED <<flying, contents, order, passVars>>

IssueFixed ==
    /\ Ready
    /\ ~IsBranch(program[pc]) /\ ~OpNeedsScoreboard(program[pc])
    /\ pc' = pc + 1
    /\ issued' = issued + 1
    /\ contents' = Version(contents, program[pc])
    /\ order' = Version(order, program[pc])
    /\ UNCHANGED <<flying, passVars>>

IssueScoreboard ==
    /\ Ready
    /\ OpNeedsScoreboard(program[pc])
    /\ pc' = pc + 1
    /\ issued' = issued + 1
    /\ flying' = flying \union {Operation(program[pc])}
    /\ order' = Version(order, program[pc])
    /\ UNCHANGED <<contents, passVars>>

(* Any instruction may be the first of a block and the target.             *)
IssueBranch ==
    /\ Ready
    /\ IsBranch(program[pc])
    /\ \E target \in 1 .. MaxInstrs + 1 : pc' = target
    /\ issued' = issued + 1
    /\ UNCHANGED <<flying, contents, order, passVars>>

(* An operation reads all its sources, then writes its destinations.       *)
ReadSources ==
    /\ \E op \in flying :
        /\ op.stage = "read"
        /\ flying' = (flying \ {op}) \union
               (IF program[op.ip].dsts = {} THEN {} ELSE {[op EXCEPT !.stage = "write"]})
    /\ UNCHANGED <<pc, issued, contents, order, passVars>>

WriteDestinations ==
    /\ \E op \in flying :
        /\ op.stage = "write"
        /\ flying' = flying \ {op}
        /\ contents' = [r \in Registers |->
               IF r \in program[op.ip].dsts THEN op.version ELSE contents[r]]
    /\ UNCHANGED <<pc, issued, order, passVars>>

Init ==
    /\ program = << >>
    /\ labels \in Layouts
    /\ scheduled = 0
    /\ list = << >>
    /\ analysed = 0
    /\ uses = [r \in Registers |-> {}]
    /\ active = {}
    /\ firstWait = [dep \in Deps |-> None]
    /\ barDep = [bar \in Bars |-> None]
    /\ sched = << >>
    /\ flow = << >>
    /\ delays = << >>
    /\ pc = 1
    /\ issued = 0
    /\ flying = {}
    /\ contents = [r \in Registers |-> 0]
    /\ order = [r \in Registers |-> 0]

Next ==
    \/ Write
    \/ StartBlock
    \/ ScheduleNext
    \/ FinishBlock
    \/ Analyse
    \/ Assign
    \/ CalcDelays
    \/ IssueOff
    \/ IssueFixed
    \/ IssueScoreboard
    \/ IssueBranch
    \/ ReadSources
    \/ WriteDestinations

Spec == Init /\ [][Next]_vars
-----------------------------------------------------------------------------
(* The instructions are put in another order, each in its block and none   *)
(* twice, and only those that may be are swapped (the first argument came  *)
(* first).                                                                 *)
Reordered(Swappable(_, _)) ==
    program' # program /\ Len(program) = MaxInstrs =>
        /\ DOMAIN program' = DOMAIN program
        /\ \E from \in [DOMAIN program -> DOMAIN program] :
            /\ \A ip \in DOMAIN program : program'[ip] = program[from[ip]]
            /\ IsInjective(from)
            /\ \A ip \in DOMAIN program :
                  BlockEnd(program, labels, from[ip]) = BlockEnd(program, labels, ip)
            /\ \A i, j \in DOMAIN program :
                  i < j /\ from[i] > from[j] => Swappable(program[from[j]], program[from[i]])

Independent(first, second) ==
    /\ first.dsts \intersect (Touched(second) \union second.dsts) = {}
    /\ first.srcs \intersect second.dsts = {}
    /\ ~(first.op \in Memory /\ second.op \in Memory)
    /\ ~IsBranch(first) /\ ~IsBranch(second)

(* Scheduling only permutes a function: what writes a register and what    *)
(* reads it or is guarded by it afterwards, what reads it and what writes  *)
(* it afterwards, memory operations and branches stay in order.            *)
ScheduleKeepsOrder == [][Reordered(Independent)]_program

(* What a predicate guards is done before the predicate is overwritten.    *)
GuardsKeepOrder ==
    [][Reordered(LAMBDA first, second : first.pred \intersect second.dsts = {})]_program

(* Whatever path leads from one instruction to another, enough cycles pass *)
(* between them: for a result of fixed latency to be there, for a source   *)
(* to be read before it is overwritten, for a barrier to be set before it  *)
(* is waited for.                                                          *)
DelaysSuffice ==
    delays # << >> /\ issued = 0 => EnoughCycles(program, labels, sched, delays)

(* Every instruction reads what program order says: when it can issue, its *)
(* predicate and sources hold the results of the instructions before it,   *)
(* and an operation in flight finds them unchanged when it comes to read.  *)
OperandsInPlace ==
    /\ Ready => \A r \in Touched(program[pc]) : contents[r] = order[r]
    /\ \A op \in flying : op.stage = "read" =>
           \A r \in program[op.ip].srcs : contents[r] = op.wanted[r]

(* No late write lands on a newer one: a register nobody in flight is      *)
(* about to write holds what program order gives it.                       *)
WritesInOrder ==
    \A r \in Registers :
        (\A op \in flying : r \notin program[op.ip].dsts) => contents[r] = order[r]

(* A barrier stands for one outstanding dependency, reused or not: what    *)
(* set_bar_dep asserts of the allocator, said of the running machine.      *)
BarrierExclusive ==
    /\ \A op1, op2 \in flying : op1 # op2 => Pending(op1) \intersect Pending(op2) = {}
    /\ \A i \in 1 .. Len(sched) : sched[i].rd # None => sched[i].rd # sched[i].wr
=============================================================================
