------------------------- MODULE RegisterAllocation -------------------------
(***************************************************************************)
(* What compile_ir does to a function between lowering and encoding, as    *)
(* far as registers are concerned: copies are propagated                   *)
(* (opt_copy_prop.rs), instructions are made legal (legalize.rs), dead     *)
(* code goes (opt_dce.rs), the instructions of graphics shaders            *)
(* are scheduled (opt_instr_sched_prepass.rs), liveness is solved, phis    *)
(* are made conventional, liveness is solved again, values that do not fit *)
(* are spilled and SSA form is repaired (spill_values.rs, repair_ssa.rs),  *)
(* every block gets its registers, and copies connect the blocks           *)
(* (assign_regs.rs).  Then the code runs.                                  *)
(*                                                                         *)
(* The machine keeps for each register the names of the SSA values (and    *)
(* immediates) that its content is equal to at the moment; that is all     *)
(* that decides whether an instruction finds its operands.                 *)
(***************************************************************************)
EXTENDS AssignRegs, CopyProp, NeededValues, PrepassSchedule, RepairSsa

CONSTANTS
    Shaders,    \* the functions to allocate, with the registers the machine
                \* has for each: [blocks, edges, room]
    FileOrder,  \* the files, in the order PerRegFile goes through them
    MinGprs(_), \* for a function: 16 in the code, 4 vectors of 4 components
    ExtraGprs   \* by how much rounding to the allocation unit may raise it

ASSUME AllocationAssumption ==
    /\ Files = Range(FileOrder) /\ \A shader \in Shaders : MinGprs(shader.blocks) \in Nat
    /\ ExtraGprs \subseteq Nat

VARIABLES
    cfg,        \* the control-flow graph
    original,   \* the instructions of its blocks, copies propagated
    blocks,     \* what the passes have made of them
    phase,      \* the pass that is going on
    pass,       \* DeadCodePass
    live,       \* the solver, then SimpleLiveness
    graph,      \* the coalesce graph of to_cssa
    sched,      \* the scheduler before register allocation
    spills,     \* the files spilled, the pass, the next block and version
    alloc,      \* the state of assign_regs; at first, what the machine has
    code,       \* the blocks that have been assigned
    at, holds   \* the machine: the block and instruction, and the registers

vars == <<cfg, original, blocks, phase, pass, live, graph, sched, spills, alloc, code, at, holds>>

NoAllocation == [limit |-> <<>>, webs |-> <<>>, done |-> <<>>, block |-> <<>>, ip |-> 0, stuck |-> FALSE]
NoSchedule(wanted) == [wanted |-> wanted, stuck |-> FALSE]
NoSpills == [files |-> {}, sp |-> [stuck |-> FALSE], next |-> 1, at |-> 0]

(* The blocks that the entry leads to.                                     *)
Init ==
    /\ \E shader \in Shaders : \E kept \in {Kept(Len(shader.blocks), shader.edges)} :
          /\ cfg \in {Cfg(Len(kept), Renumber(kept, shader.edges))}
          /\ original = [b \in DOMAIN kept |-> shader.blocks[kept[b]]]
          /\ alloc = [NoAllocation EXCEPT !.limit = shader.room]
          /\ sched = NoSchedule(shader.stage # "compute")
    /\ blocks = original /\ live = Unsolved(cfg.size) /\ pass = NewPass(cfg.size)
    /\ phase = "propagate" /\ graph = <<>> /\ spills = NoSpills
    /\ code = <<>> /\ at = <<0, 0>> /\ holds = <<>>

-----------------------------------------------------------------------------
(* The passes before the assignment.  Copies are propagated twice; what    *)
(* dead code the first opt_dce would remove, the second does.              *)
PropagateCopies ==
    /\ phase \in {"propagate", "propagate again"}
    /\ \E propagated \in {CopyPropagated(original)} : original' = propagated /\ blocks' = propagated
    /\ phase' = IF phase = "propagate" THEN "propagate again" ELSE "legalize"
    /\ UNCHANGED <<cfg, pass, live, graph, sched, spills, alloc, code, at, holds>>

LegalizeAll ==
    /\ phase = "legalize"
    /\ \E legal \in {Legalized(original)} : blocks' = legal
    /\ phase' = "dce"
    /\ UNCHANGED <<cfg, original, pass, live, graph, sched, spills, alloc, code, at, holds>>

Mark ==
    /\ phase \in {"dce", "sweep"} /\ ~pass.done
    /\ \E p \in {MarkBlock(pass, blocks)} : pass' = p
    /\ UNCHANGED <<cfg, original, blocks, phase, live, graph, sched, spills, alloc, code, at, holds>>

RemoveDead ==
    /\ phase \in {"dce", "sweep"} /\ pass.done
    /\ \E b \in {Remaining(pass, blocks)} : blocks' = b
    /\ phase' = IF phase = "sweep" THEN "cssa" ELSE IF sched.wanted THEN "prepass" ELSE "liveness"
    /\ UNCHANGED <<cfg, original, pass, live, graph, sched, spills, alloc, code, at, holds>>

Solve ==
    /\ phase \in {"prepass", "liveness", "cssa"} /\ ~Solved(live)
    /\ \E s \in {SolveStep(live, blocks, cfg)} : live' = s
    /\ UNCHANGED <<cfg, original, blocks, phase, pass, graph, sched, spills, alloc, code, at, holds>>

(* Instructions are scheduled, but not those of compute shaders.           *)
MaxRegs == [alloc.limit EXCEPT !["GPR"] = @ - SwReservedGprs]

PrepareSchedule ==
    /\ phase = "prepass" /\ Solved(live)
    /\ \E s \in {Prepared(live, blocks, MaxRegs)} : sched' = s
    /\ phase' = "schedule"
    /\ UNCHANGED <<cfg, original, blocks, pass, live, graph, spills, alloc, code, at, holds>>

ScheduleUnit ==
    /\ phase = "schedule" /\ ~sched.stuck /\ sched.at <= cfg.size
    /\ \E s \in {SecondPass(sched)} : sched' = s
    /\ UNCHANGED <<cfg, original, blocks, phase, pass, live, graph, spills, alloc, code, at, holds>>

ApplySchedule ==
    /\ phase = "schedule" /\ ~sched.stuck /\ sched.at > cfg.size
    /\ \E last \in {ScheduledBlocks(sched, live, cfg)} :
          blocks' = last.blocks /\ sched' = [NoSchedule(TRUE) EXCEPT !.stuck = last.stuck]
    /\ live' = Unsolved(cfg.size) /\ phase' = "liveness"
    /\ UNCHANGED <<cfg, original, pass, graph, spills, alloc, code, at, holds>>

ToCssa ==
    /\ phase = "liveness" /\ Solved(live)
    /\ \E converted \in {Converted(live, blocks, cfg, 1)} :
          blocks' = converted.blocks /\ graph' = converted.g
    /\ live' = Unsolved(cfg.size) /\ phase' = "cssa"
    /\ UNCHANGED <<cfg, original, pass, sched, spills, alloc, code, at, holds>>

(* Mutant: the vectors among the operands are not counted.                 *)
GprLimitOfScalars(bs, max_live, extra) == max_live["GPR"] + extra

(* What a block may use, before rounding.                                  *)
GprLimit(bs, max_live, extra) == Larger(max_live["GPR"], MinGprs(bs)) + extra

-----------------------------------------------------------------------------
(* Spilling: predicates if there are not as many as that, then GPRs if     *)
(* there would be none left to copy with, each once.                       *)
TmpGprs == 1
NeedsSpilling(f, bs, max_live) ==
    /\ f \notin spills.files
    /\ IF f = "Pred" THEN max_live[f] > alloc.limit[f]
       ELSE GprLimit(bs, max_live, TmpGprs) > alloc.limit[f]

(* Lowering a copy from memory to memory takes another GPR.                *)
SpillLimit(f) == IF f = "GPR" THEN alloc.limit[f] - 2 ELSE alloc.limit[f]

StartSpilling ==
    /\ phase = "cssa" /\ Solved(live)
    /\ \E max_live \in {CalcMaxLive(live, blocks, cfg)} : \E f \in {"Pred", "GPR"} :
          /\ NeedsSpilling(f, original, max_live)
          /\ f = "GPR" => ~NeedsSpilling("Pred", original, max_live)
          /\ \E sp \in {NewSpilling(blocks, cfg, f, SpillLimit(f))} :
                spills' = [spills EXCEPT !.files = @ \cup {f}, !.sp = sp, !.at = 1]
    /\ phase' = "spill"
    /\ UNCHANGED <<cfg, original, blocks, pass, live, graph, sched, alloc, code, at, holds>>

SpillNext ==
    /\ phase = "spill" /\ ~spills.sp.stuck /\ spills.at <= cfg.size
    /\ \E sp \in {SpillBlock(spills.sp, blocks, cfg, spills.at)} :
          spills' = [spills EXCEPT !.sp = sp, !.at = @ + 1]
    /\ UNCHANGED <<cfg, original, blocks, phase, pass, live, graph, sched, alloc, code, at, holds>>

(* The edges out of all the blocks.                                        *)
ConnectSpills ==
    /\ phase = "spill" /\ ~spills.sp.stuck /\ spills.at > cfg.size
    /\ \E sp \in {ThroughDomain(LAMBDA acc, p : ConnectEdges(acc, blocks, cfg, p), spills.sp, blocks)} :
          /\ spills' = [spills EXCEPT !.sp = sp]
          /\ blocks' = sp.code
    /\ phase' = "repair"
    /\ UNCHANGED <<cfg, original, pass, live, graph, sched, alloc, code, at, holds>>

Repair ==
    /\ phase = "repair" /\ ~spills.sp.stuck
    /\ \E repaired \in {Repaired(blocks, cfg, spills.next)} :
          /\ blocks' = repaired.blocks
          /\ spills' = [spills EXCEPT !.sp.stuck = repaired.stuck, !.next = repaired.next]
    /\ phase' = "sweep" /\ pass' = NewPass(cfg.size) /\ live' = Unsolved(cfg.size)
    /\ UNCHANGED <<cfg, original, graph, sched, alloc, code, at, holds>>

-----------------------------------------------------------------------------
(* Rounding up stays below what the machine has; spilled values go to as   *)
(* many places in memory as there are.                                     *)
Limits(max_live, extra) ==
    [f \in Files |->
        CASE f = "GPR" -> IF f \in spills.files THEN SpillLimit(f) ELSE GprLimit(original, max_live, extra)
          [] f = "Mem" -> Cardinality({ v \in UNION { BlockDefs(blocks[b]) : b \in DOMAIN blocks } : v[1] = f })
          [] OTHER -> alloc.limit[f]]

StartAssignment ==
    /\ phase = "cssa" /\ Solved(live)
    /\ \E max_live \in {CalcMaxLive(live, blocks, cfg)}, extra \in ExtraGprs :
          /\ \A f \in {"Pred", "GPR"} : ~NeedsSpilling(f, original, max_live)
          /\ "GPR" \notin spills.files => GprLimit(original, max_live, extra) + TmpGprs <= alloc.limit["GPR"]
          /\ \E limit \in {Limits(max_live, extra)} :
                alloc' = [alloc EXCEPT !.limit = limit, !.stuck = ~WebsDefined(blocks, cfg)]
    /\ phase' = "webs"
    /\ UNCHANGED <<cfg, original, blocks, pass, live, graph, sched, spills, code, at, holds>>

ConnectWebs ==
    /\ phase = "webs" /\ ~alloc.stuck
    /\ \E webs \in {PhiWebs(blocks, cfg)} : alloc' = [alloc EXCEPT !.webs = webs]
    /\ phase' = "first pass"
    /\ UNCHANGED <<cfg, original, blocks, pass, live, graph, sched, spills, code, at, holds>>

-----------------------------------------------------------------------------
(* first_pass, an instruction at a time.                                   *)
Assigning == Len(alloc.done) + 1
EnteredRas(b) ==
    [f \in Files |-> IF cfg.pred[b] = <<>> THEN <<>>
                     ELSE LET ra == alloc.done[cfg.pred[b][1]].ras[f]
                          IN  Freed(ra, { v \in DOMAIN ra : v \notin live.live_in[b] })]
LiveIn(ras) ==
    UNION { { [what |-> <<"ssa", v>>, register |-> Register(f, ras[f][v])] : v \in DOMAIN ras[f] } : f \in Files }

EnterBlock ==
    /\ phase = "first pass" /\ ~alloc.stuck /\ alloc.ip = 0 /\ Assigning <= cfg.size
    /\ \E ras \in {EnteredRas(Assigning)} :
          alloc' = [alloc EXCEPT !.ip = 1, !.block = [ras |-> ras, live_in |-> LiveIn(ras), phi_out |-> <<>>, code |-> <<>>]]
    /\ UNCHANGED <<cfg, original, blocks, phase, pass, live, graph, sched, spills, code, at, holds>>

Dying(values, b, ip) == { v \in values : ~LiveAfter(live, blocks, b, v, ip) }
Here == [block |-> blocks[Assigning], ip |-> alloc.ip, webs |-> alloc.webs, limit |-> alloc.limit,
         srcsKilled |-> Dying(InstrUses(blocks[Assigning][alloc.ip]), Assigning, alloc.ip),
         dstsKilled |-> Dying(InstrDefs(blocks[Assigning][alloc.ip]), Assigning, alloc.ip)]

NoInstr == [op |-> "none"]

PCopy(copies, was) ==
    IF copies = <<>> THEN <<>>
    ELSE << [op |-> "pcopy", pred |-> {}, srcs |-> [k \in DOMAIN copies |-> <<copies[k][2]>>],
             dsts |-> [k \in DOMAIN copies |-> <<copies[k][1]>>], phis |-> <<>>, was |-> was] >>

(* The instruction after the copies it needs.                              *)
AssignNext ==
    /\ phase = "first pass" /\ ~alloc.stuck /\ alloc.ip # 0 /\ alloc.ip <= Len(blocks[Assigning])
    /\ \E ctx \in {Here} :
       \E as \in {AssignInstr([instr |-> ctx.block[ctx.ip], copies |-> <<>>, stuck |-> FALSE] @@
                              [alloc.block EXCEPT !.code = <<>>], ctx, FileOrder)} :
          alloc' = [alloc EXCEPT !.ip = @ + 1, !.stuck = as.stuck,
                                 !.block = [ras |-> as.ras, live_in |-> as.live_in, phi_out |-> as.phi_out,
                                            code |-> @.code \o PCopy(as.copies, ctx.block[ctx.ip]) \o as.code]]
    /\ UNCHANGED <<cfg, original, blocks, phase, pass, live, graph, sched, spills, code, at, holds>>

LeaveBlock ==
    /\ phase = "first pass" /\ ~alloc.stuck /\ alloc.ip > Len(blocks[Assigning])
    /\ \E webs \in SetWebs(alloc.webs, alloc.block.ras) :
          alloc' = [alloc EXCEPT !.webs = webs, !.ip = 0, !.done = Append(@, alloc.block)]
    /\ code' = Append(code, alloc.block.code)
    /\ phase' = IF Len(alloc.done') = cfg.size THEN "second pass" ELSE "first pass"
    /\ UNCHANGED <<cfg, original, blocks, pass, live, graph, sched, spills, at, holds>>

-----------------------------------------------------------------------------
(* second_pass: copies into the registers a successor wants its values in. *)
Supply(arb, lv) ==
    IF lv.what[1] = "ssa" THEN GetScalar(arb.ras, lv.what[2])
    ELSE IF lv.what[2] \in DOMAIN arb.phi_out THEN arb.phi_out[lv.what[2]] ELSE Register("GPR", NoReg)

CopiesInto(arb, target) ==
    LET wanted == { lv \in target.live_in : Supply(arb, lv) # lv.register }
    IN  With(Listed(wanted), LAMBDA order :
             [k \in DOMAIN order |-> <<order[k].register, Supply(arb, order[k])>>])

BeforeBranch(instrs, more) ==
    IF instrs # <<>> /\ Last(instrs).op = "bra" THEN Front(instrs) \o more \o <<Last(instrs)>> ELSE instrs \o more

(* Mutant: only the values of phis are moved.                              *)
ConnectPhis(done, instrs, b, succ) ==
    Through(LAMBDA acc, s :
        BeforeBranch(acc, PCopy(CopiesInto(done[b], [done[s] EXCEPT !.live_in = { lv \in @ : lv.what[1] = "phi" }]), NoInstr)),
        instrs, succ)

Connect(done, instrs, b, succ) ==
    Through(LAMBDA acc, s : BeforeBranch(acc, PCopy(CopiesInto(done[b], done[s]), NoInstr)), instrs, succ)

ConnectBlock ==
    /\ phase = "second pass" /\ ~alloc.stuck /\ alloc.ip < cfg.size
    /\ \E b \in {alloc.ip + 1} :
       \E connected \in {Connect(alloc.done, code[b], b, cfg.succ[b])} :
          /\ code' = [code EXCEPT ![b] = connected]
          /\ alloc' = [alloc EXCEPT !.ip = b,
                !.stuck = \E s \in Range(cfg.succ[b]) : \E lv \in alloc.done[s].live_in :
                             LET from == Supply(alloc.done[b], lv) IN from[1] = "reg" /\ from[3] = NoReg]
    /\ UNCHANGED <<cfg, original, blocks, phase, pass, live, graph, sched, spills, at, holds>>

-----------------------------------------------------------------------------
(* Running the code.  Either way a predicated branch goes is followed.     *)
AllRegisters == UNION { { Register(f, r) : r \in 0 .. alloc.limit[f] - 1 } : f \in Files }

Run ==
    /\ phase = "second pass" /\ ~alloc.stuck /\ alloc.ip = cfg.size
    /\ phase' = "run" /\ at' = <<1, 1>> /\ holds' = [r \in AllRegisters |-> {}]
    /\ UNCHANGED <<cfg, original, blocks, pass, live, graph, sched, spills, alloc, code>>

Running == phase = "run" /\ at[1] # 0
AtInstruction == Running /\ at[2] <= Len(code[at[1]])
Instruction == code[at[1]][at[2]]

(* What is equal to source o.                                              *)
Names(o) == IF o[1] = "reg" THEN holds[o] ELSE {o}

(* A copy gives its destination's name to what it copies.  The spilled     *)
(* form and the versions of a value are equal to it: a copy among them     *)
(* names nothing, and one of a constant makes no other place stale.        *)
IsCopy(op) == op \in {"copy", "parcopy"}
Given(was, k) ==
    LET dst == Base(was.dsts[k][1]) IN
    IF ~IsCopy(was.op) \/ k \notin DOMAIN was.dsts \/ Base(was.srcs[k][1]) = dst THEN {} ELSE {dst}
Stale(was) ==
    IF ~IsCopy(was.op) THEN {}
    ELSE UNION { Given(was, k) : k \in { j \in DOMAIN was.dsts : IsSsa(was.srcs[j][1]) } }

Copied(instr) ==
    LET To(r) == { k \in DOMAIN instr.dsts : instr.dsts[k][1] = r }
    IN  [r \in DOMAIN holds |->
            IF To(r) = {} THEN holds[r] \ Stale(instr.was)
            ELSE UNION { (Names(instr.srcs[k][1]) \ Stale(instr.was)) \cup Given(instr.was, k) : k \in To(r) }]

(* New values: what had their names was of an earlier iteration.           *)
Written(dsts, values) ==
    [r \in DOMAIN holds |->
        LET new == UNION { { Base(values[k][c]) : c \in { d \in DOMAIN dsts[k] : dsts[k][d] = r } } : k \in DOMAIN dsts }
        IN  IF new # {} THEN new
            ELSE holds[r] \ UNION { { Base(v) : v \in Range(values[k]) } : k \in DOMAIN values }]

Copying == Instruction.op \in {"copy", "parcopy", "pcopy", "spill", "fill"}

ExecuteCopy ==
    /\ AtInstruction /\ Copying
    /\ holds' = Copied(Instruction) /\ at' = [at EXCEPT ![2] = @ + 1]
    /\ UNCHANGED <<cfg, original, blocks, phase, pass, live, graph, sched, spills, alloc, code>>

Execute ==
    /\ AtInstruction /\ ~Copying
    /\ holds' = Written(Instruction.dsts, Instruction.was.dsts) /\ at' = [at EXCEPT ![2] = @ + 1]
    /\ UNCHANGED <<cfg, original, blocks, phase, pass, live, graph, sched, spills, alloc, code>>

(* What the phis of block s mean when it is entered from b.                *)
MeantIn(bs, b, s) ==
    UNION { UNION { UNION { { <<Base(i.dsts[k][1]), Base(j.srcs[l][1])>> : l \in { m \in DOMAIN j.phis : j.phis[m] = i.phis[k] } } :
                            k \in DOMAIN i.phis } :
                    j \in Range(PhiSrcs(bs[b])) } : i \in Range(PhiDsts(bs[s])) }
Meant(b, s) == MeantIn(original, b, s) \cup MeantIn(blocks, b, s)

Renamed(names, meant) ==
    (names \ { m[1] : m \in meant }) \cup { m[1] : m \in { n \in meant : n[2] \in names } }

(* Where the code can go: an unconditional branch only to its target, the  *)
(* last successor, though the edge behind it is declared as well.          *)
Ways(b) ==
    IF original[b] # <<>> /\ Last(original[b]).op = "bra" /\ Last(original[b]).pred = {}
    THEN {Last(cfg.succ[b])} ELSE Range(cfg.succ[b])

Jump ==
    /\ Running /\ at[2] > Len(code[at[1]])
    /\ IF cfg.succ[at[1]] = <<>> THEN at' = <<0, 0>> /\ UNCHANGED holds
       ELSE \E s \in Ways(at[1]) :
               /\ at' = <<s, 1>>
               /\ holds' = [r \in DOMAIN holds |-> Renamed(holds[r], Meant(at[1], s))]
    /\ UNCHANGED <<cfg, original, blocks, phase, pass, live, graph, sched, spills, alloc, code>>

Ended == phase = "run" /\ at[1] = 0 /\ UNCHANGED vars

Next ==
    \/ PropagateCopies \/ LegalizeAll \/ Mark \/ RemoveDead \/ Solve \/ PrepareSchedule \/ ScheduleUnit \/ ApplySchedule \/ ToCssa
    \/ StartSpilling \/ SpillNext \/ ConnectSpills \/ Repair \/ StartAssignment \/ ConnectWebs
    \/ EnterBlock \/ AssignNext \/ LeaveBlock \/ ConnectBlock \/ Run
    \/ ExecuteCopy \/ Execute \/ Jump \/ Ended

Spec == Init /\ [][Next]_vars

(* The compiler does not stop before a pass is over.                       *)
Analyse ==
    \/ PropagateCopies \/ LegalizeAll \/ Mark \/ RemoveDead \/ Solve \/ PrepareSchedule \/ ScheduleUnit \/ ApplySchedule \/ ToCssa
    \/ StartSpilling \/ SpillNext \/ ConnectSpills \/ Repair \/ StartAssignment
FairSpec == Spec /\ WF_vars(Analyse)
-----------------------------------------------------------------------------
(* Properties.                                                             *)

(* Whatever the inputs, each instruction still computes from the same      *)
(* words and executes for the same predicates when copies have been        *)
(* propagated: a modifier is not moved to where it means something else.   *)
(* legalize leaves instructions whose vectors can all be in registers at   *)
(* once, and that read what they were written to read.                     *)
Inserted(instr) == instr.op = "copy" /\ instr.dsts[1][1][2][2] = "legal"
Resolved(copies, instr) ==
    [instr EXCEPT !.srcs = [k \in DOMAIN @ |-> [c \in DOMAIN @[k] |-> CopiedFrom(copies, @[k][c])]]]
LegalForm(bs, legal) ==
    \E copies \in {AllCopies(legal)} : \A b \in DOMAIN bs :
        \E kept \in {SelectSeq(legal[b], LAMBDA i : ~Inserted(i))} :
            /\ \A ip \in DOMAIN legal[b] : Placeable(legal[b][ip])
            /\ [ip \in DOMAIN kept |-> Resolved(copies, kept[ip])]
               = [ip \in DOMAIN bs[b] |-> Resolved(copies, bs[b][ip])]
SourcesKeepMeaning ==
    [][/\ phase \in {"propagate", "propagate again"} => SameMeaning(original, original')
       /\ phase = "legalize" => LegalForm(original, blocks')]_vars

(* opt_dce removes exactly what no effect depends on, around loops and     *)
(* through phis: everything an effect depends on is still made and nothing *)
(* else is.  The effects are all there, and the scheduler has left them    *)
(* and the loads among them in order, under any limit on registers.        *)
OnlyDeadRemoved ==
    phase = "liveness" =>
        \E legal \in {Legalized(original)} : \E needed \in {NeededBy(legal)} : \A b \in 1 .. cfg.size :
            /\ SelectSeq(blocks[b], LAMBDA i : i.op \in Effects \cup MemoryOps)
               = SelectSeq(legal[b], LAMBDA i : HasEffect(i) \/ (i.op \in MemoryOps /\ InstrDefs(i) \cap needed # {}))
            /\ BlockDefs(legal[b]) \cap needed \subseteq BlockDefs(blocks[b])
            /\ \A ip \in DOMAIN blocks[b] : blocks[b][ip].op \in Effects \/ InstrDefs(blocks[b][ip]) \cap needed # {}
                                              \/ blocks[b][ip].op = "phisrcs"

(* "Returns true if `parent` dominates `child`."  (cfg.rs)                 *)
DominanceIsReal ==
    \A parent, child \in 1 .. cfg.size :
        Dominates(cfg, parent, child) <=> MustPass(cfg, parent, child)

(* "The loop header of the innermost loop containing this node", for the   *)
(* graphs structured code has: those where every cycle is entered at its   *)
(* header.                                                                 *)
BackEdges == { <<c, h>> \in (1 .. cfg.size) \X (1 .. cfg.size) : h \in Range(cfg.succ[c]) /\ MustPass(cfg, h, c) }
Reducible ==
    LET forward == [b \in 1 .. cfg.size |-> SelectSeq(cfg.succ[b], LAMBDA s : <<b, s>> \notin BackEdges)]
    IN  \A b \in 1 .. cfg.size : b \notin From(forward, Range(forward[b]), {})
InLoopOf(h, n) ==
    /\ MustPass(cfg, h, n)
    /\ \E e \in BackEdges : e[2] = h /\ (n = h \/ e[1] \in From(cfg.succ, {n}, {h}))
HeadersAreReal ==
    Reducible => \A n \in 1 .. cfg.size :
        LET around == { h \in 1 .. cfg.size : InLoopOf(h, n) } IN
        IF around = {} THEN cfg.lph[n] = Unset
        ELSE cfg.lph[n] \in around /\ \A h \in around : MustPass(cfg, h, cfg.lph[n])

StructureIsReal == phase = "legalize" => DominanceIsReal /\ HeadersAreReal

(* Once solved, liveness is what a path to a use says it is, whatever the  *)
(* order in which the worklist came to the blocks.                         *)
LivenessIsReal ==
    phase \in {"prepass", "liveness", "cssa"} /\ Solved(live) =>
        \A b \in 1 .. cfg.size : \A v \in UNION { BlockUses(blocks[c]) \cup BlockDefs(blocks[c]) : c \in 1 .. cfg.size } :
            /\ v \in live.live_in[b] <=> ReallyLiveIn(blocks, cfg, b, v)
            /\ v \in live.live_out[b] <=> ReallyLiveOut(blocks, cfg, b, v)

(* to_cssa leaves no two values that a phi connects live at once.          *)
PhisAreConventional == phase = "cssa" /\ spills.files = {} /\ Solved(live) => Conventional(live, blocks)

PhisInto(block) == UNION { Range(i.phis) : i \in Range(PhiDsts(block)) }
PhisOutOf(block) == UNION { Range(i.phis) : i \in Range(PhiSrcs(block)) }

(* "Spill values from @file to fit within @limit registers": in each file  *)
(* that has been spilled, no more values are live at once than it may use, *)
(* whatever was filled, copied or carried over an edge.                    *)
SpillingFits ==
    phase = "cssa" /\ spills.files # {} /\ Solved(live) =>
        \E max_live \in {CalcMaxLive(live, blocks, cfg)} :
            \A f \in spills.files : max_live[f] <= SpillLimit(f)

(* "Repairs SSA form": every value has one definition, which comes before  *)
(* its uses on every path, and what a phi makes comes in over every edge.  *)
SsaIsRepaired ==
    phase = "cssa" /\ spills.files # {} /\ Solved(live) =>
        /\ DefinedOften(blocks) = {}
        /\ \A v \in UNION { BlockUses(blocks[b]) : b \in 1 .. cfg.size } : ~ReallyLiveIn(blocks, cfg, 1, v)
        /\ \A b \in 1 .. cfg.size : \A p \in Range(cfg.pred[b]) :
              PhisInto(blocks[b]) = PhisOutOf(blocks[p]) \/ (PhisInto(blocks[b]) = {} /\ Len(cfg.succ[p]) > 1)

(* "In order to ensure we always succeed at allocation, regardless of      *)
(* arbitrary choices, we need at least 16 GPRs": no search for a register  *)
(* fails, and no register is given away twice (the assertions).            *)
NeverStuck == ~alloc.stuck /\ ~spills.sp.stuck /\ ~sched.stuck

(* Every instruction finds in the registers it reads the values it was     *)
(* written to read, on every path, in every iteration; and the outputs of  *)
(* a shader are in the registers in which they leave it.                   *)
InPlace(v, r) == IsSsa(v) => Base(v) \in Names(r)
OperandsInPlace ==
    AtInstruction /\ Instruction.was.op # "none" /\ (Instruction.op = "pcopy" => Instruction.was.op = "regout") =>
        /\ \A k \in DOMAIN Instruction.was.srcs : \A c \in DOMAIN Instruction.was.srcs[k] :
               InPlace(Instruction.was.srcs[k][c], Instruction.srcs[k][c])
        /\ \A v \in Instruction.was.pred : \A r \in Instruction.pred : InPlace(v, r)

(* Two values share a web if and only if phis connect them, directly or    *)
(* through others, and a root's size is the number of values below it.     *)
Touching(found) == found \cup UNION { ConnectedBy(blocks, phi) : phi \in { p \in PhisOf(blocks) : ConnectedBy(blocks, p) \cap found # {} } }
RECURSIVE Web(_)
Web(found) == IF Touching(found) = found THEN found ELSE Web(Touching(found))
WebsAreConnected ==
    phase = "first pass" /\ alloc.done = <<>> =>
        LET forest == alloc.webs.forest
            RootOf(k) == FindRoot(forest, k).root IN
        /\ \A j, k \in DOMAIN forest :
              RootOf(j) = RootOf(k) <=> forest[k].value \in Web({forest[j].value})
        /\ \A k \in DOMAIN forest :
              IsRoot(forest, k) => forest[k].size = Cardinality({ j \in DOMAIN forest : RootOf(j) = k })
        /\ \A k \in DOMAIN forest : forest[k].representative \in Web({forest[k].value})

(* The sweeps of opt_dce and the worklist, before and after to_cssa, come  *)
(* to an end in every graph.                                               *)
Analysed == <>(phase \notin {"propagate", "propagate again", "legalize", "dce", "prepass", "schedule", "liveness", "cssa", "spill", "repair", "sweep"})
=============================================================================
