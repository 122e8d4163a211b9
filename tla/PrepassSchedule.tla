--------------------------- MODULE PrepassSchedule ---------------------------
(***************************************************************************)
(* Instruction scheduling before register allocation                       *)
(* (opt_instr_sched_prepass.rs, opt_instr_sched_common.rs): list           *)
(* scheduling from the end of every block, by latency as long as there are *)
(* registers to spare and by register pressure when there are not, under   *)
(* limits that are tried from the fewest registers to the most.            *)
(*                                                                         *)
(* No instruction waits for a cycle: the queue of those that are not yet   *)
(* ready is ordered by the ready_cycle of the graph's nodes, which nothing *)
(* sets; the cycles counted by generate_order are kept elsewhere.          *)
(***************************************************************************)
EXTENDS Liveness

CONSTANTS
    TotalRegs,      \* registers of a multiprocessor: 65536
    WarpsPerSm,     \* warps it can hold: 64
    Granule,        \* registers are given to a thread in multiples of: 8
    TargetFree      \* registers that ought to stay free: 4

ASSUME ScheduleAssumption == {TotalRegs, WarpsPerSm, Granule} \subseteq Nat \ {0} /\ TargetFree \in Nat

SwReservedGprs == 1
SwReservedGprsSpill == 2

MemoryOps == {"ld", "store"}
BarrierOps == {"bra", "regout", "phisrcs", "phidsts"}
VirtualOps == {"undef", "copy", "parcopy", "regout", "phisrcs", "phidsts"}

-----------------------------------------------------------------------------
(* How many registers can be used without costing occupancy, by whoever    *)
(* needs x.                                                                *)
PrevMultiple(x, y) == (x \div y) * y
NextMultiple(x, y) == PrevMultiple(x + y - 1, y)
Smaller(x, y) == IF x <= y THEN x ELSE y

MaxWarps(gprs) ==
    Smaller(PrevMultiple((TotalRegs \div 32) \div NextMultiple(Larger(gprs, 1), Granule), 4), WarpsPerSm)
OccupancyCliff(x) == PrevMultiple(TotalRegs \div Larger(MaxWarps(x) * 32, 1), Granule)
CliffBesides(gprs) == OccupancyCliff(gprs + SwReservedGprs) - SwReservedGprs

-----------------------------------------------------------------------------
(* generate_dep_graph: an edge <<i, j, latency>> keeps i before j.         *)
SideEffectEdge(code, i, j) ==
    LET between == { code[k].op : k \in i + 1 .. j - 1 } IN
    \/ /\ code[i].op \in BarrierOps \/ code[j].op \in BarrierOps
       /\ between \cap BarrierOps = {}
    \/ {code[i].op, code[j].op} \subseteq MemoryOps /\ between \cap MemoryOps = {}

Latency(def, v, use) ==
    LET variable == IF def.op \in MemoryOps THEN 32 ELSE 0
        fixed == IF v[1] = "Pred" THEN 13 ELSE 6
    IN  IF def.op \in VirtualOps \/ (use.op \in VirtualOps /\ v \notin use.pred) THEN 0
        ELSE Larger(fixed, variable)

(* Mutant: the predicate of an instruction is not among its sources.       *)
LatenciesOfSources(code, i, j) ==
    { Latency(code[i], v, code[j]) : v \in InstrDefs(code[i]) \cap SsaOf(code[j].srcs) }
        \cup (IF SideEffectEdge(code, i, j) THEN {0} ELSE {})

Latencies(code, i, j) ==
    { Latency(code[i], v, code[j]) : v \in InstrDefs(code[i]) \cap InstrUses(code[j]) }
        \cup (IF SideEffectEdge(code, i, j) THEN {0} ELSE {})

(* calc_statistics goes from the last instruction to the first.            *)
DepGraph(code) ==
    With([i \in DOMAIN code |-> { <<j, Max(Latencies(code, i, j))>> :
              j \in { k \in i + 1 .. Len(code) : Latencies(code, i, k) # {} } }], LAMBDA uses :
         [uses |-> [i \in DOMAIN code |-> { e[1] : e \in uses[i] }],
          toEnd |-> Through(LAMBDA toEnd, i :
                        [toEnd EXCEPT ![i] = Max({0} \cup { toEnd[e[1]] + e[2] : e \in uses[i] })],
                        [i \in DOMAIN code |-> 0], Reverse([i \in DOMAIN code |-> i]))])

-----------------------------------------------------------------------------
(* NetLive: how the number of live values changes, going backwards, from   *)
(* the end of an instruction to its start (net) and to the two places      *)
(* where most is live.  The values in `seen` are known to be live already. *)
Tracked(unit) == BlockUses(unit.code) \ unit.live_out

NetLive(unit, seen, i) ==
    LET instr == unit.code[i]
        defs == InstrDefs(instr)
        uses == (InstrUses(instr) \ unit.live_out) \ seen
        unused == defs \ (Tracked(unit) \cup unit.live_out)
        scalars == SsaOf(Scalars(instr.dsts))
    IN  [net |-> [f \in Files |-> Count(uses, f) - Count(defs \ unused, f)],
         peak1 |-> [f \in Files |-> Count(unused, f)],
         peak2 |-> [f \in Files |-> Count(uses, f) + Count(unused, f) - Count(scalars, f)]]

(* What does not fit in one file goes to the next: predicates to GPRs and  *)
(* GPRs to memory, at the price of so many cycles.                         *)
Excess(n, limit) == Larger(n - limit, 0)
UsedGprs(count, max_regs) == count["GPR"] + Excess(count["Pred"], max_regs["Pred"])

SpillCost == [Pred |-> 12 + 6, GPR |-> 32 + 32]
Badness(count, max_regs) ==
    Excess(count["Pred"], max_regs["Pred"]) * SpillCost.Pred
        + Excess(UsedGprs(count, max_regs), max_regs["GPR"]) * SpillCost.GPR
Goodness(count, max_regs) ==
    Excess(max_regs["Pred"], count["Pred"]) * SpillCost.Pred
        + Excess(max_regs["GPR"], UsedGprs(count, max_regs)) * SpillCost.GPR

-----------------------------------------------------------------------------
(* generate_order.  A state has the order so far, what is live and whether *)
(* the limit was exceeded (quit) or an assertion failed (stuck).           *)
LiveCount(s, change) == [f \in Files |-> Count(s.live, f) + change[f]]
NoChange == [f \in Files |-> 0]
PeakGprs(net, s, max_regs) ==
    Larger(UsedGprs(LiveCount(s, net.peak1), max_regs), UsedGprs(LiveCount(s, net.peak2), max_regs))

Score(net, s, max_regs, thresholds) ==
    IF PeakGprs(net, s, max_regs) > thresholds.quit THEN <<0, 0, 0>>
    ELSE With(LiveCount(s, net.net), LAMBDA count :
              <<1, -Badness(count, max_regs), Goodness(count, max_regs)>>)

Below(x, y) == \E k \in DOMAIN x : x[k] < y[k] /\ \A j \in 1 .. k - 1 : x[j] = y[j]
Greatest(keys) == With(keys, LAMBDA of : CHOOSE i \in DOMAIN of : \A j \in DOMAIN of : ~Below(of[i], of[j]))

ToSpare(s, max_regs, thresholds) ==
    With(LiveCount(s, NoChange), LAMBDA count :
         UsedGprs(count, max_regs) <= thresholds.heuristic /\ count["Pred"] < max_regs["Pred"])

Ready(unit, graph, s) ==
    { i \in DOMAIN unit.code \ Range(s.order) : graph.uses[i] \subseteq Range(s.order) }

Picked(unit, graph, s, max_regs, thresholds) ==
    LET Distance(i) == <<graph.toEnd[i], i>> IN
    IF ToSpare(s, max_regs, thresholds) THEN Greatest([i \in Ready(unit, graph, s) |-> Distance(i)])
    ELSE Greatest([i \in Ready(unit, graph, s) |->
             With(NetLive(unit, s.seen, i), LAMBDA net : Score(net, s, max_regs, thresholds)) \o Distance(i)])

Placed(unit, s, i, max_regs, thresholds) ==
    With(NetLive(unit, s.seen, i), LAMBDA net :
    LET uses == InstrUses(unit.code[i])
        killed == s.live \ InstrDefs(unit.code[i])
        new == (uses \cap Tracked(unit)) \ s.seen
    IN  IF PeakGprs(net, s, max_regs) > thresholds.quit THEN [s EXCEPT !.quit = TRUE]
        ELSE With([s EXCEPT !.order = <<i>> \o @, !.live = killed \cup new, !.seen = @ \cup new], LAMBDA after :
             [after EXCEPT !.stuck = \/ @ \/ ~(uses \ new \subseteq killed) \/ new \cap killed # {}
                                     \/ UsedGprs(LiveCount(after, NoChange), max_regs)
                                        # UsedGprs(LiveCount(s, net.net), max_regs)]))

GenerateOrder(unit, max_regs, thresholds) ==
    With(DepGraph(unit.code), LAMBDA graph :
         ThroughDomain(LAMBDA s, k :
             IF s.quit THEN s
             ELSE With(Picked(unit, graph, s, max_regs, thresholds), LAMBDA i : Placed(unit, s, i, max_regs, thresholds)),
             [order |-> <<>>, live |-> unit.live_out, seen |-> {}, quit |-> FALSE, stuck |-> FALSE], unit.code))

(* sched_buffer: "If our accounting is correct, it should match live_in".  *)
SchedBuffer(unit, max_regs, thresholds) ==
    With(GenerateOrder(unit, max_regs, thresholds), LAMBDA s :
         [order |-> s.order, quit |-> s.quit,
          stuck |-> s.stuck \/ (~s.quit /\ LiveCount(s, NoChange) # unit.live_in_count)])

-----------------------------------------------------------------------------
(* First pass: a unit for every block, and the pressure of the original    *)
(* order.  Phis and the branch keep their places.                          *)
Course(live, blocks, b) ==
    ThroughDomain(LAMBDA acc, ip :
        With(InsertTopDown(live, blocks, b, ip, Last(acc.lives)), LAMBDA step :
             [lives |-> Append(acc.lives, step.after), highs |-> Append(acc.highs, step.high)]),
        [lives |-> << live.live_in[b] >>, highs |-> <<>>], blocks[b])

UnitOf(live, blocks, b, max_regs) ==
    LET block == blocks[b]
        FirstOr(ips) == Min(ips \cup {Len(block) + 1})
        start == FirstOr({ ip \in DOMAIN block : block[ip].op # "phidsts" })
        end == FirstOr({ ip \in DOMAIN block : block[ip].op \in {"phisrcs", "bra"} })
    IN  With(Course(live, blocks, b), LAMBDA course :
        LET Used(ips) == { Larger(UsedGprs(course.highs[ip], max_regs), Outputs(block[ip], "GPR")) : ip \in ips } IN
             [before |-> SubSeq(block, 1, start - 1),
              code |-> SubSeq(block, start, end - 1),
              after |-> SubSeq(block, end, Len(block)),
              live_in_count |-> [f \in Files |-> Count(course.lives[start], f)],
              live_out |-> course.lives[end],
              peak |-> Max({0} \cup Used(start .. end - 1)),
              most |-> Max({1} \cup Used(DOMAIN block)),
              fixed |-> Max({1} \cup Used({ ip \in DOMAIN block : block[ip].op \in BarrierOps }))])

(* get_schedule_types, from the fewest registers to the most: the limits   *)
(* at which occupancy falls, up to the first that the original order is    *)
(* within.                                                                 *)
RegLimit(n) == [spill |-> FALSE, limit |-> n]
Spill == [spill |-> TRUE, limit |-> 0]

RECURSIVE ScheduleTypes(_, _, _)
ScheduleTypes(target, most, max_regs) ==
    CASE target >= max_regs["GPR"] ->
            <<RegLimit(max_regs["GPR"] - SwReservedGprs)>>
            \o (IF most > max_regs["GPR"] THEN <<Spill>> ELSE <<>>)
      [] target < max_regs["GPR"] /\ target >= most -> <<RegLimit(target)>>
      [] OTHER -> <<RegLimit(target)>> \o ScheduleTypes(CliffBesides(target + 1), most, max_regs)

Thresholds(type, unit, max_regs) ==
    IF type.spill THEN [heuristic |-> max_regs["GPR"] - SwReservedGprsSpill - TargetFree, quit |-> unit.peak]
    ELSE [heuristic |-> type.limit - TargetFree, quit |-> type.limit]

-----------------------------------------------------------------------------
(* The second pass, a unit a step: when a unit has no order within the     *)
(* limit, the next limit holds from there on.                              *)
NoOrder == <<>>

Prepared(live, blocks, max_regs) ==
    With([b \in DOMAIN blocks |-> UnitOf(live, blocks, b, max_regs)], LAMBDA units :
    LET Most(of(_)) == Max({ of(units[b]) : b \in DOMAIN units }) IN
         [units |-> units, max_regs |-> max_regs, at |-> 1, stuck |-> FALSE,
          types |-> ScheduleTypes(CliffBesides(Most(LAMBDA u : u.fixed)), Most(LAMBDA u : u.most), max_regs),
          orders |-> [b \in DOMAIN blocks |-> NoOrder],
          tried |-> [b \in DOMAIN blocks |-> RegLimit(0)]])

(* Mutant: an order that failed replaces one that did not.                 *)
ScheduledInAnyCase(s, b) ==
    With(SchedBuffer(s.units[b], s.max_regs, Thresholds(Head(s.types), s.units[b], s.max_regs)), LAMBDA result :
         [s EXCEPT !.tried[b] = Head(s.types), !.stuck = @ \/ result.stuck, !.orders[b] = result.order])

(* ScheduleUnit::schedule                                                  *)
Scheduled(s, b) ==
    With(SchedBuffer(s.units[b], s.max_regs, Thresholds(Head(s.types), s.units[b], s.max_regs)), LAMBDA result :
         [s EXCEPT !.tried[b] = Head(s.types), !.stuck = @ \/ result.stuck,
                   !.orders[b] = IF result.quit THEN @ ELSE result.order])

SecondPass(s) ==
    IF s.units[s.at].code = <<>> THEN [s EXCEPT !.at = @ + 1]
    ELSE With(Scheduled(s, s.at), LAMBDA tried :
              IF tried.orders[s.at] = NoOrder /\ Len(s.types) > 1 THEN [tried EXCEPT !.types = Tail(@)]
              ELSE [tried EXCEPT !.at = @ + 1])

(* The third pass: what was ordered under a smaller limit is ordered       *)
(* again, and the orders are applied.                                      *)
ThirdPass(s) ==
    ThroughDomain(LAMBDA acc, b :
        IF acc.units[b].code # <<>> /\ acc.tried[b] # Head(acc.types) THEN Scheduled(acc, b) ELSE acc, s, s.units)

Applied(unit, order) ==
    unit.before \o (IF order = NoOrder THEN unit.code ELSE [k \in DOMAIN order |-> unit.code[order[k]]]) \o unit.after

(* "Our liveness calculations should ideally agree with SimpleLiveness":   *)
(* no more is live than the limit allows.                                  *)
ScheduledBlocks(s, live, cfg) ==
    With(ThirdPass(s), LAMBDA last :
    With([b \in DOMAIN last.units |-> Applied(last.units[b], last.orders[b])], LAMBDA blocks :
         [blocks |-> blocks,
          stuck |-> \/ last.stuck
                    \/ \E b \in DOMAIN last.units : Len(blocks[b]) # Len(last.units[b].before \o last.units[b].code \o last.units[b].after)
                    \/ ~Head(last.types).spill /\ CalcMaxLive(live, blocks, cfg)["GPR"] > Head(last.types).limit]))
=============================================================================
