---------------------------- MODULE PostSchedule ----------------------------
(***************************************************************************)
(* Instruction scheduling after register allocation                        *)
(* (opt_instr_sched_postpass.rs): the dependence graph of a block, and the *)
(* order that list scheduling from the end of the block makes of it.  The  *)
(* latencies are those of SM50 and only decide among orders.               *)
(***************************************************************************)
EXTENDS Integers, SequencesExt, FiniteSetsExt, Eager

CONSTANTS
    Registers,      \* register components of every file
    Predicates      \* those of the predicate file

ASSUME PredicatesAssumption == Predicates \subseteq Registers

Memory == {"ld", "st"}
Scoreboarded == Memory \union {"mufu", "dsetp"}
Branches == {"bra"}
InstructionSet ==
    [op : Scoreboarded \union Branches \union {"mov", "isetp"},
     pred : SUBSET Registers, srcs : SUBSET Registers, dsts : SUBSET Registers]

OpNeedsScoreboard(instr) == instr.op \in Scoreboarded
IsBranch(instr) == instr.op \in Branches

ExecLatency(instr) == IF IsBranch(instr) THEN 13 ELSE 1
InstrLatency(instr, r) ==
    CASE r \in Predicates -> IF instr.op = "dsetp" THEN 14 ELSE 13
      [] r \notin Predicates -> 6
WarLatency == 4
PawLatency == 13
EstimateVariableLatency(instr) ==
    CASE instr.op \in Memory -> 32
      [] instr.op = "mufu" -> 15
      [] instr.op = "dsetp" -> 54
      [] ~OpNeedsScoreboard(instr) -> 0

Greatest(set) == Max(set \union {0})
-----------------------------------------------------------------------------
(* generate_dep_graph.  The walk goes backwards, so at instruction i the   *)
(* tracker knows for a register the first write after i and the reads up   *)
(* to that one.                                                            *)

Between(i, j) == i + 1 .. j - 1

IsReader(block, i, j, r) == \A k \in Between(i, j) : r \notin block[k].dsts

IsNextWrite(block, i, j, r) ==
    r \in block[j].dsts /\ IsReader(block, i, j, r)

Signalled(instr, latency) == IF OpNeedsScoreboard(instr) THEN Max({latency, 2}) ELSE latency

WriteAfterWrite(block, i, j) ==
    {Signalled(block[i], InstrLatency(block[i], r)) :
        r \in {r \in block[i].dsts : IsNextWrite(block, i, j, r)}}

ReadAfterWrite(block, i, j) ==
    {Max({InstrLatency(block[i], r), EstimateVariableLatency(block[i])}) :
        r \in {r \in block[i].dsts \intersect block[j].srcs : IsReader(block, i, j, r)}}

GuardAfterWrite(block, i, j) ==
    {Max({PawLatency, EstimateVariableLatency(block[i])}) :
        r \in {r \in block[i].dsts \intersect block[j].pred : IsReader(block, i, j, r)}}

WriteAfterRead(block, i, j) ==
    {Signalled(block[i], WarLatency) :
        r \in {r \in block[i].srcs : IsNextWrite(block, i, j, r)}}

IsBarrier(block, i) == IsBranch(block[i])
IsMemory(block, i) == block[i].op \in Memory

Serialized(block, i, j) ==
    \/ /\ IsBarrier(block, i) \/ IsBarrier(block, j)
       /\ \A k \in Between(i, j) : ~IsBarrier(block, k)
    \/ /\ IsMemory(block, i) /\ IsMemory(block, j)
       /\ \A k \in Between(i, j) : ~IsMemory(block, k)

(* Mutant: a write may overtake the last read before it.                   *)
LatenciesWithoutReads(block, i, j) ==
    WriteAfterWrite(block, i, j) \union ReadAfterWrite(block, i, j)
        \union GuardAfterWrite(block, i, j)
        \union (IF Serialized(block, i, j) THEN {0} ELSE {})

(* The latencies of the edges from i to j.                                 *)
Latencies(block, i, j) ==
    WriteAfterWrite(block, i, j) \union ReadAfterWrite(block, i, j)
        \union GuardAfterWrite(block, i, j) \union WriteAfterRead(block, i, j)
        \union (IF Serialized(block, i, j) THEN {0} ELSE {})

(* Edges between instructions, by their latency; the cycle in which an     *)
(* instruction is ready, counted from the end of the block.                *)
DepGraph(block) ==
    [edges |-> {<<e[1], e[2], Max(Latencies(block, e[1], e[2]))>> : e \in
                  {e \in (DOMAIN block) \X (DOMAIN block) :
                      e[1] < e[2] /\ Latencies(block, e[1], e[2]) # {}}},
     ready |-> [i \in DOMAIN block |->
                  Greatest({InstrLatency(block[i], r) : r \in block[i].dsts} \union
                    {EstimateVariableLatency(block[i]) + ExecLatency(Last(block))})]]

Uses(graph, i) == {e[2] : e \in {e \in graph.edges : e[1] = i}}

(* calc_statistics: the latest path from an instruction to the end.        *)
CyclesToEnd(block, graph) ==
    LET toEnd[i \in DOMAIN block] ==
            Greatest({toEnd[e[2]] + e[3] : e \in {e \in graph.edges : e[1] = i}})
    IN  toEnd
-----------------------------------------------------------------------------
(* generate_order.  An instruction waits, from the moment all its uses are *)
(* placed, for its cycle, and is then taken by its distance to the end.    *)

Earliest(block, state, i) == Greatest({state.ready[i] - ExecLatency(block[i])})
ReadyInstrs(block, state) == {i \in state.waiting : Earliest(block, state, i) <= state.cycle}

FastForward(block, state) ==
    IF ReadyInstrs(block, state) # {} THEN state
    ELSE [state EXCEPT !.cycle = Min({Earliest(block, state, i) : i \in state.waiting})]

Prior(block, toEnd, i, j) ==
    LET Key(k) == toEnd[k] + ExecLatency(block[k])
    IN  Key(i) > Key(j) \/ (Key(i) = Key(j) /\ i >= j)

(* The next instruction to place, from the end of the block.               *)
IsNext(block, state, i) ==
    /\ i \in ReadyInstrs(block, state)
    /\ \A j \in ReadyInstrs(block, state) : Prior(block, state.toEnd, i, j)

Place(block, state, next) ==
    LET cycle == state.cycle + ExecLatency(block[next])
        order == <<next>> \o state.order
        Into(i) == {e[3] : e \in {e \in state.edges : e[1] = i /\ e[2] = next}}
        Released == {i \in DOMAIN block : Into(i) # {} /\ Uses(state, i) \subseteq Range(order)}
    IN  [state EXCEPT
            !.cycle = cycle,
            !.order = order,
            !.ready = [i \in DOMAIN block |->
                          Max({state.ready[i]} \union {cycle + latency : latency \in Into(i)})],
            !.waiting = (@ \ {next}) \union Released]

Start(block) ==
    LET graph == DepGraph(block)
    IN  [edges |-> graph.edges, toEnd |-> CyclesToEnd(block, graph), cycle |-> 0,
         order |-> <<>>, ready |-> graph.ready,
         waiting |-> {i \in DOMAIN block : Uses(graph, i) = {}}]

(* The block in the new order, which names its instructions by index.      *)
InOrder(block, order) == [k \in DOMAIN order |-> block[order[k]]]
=============================================================================
