------------------------------- MODULE Delays -------------------------------
(***************************************************************************)
(* calc_delays (calc_instr_deps.rs): how many cycles pass between two      *)
(* instructions.  Cycles are counted backwards from the end of a block.    *)
(* What the code after a block still needs is found by data flow: for each *)
(* register the reads ("r"), reads as a guard ("g") and writes ("w") that  *)
(* come, by instruction, each with the cycles until it.                    *)
(***************************************************************************)
EXTENDS PostSchedule

LatencyUpperBound == 14     \* ShaderModel50::latency_upper_bound
SignalLatency == 2          \* until a barrier that is set can be waited for

(* Blocks start where a label is, or behind a branch, and go by their      *)
(* first instruction.                                                      *)
IsStart(code, labels, ip) == ip = 1 \/ ip \in labels \/ IsBranch(code[ip - 1])
Starts(code, labels) == {ip \in DOMAIN code : IsStart(code, labels, ip)}
BlockEnd(code, labels, ip) ==
    Min({end \in ip .. Len(code) : end = Len(code) \/ IsStart(code, labels, end + 1)})

(* The last block that starts before an instruction, 0 for none.           *)
BlockBefore(code, labels, ip) == Greatest({b \in Starts(code, labels) : b < ip})

(* A branch may lead to any block, other blocks lead to the next.          *)
Preds(code, labels, b) ==
    {pred \in Starts(code, labels) :
        LET end == BlockEnd(code, labels, pred) IN IsBranch(code[end]) \/ end + 1 = b}

NoUses == [r \in Registers |-> <<>>]
With0(uses, key) == [k \in DOMAIN uses \union {key} |-> IF k = key THEN 0 ELSE uses[k]]
Add(uses, regs, kind, ip) ==
    [r \in Registers |-> IF r \in regs THEN With0(uses[r], <<kind, ip>>) ELSE uses[r]]
SetWrite(uses, regs, ip) ==
    [r \in Registers |-> IF r \in regs THEN [key \in {<<"w", ip>>} |-> 0] ELSE uses[r]]

(* The state of the pass.  For each block the uses at its start and end;   *)
(* the cycle of each instruction; the block that the first round visits    *)
(* next, 0 after it, and the blocks to visit again; the block being        *)
(* visited, 0 for none, with its next instruction from the end, the cycle  *)
(* reached, the uses there and the cycles in which barriers are waited     *)
(* for; and the predecessors that the block visited last has yet to tell.  *)
Unsolved(code, labels, bars) ==
    [ins |-> [b \in Starts(code, labels) |-> NoUses],
     out |-> [b \in Starts(code, labels) |-> NoUses],
     cycles |-> [ip \in DOMAIN code |-> 0],
     next |-> BlockBefore(code, labels, Len(code) + 1), worklist |-> <<>>,
     block |-> 0, last |-> 0, at |-> 0, cycle |-> 0, uses |-> NoUses,
     bars |-> [bar \in bars |-> 0],
     from |-> 0, joins |-> {}]

Idling(flow) == flow.block = 0 /\ flow.joins = {}
Solved(flow) == Idling(flow) /\ flow.next = 0 /\ flow.worklist = <<>>

Visit(code, labels, flow, b) ==
    [flow EXCEPT !.block = b, !.last = BlockEnd(code, labels, b), !.at = BlockEnd(code, labels, b),
                 !.cycle = 0, !.uses = flow.out[b], !.bars = [bar \in DOMAIN @ |-> 0]]

(* BackwardDataflow::solve: once through all blocks from the last, then    *)
(* those whose successors have changed.                                    *)
EnterBlock(code, labels, flow) ==
    IF flow.next # 0 THEN Visit(code, labels, flow, flow.next)
    ELSE Visit(code, labels, [flow EXCEPT !.worklist = Tail(@)], Head(flow.worklist))

(* dependency_to_cycle: the cycle in which the instruction must start for  *)
(* a use that comes later in the block, or some cycles behind its end.     *)
ToCycle(flow, key, delay, latency) ==
    IF key[2] \in flow.at + 1 .. flow.last THEN flow.cycles[key[2]] + latency
    ELSE Greatest({latency - delay})

Overwritten(flow, instr) ==
    UNION {{ToCycle(flow, key, flow.uses[r][key],
                    IF key[1] = "g" THEN PawLatency ELSE InstrLatency(instr, r)) :
                key \in DOMAIN flow.uses[r]} : r \in instr.dsts}

(* An instruction that writes what it reads meets its own write here.      *)
ReadBefore(flow, written, instr) ==
    UNION {{ToCycle(flow, key, written[r][key], WarLatency) :
                key \in {key \in DOMAIN written[r] : key[1] = "w"}} : r \in instr.srcs}

MinStart(flow, written, instr, dep) ==
    Max({flow.cycle + ExecLatency(instr)}
        \union {flow.bars[bar] + SignalLatency : bar \in {dep.rd, dep.wr} \ {0}}
        \union Overwritten(flow, instr)
        \union ReadBefore(flow, written, instr))

ProcessInstr(code, deps, flow) ==
    LET ip == flow.at
        written == SetWrite(flow.uses, code[ip].dsts, ip)
        start == MinStart(flow, written, code[ip], deps[ip])
    IN  [flow EXCEPT
            !.uses = Add(Add(written, code[ip].pred, "g", ip), code[ip].srcs, "r", ip),
            !.cycle = start,
            !.cycles[ip] = start,
            !.bars = [bar \in DOMAIN @ |-> IF bar \in deps[ip].wait THEN start ELSE @[bar]],
            !.at = ip - 1]

(* Mutant: also the instructions of the block before the use are counted   *)
(* that come before it only in the next iteration.                         *)
AgeWholeBlock(flow, uses) ==
    [key \in {key \in DOMAIN uses : uses[key] + flow.cycle <= LatencyUpperBound} |->
        uses[key] + flow.cycle]

(* The cycles from the start of the block; what is too far away to matter  *)
(* is dropped.                                                             *)
Age(flow, uses) ==
    LET Executed(key) ==
            uses[key] + flow.cycle
                - (IF key[2] \in flow.block .. flow.last THEN flow.cycles[key[2]] ELSE 0)
    IN  [key \in {key \in DOMAIN uses : Executed(key) <= LatencyUpperBound} |-> Executed(key)]

LeaveBlock(code, labels, flow) ==
    LET left == flow.block
        aged == [r \in Registers |-> Age(flow, flow.uses[r])]
    IN  [flow EXCEPT
            !.ins[left] = aged,
            !.next = IF @ = left THEN BlockBefore(code, labels, left) ELSE @,
            !.block = 0,
            !.from = left,
            !.joins = IF flow.next = left \/ aged # flow.ins[left] THEN Preds(code, labels, left) ELSE {}]

Nearest(uses, other) ==
    [key \in DOMAIN uses \union DOMAIN other |->
        Min((IF key \in DOMAIN uses THEN {uses[key]} ELSE {})
            \union (IF key \in DOMAIN other THEN {other[key]} ELSE {}))]

PushBack(worklist, b) ==
    IF b \in Range(worklist) THEN worklist ELSE Append(worklist, b)

(* What the first round has yet to visit need not be visited again.        *)
JoinPred(flow) ==
    LET pred == Min(flow.joins)
    IN  [flow EXCEPT
            !.out[pred] = [r \in Registers |-> Nearest(@[r], flow.ins[flow.from][r])],
            !.worklist = IF pred > flow.next THEN PushBack(@, pred) ELSE @,
            !.joins = @ \ {pred}]

(* The cycles an instruction takes before the next one is issued.          *)
DelaysOf(code, labels, flow) ==
    [ip \in DOMAIN code |->
        Max({1, flow.cycles[ip] -
                 (IF ip = BlockEnd(code, labels, ip) THEN 0 ELSE flow.cycles[ip + 1])})]
-----------------------------------------------------------------------------
(* What a delay is for.  The instructions that may be issued between i and *)
(* j: those between them, or those up to a branch and from where it leads. *)
(* Over two branches nothing can be too near: each takes ExecLatency, 13,  *)
(* and no latency is above LatencyUpperBound, 14.                          *)
Paths(code, labels, i, j) ==
    {path \in {i + 1 .. j - 1} : i < j}
    \union {(i + 1 .. branch) \union (start .. j - 1) :
              branch \in {k \in i .. Len(code) : IsBranch(code[k])},
              start \in {k \in Starts(code, labels) : k <= j}}

(* The cycles that must pass, if nothing on the path takes the register or *)
(* the barrier over.                                                       *)
Needed(code, deps, i, j, path) ==
    LET Own(regs) == {r \in regs : \A k \in path : r \notin code[k].dsts}
        Set == {deps[i].rd, deps[i].wr} \intersect deps[j].wait
    IN  {InstrLatency(code[i], r) : r \in Own(code[i].dsts \intersect (code[j].srcs \union code[j].dsts))}
        \union {PawLatency : r \in Own(code[i].dsts \intersect code[j].pred)}
        \union {WarLatency : r \in Own(code[i].srcs \intersect code[j].dsts)}
        \union {SignalLatency : bar \in {bar \in Set : \A k \in path : bar \notin deps[k].wait}}

Elapsed(delays, i, path) == SumFunctionOnSet(delays, path \union {i})

EnoughCycles(code, labels, deps, delays) ==
    \A i, j \in DOMAIN code : \A path \in Paths(code, labels, i, j) :
        \A cycles \in Needed(code, deps, i, j, path) : cycles <= Elapsed(delays, i, path)
=============================================================================
