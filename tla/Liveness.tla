------------------------------ MODULE Liveness ------------------------------
(***************************************************************************)
(* crates/deko-nak/src/liveness.rs: SimpleLiveness, once Dataflow has      *)
(* solved it, and how many values are live at once.                        *)
(***************************************************************************)
EXTENDS ControlFlow, Dataflow

(* SimpleLiveness.  `live` has what the solver found, of which live_in and *)
(* live_out are read, for the blocks it was asked about.                   *)
LastUse(block, v) ==
    LET uses == { ip \in DOMAIN block : v \in InstrUses(block[ip]) }
    IN  IF uses = {} THEN 0 ELSE CHOOSE ip \in uses : \A other \in uses : other <= ip

LiveAfter(live, blocks, b, v, ip) == v \in live.live_out[b] \/ LastUse(blocks[b], v) > ip

(* def_block_ip                                                            *)
DefOf(blocks, v) ==
    CHOOSE at \in UNION { { <<b, ip>> : ip \in DOMAIN blocks[b] } : b \in DOMAIN blocks } :
        v \in InstrDefs(blocks[at[1]][at[2]])

Interferes(live, blocks, v, w) ==
    LET vd == DefOf(blocks, v)
        wd == DefOf(blocks, w)
    IN  CASE vd = wd -> TRUE
          [] vd[1] < wd[1] \/ (vd[1] = wd[1] /\ vd[2] < wd[2]) ->
                LiveAfter(live, blocks, wd[1], v, wd[2])
          [] OTHER -> LiveAfter(live, blocks, vd[1], w, vd[2])

(* insert_instr_top_down: what is live after the instruction, and how many *)
(* values of each file at its highest point.                               *)
Vectors(dsts) == SelectSeq(dsts, LAMBDA d : Len(d) > 1)
Scalars(dsts) == SelectSeq(dsts, LAMBDA d : Len(d) = 1)
Count(values, f) == Cardinality({ v \in values : v[1] = f })
Larger(a, b) == IF a >= b THEN a ELSE b

InsertTopDown(live, blocks, b, ip, before) ==
    LET instr == blocks[b][ip]
        Dead(values) == { v \in values : ~LiveAfter(live, blocks, b, v, ip) }
    IN  With(before \cup SsaOf(Vectors(instr.dsts)), LAMBDA high :
        With((high \ Dead(InstrUses(instr))) \cup SsaOf(Scalars(instr.dsts)), LAMBDA after :
             [after |-> after \ Dead(InstrDefs(instr)),
              high |-> [f \in Files |-> Larger(Count(high, f), Count(after, f))]]))

(* calc_max_live: through a block, from what was live at the end of its    *)
(* first predecessor.  The outputs of a shader count as well.              *)
Outputs(instr, f) == IF instr.op = "regout" /\ f = "GPR" THEN Len(instr.srcs) ELSE 0

MaxLiveThrough(live, blocks, b, entered) ==
    ThroughDomain(LAMBDA acc, ip :
        With(InsertTopDown(live, blocks, b, ip, acc.after), LAMBDA step :
             [after |-> step.after,
              high |-> [f \in Files |-> Larger(acc.high[f], Larger(step.high[f], Outputs(blocks[b][ip], f)))]]),
        [after |-> entered, high |-> [f \in Files |-> 0]], blocks[b])

CalcMaxLive(live, blocks, cfg) ==
    ThroughDomain(LAMBDA acc, b :
        With(IF cfg.pred[b] = <<>> THEN {} ELSE acc.outs[cfg.pred[b][1]] \cap live.live_in[b],
             LAMBDA entered :
        With(MaxLiveThrough(live, blocks, b, entered), LAMBDA through :
             [outs |-> Append(acc.outs, through.after),
              high |-> [f \in Files |-> Larger(acc.high[f], through.high[f])]])),
        [outs |-> <<>>, high |-> [f \in Files |-> 0]], blocks).high
-----------------------------------------------------------------------------
(* What liveness means: a value is live where a path leads to a use that   *)
(* no definition of the value comes before.                                *)
ReallyLiveIn(blocks, cfg, b, v) ==
    LET passing == [c \in DOMAIN blocks |->
                       IF v \in BlockDefs(blocks[c]) THEN <<>> ELSE cfg.succ[c]]
    IN  \E c \in From(passing, {b}, {}) : UpwardExposed(blocks[c], v)

ReallyLiveOut(blocks, cfg, b, v) ==
    \E c \in Range(cfg.succ[b]) : ReallyLiveIn(blocks, cfg, c, v)
=============================================================================
