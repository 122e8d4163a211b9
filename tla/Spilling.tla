------------------------------ MODULE Spilling ------------------------------
(***************************************************************************)
(* crates/deko-nak/src/spill_values.rs: values of one register file that   *)
(* do not fit move to another, predicates to GPRs and GPRs to memory, and  *)
(* come back where they are used.  The blocks are walked in order; then    *)
(* what is resident and what is spilled at both ends of every edge is made *)
(* to agree.  The result is not in SSA form (see RepairSsa).               *)
(*                                                                         *)
(* A pass `sp` has the file, the number of registers it may use, the uses  *)
(* by NextUse and those in loops, the constants met so far, the phis whose *)
(* destination is spilled, for each block that is over the state at its    *)
(* start and end, the rewritten code and whether an assertion has failed.  *)
(* A state is the set w of the values in registers and the set s of those  *)
(* that have been spilled.  (Nothing is pinned: no code makes an OpPin.)   *)
(***************************************************************************)
EXTENDS NextUse, Legalize

-----------------------------------------------------------------------------
(* Values that stand for another: the spilled form of a value (get_spill)  *)
(* and, after the repair, its versions.                                    *)
Derived(f, v, n) == <<f, <<0, v, n>>>>
IsDerived(v) == Len(v[2]) = 3 /\ v[2][1] = 0
Base(v) == IF IsSsa(v) /\ IsDerived(v) THEN v[2][2] ELSE v
Version(v) == IF IsDerived(v) THEN v[2][3] ELSE 0

SpillFile(f) == IF f = "Pred" THEN "GPR" ELSE "Mem"
Spilled(v) == Derived(SpillFile(v[1]), Base(v), Version(v))

Carry(op, dst, src) == [op |-> op, pred |-> {}, dsts |-> << <<dst>> >>, srcs |-> << <<src>> >>, phis |-> <<>>]

(* SpillPred selects between two numbers and compares with zero; SpillGPR  *)
(* copies, and an immediate goes to memory in a parallel copy.             *)
SpillOp(f, src) ==
    IF f = "Pred" THEN IF IsSsa(src) THEN "spill" ELSE "copy"
    ELSE IF IsSsa(src) THEN "copy" ELSE "parcopy"
SpillOf(consts, v) ==
    LET src == ConstantOr(consts, v) IN Carry(SpillOp(v[1], src), Spilled(v), src)
FillOf(consts, v) ==
    IF v \in DOMAIN consts THEN Carry("copy", v, consts[v])
    ELSE Carry(IF v[1] = "Pred" THEN "fill" ELSE "copy", v, Spilled(v))

-----------------------------------------------------------------------------
OfFile(sp, values) == { v \in values : v[1] = sp.file }
HasFile(sp, v) == v[1] = sp.file

(* The uses inside a loop and the loops in it.                             *)
LoopUses(blocks, cfg, f) ==
    LET headers == { cfg.lph[b] : b \in 1 .. cfg.size } \ {Unset}
        own == [h \in headers |-> { v \in UNION { BlockUses(blocks[b]) : b \in { c \in 1 .. cfg.size : cfg.lph[c] = h } } : v[1] = f }]
        Outer(h) == IF h = 1 THEN Unset ELSE cfg.lph[cfg.dom[h]]
    IN  Through(LAMBDA uses, h : IF Outer(h) = Unset THEN uses ELSE [uses EXCEPT ![Outer(h)] = @ \cup uses[h]],
                own, Ordered(headers, LAMBDA a, b : a > b))

NewSpilling(blocks, cfg, f, limit) ==
    [file |-> f, limit |-> limit, uses |-> NextUses(blocks, cfg, {f}), loop |-> LoopUses(blocks, cfg, f),
     consts |-> <<>>, phis |-> {}, in |-> <<>>, out |-> <<>>, code |-> <<>>, stuck |-> FALSE]

-----------------------------------------------------------------------------
(* What is in registers at the start of a block.                           *)
ByFirstUse(uses, values) == Ordered(values, LAMBDA v, w : FirstUse(uses, v) < FirstUse(uses, w))

(* The first of a list, as long as there is room.                          *)
FilledUp(w, list, limit) ==
    Through(LAMBDA acc, v : IF Cardinality(acc) < limit THEN acc \cup {v} ELSE acc, w, list)

PhiDestinations(sp, block) == OfFile(sp, UNION { InstrDefs(i) : i \in { j \in Range(block) : j.op = "phidsts" } })

HeaderW(sp, b, block, live_in) ==
    LET all == live_in \cup PhiDestinations(sp, block)
        inside == ByFirstUse(sp.uses[b], all \cap sp.loop[b])
        outside == ByFirstUse(sp.uses[b], all \ sp.loop[b])
    IN  FilledUp(FilledUp({}, inside, sp.limit), outside, sp.limit)

(* A value that a phi of the block reads counts as what the phi makes.     *)
PhiRead(block, v) ==
    UNION { { i.phis[k] : k \in { j \in DOMAIN i.srcs : i.srcs[j] = <<v>> } } :
            i \in { j \in Range(block) : j.op = "phisrcs" } }
PhiMade(block, phi) ==
    UNION { { i.dsts[k][1] : k \in { j \in DOMAIN i.phis : i.phis[j] = phi } } :
            i \in { j \in Range(block) : j.op = "phidsts" } }

Arriving(blocks, b, p, w) ==
    { IF PhiRead(blocks[p], v) = {} THEN v
      ELSE CHOOSE d \in UNION { PhiMade(blocks[b], phi) : phi \in PhiRead(blocks[p], v) } : TRUE : v \in w }
ArrivesNowhere(sp, blocks, b, p) ==
    \E v \in sp.out[p].w : PhiRead(blocks[p], v) # {}
                           /\ UNION { PhiMade(blocks[b], phi) : phi \in PhiRead(blocks[p], v) } = {}

JoinW(sp, blocks, b, preds) ==
    LET arriving == [p \in Range(preds) |-> { v \in Arriving(blocks, b, p, sp.out[p].w) : UsesOf(sp.uses[b], v) # {} }]
        everywhere == { v \in UNION Range(arriving) : \A p \in Range(preds) : v \in arriving[p] }
    IN  FilledUp(everywhere, ByFirstUse(sp.uses[b], UNION Range(arriving) \ everywhere), sp.limit)

IsLoopHeader(cfg, b) == cfg.lph[b] = b

StartW(sp, blocks, cfg, b, live_in) ==
    LET preds == cfg.pred[b] IN
    CASE preds = <<>> -> {}
      [] Len(preds) = 1 -> sp.out[preds[1]].w \cap live_in
      [] Len(preds) > 1 /\ IsLoopHeader(cfg, b) -> HeaderW(sp, b, blocks[b], live_in)
      [] OTHER -> JoinW(sp, blocks, b, preds)

(* What is spilled there; a loop header has to say so of all it leaves out. *)
StartS(sp, cfg, b, live_in, w) ==
    LET before == { p \in Range(cfg.pred[b]) : p < b }
        spilled == UNION { sp.out[p].s : p \in before } \cap live_in
    IN  IF IsLoopHeader(cfg, b) THEN spilled \cup (live_in \ w) ELSE spilled

(* The cases the code stops in: a join it has not seen all predecessors    *)
(* of, or a phi that is not one of this block.                             *)
CannotStart(sp, blocks, cfg, b) ==
    LET preds == cfg.pred[b] IN
    \/ Len(preds) = 1 /\ IsLoopHeader(cfg, b)
    \/ Len(preds) > 1 /\ ~IsLoopHeader(cfg, b)
       /\ \E p \in Range(preds) : p >= b \/ ArrivesNowhere(sp, blocks, b, p)
-----------------------------------------------------------------------------
(* SpillChooser: of the candidates the instruction does not use itself,    *)
(* `count` of those that are used last.  (Among values used at the same    *)
(* distance, the code takes those with the greater number.)                *)
Chosen(uses, ip, candidates, count) ==
    With(Ordered({ v \in candidates : NextUseAfterOrAt(uses, v, ip) > ip },
                 LAMBDA v, w : NextUseAfterOrAt(uses, v, ip) > NextUseAfterOrAt(uses, w, ip)), LAMBDA order :
         { order[k] : k \in { j \in DOMAIN order : j <= count } })
Unchoosable(uses, ip, candidates) == \E v \in candidates : UsesFrom(uses, v, ip) = {}

(* Mutant: what an instruction makes takes the place of what it reads,     *)
(* whether that is still needed or not.                                    *)
PressureOfExcess(sp, b, ip, instr) ==
    Larger(0, Cardinality(OfFile(sp, InstrDefs(instr))) - Cardinality(OfFile(sp, InstrUses(instr))))

(* get_instr_pressure: by how much an instruction raises the number of     *)
(* live values.                                                            *)
InstrPressure(sp, b, ip, instr) ==
    LET raised == Cardinality(OfFile(sp, SsaOf(Vectors(instr.dsts))))
        killed == Cardinality({ v \in OfFile(sp, InstrUses(instr)) : ~IsLiveAfterIp(sp.uses[b], v, ip) })
        after == raised - killed + Cardinality(OfFile(sp, SsaOf(Scalars(instr.dsts))))
    IN  Larger(0, Larger(raised, after))

(* insert_instr_top_down                                                   *)
AfterInstr(sp, b, ip, instr, w) ==
    LET Dead(values) == { v \in values : ~IsLiveAfterIp(sp.uses[b], v, ip) }
        below == (w \cup OfFile(sp, SsaOf(Vectors(instr.dsts)))) \ Dead(InstrUses(instr))
    IN  (below \cup OfFile(sp, SsaOf(Scalars(instr.dsts)))) \ Dead(InstrDefs(instr))

-----------------------------------------------------------------------------
(* The instructions of block b.  `acc` has the state, the code so far, the *)
(* constants, the spilled phis and the failures.                           *)
Emitted(acc, instrs) == [acc EXCEPT !.code = @ \o instrs]

(* Phis of what is not in registers make the spilled form.                 *)
SpillPhiDsts(sp, acc, instr) ==
    LET out == { k \in DOMAIN instr.dsts : HasFile(sp, instr.dsts[k][1]) /\ instr.dsts[k][1] \notin acc.w }
    IN  Emitted([acc EXCEPT !.phis = @ \cup { instr.phis[k] : k \in out },
                            !.s = @ \cup { instr.dsts[k][1] : k \in out }],
                << [instr EXCEPT !.dsts = [k \in DOMAIN @ |-> IF k \in out THEN <<Spilled(@[k][1])>> ELSE @[k]]] >>)

(* A copy of a parallel copy goes from one spilled value to another; what  *)
(* has no spilled form yet gets one.                                       *)
SpillCopy(acc, k) ==
    LET src == acc.instr.srcs[k][1]
        dst == acc.instr.dsts[k][1]
    IN  [acc EXCEPT !.code = IF src \in acc.s THEN @ ELSE Append(@, SpillOf(acc.consts, src)),
                    !.s = @ \cup {src, dst},
                    !.instr.srcs[k] = <<Spilled(src)>>, !.instr.dsts[k] = <<Spilled(dst)>>]

SpillParCopy(sp, b, acc, ip, instr) ==
    LET uses == sp.uses[b]
        ours == SelectSeq([k \in DOMAIN instr.srcs |-> k], LAMBDA k : HasFile(sp, instr.srcs[k][1]))
        away == SelectSeq(ours, LAMBDA k : instr.srcs[k][1] \notin acc.w)
        resident == Len(ours) - Len(away)
        Killed(values) == { v \in values : ~IsLiveAfterIp(uses, v, ip) }
        Dsts(i) == { i.dsts[k][1] : k \in { j \in DOMAIN i.dsts : HasFile(sp, i.dsts[j][1]) } }
        Spill(a, ks) == Through(SpillCopy, a, ks)
    IN  With(Spill([acc EXCEPT !.stuck = @ \/ \E k \in Range(away) :
                        instr.srcs[k][1] \notin acc.s /\ instr.srcs[k][1] \notin DOMAIN acc.consts]
                   @@ [instr |-> instr], away), LAMBDA moved :
        With(acc.w \ Killed(SsaOf(moved.instr.srcs)), LAMBDA w :
        With(IF resident <= sp.limit - Cardinality(w) THEN {}
             ELSE Chosen(uses, ip, Dsts(moved.instr), resident - (sp.limit - Cardinality(w))), LAMBDA chosen :
        With(Spill(moved, SelectSeq(ours, LAMBDA k : moved.instr.dsts[k][1] \in chosen)), LAMBDA done :
             [w |-> w \cup Dsts(done.instr), s |-> done.s, consts |-> acc.consts, phis |-> acc.phis,
              stuck |-> done.stuck \/ Cardinality(w) > sp.limit \/ Unchoosable(uses, ip, Dsts(moved.instr)),
              code |-> Append(done.code, done.instr)]))))

(* Everything else: what it uses is filled; if there is no room for that   *)
(* and for what it makes, others are spilled before.                       *)
SpillOther(sp, b, acc, ip, instr) ==
    LET uses == sp.uses[b]
        missing == Listed(OfFile(sp, InstrUses(instr)) \ acc.w)
    IN  With(acc.w \cup Range(missing), LAMBDA w :
        With(Cardinality(w) + InstrPressure(sp, b, ip, instr) - sp.limit, LAMBDA over :
        With(IF over <= 0 THEN {} ELSE Chosen(uses, ip, w, over), LAMBDA chosen :
        With(Listed(chosen \ DOMAIN acc.consts), LAMBDA out :
             Emitted([acc EXCEPT !.w = AfterInstr(sp, b, ip, instr, w \ chosen), !.s = @ \cup Range(out),
                                 !.stuck = @ \/ (over > 0 /\ Unchoosable(uses, ip, w))
                                             \/ \E v \in Range(missing) : v \notin acc.s /\ v \notin DOMAIN acc.consts],
                     [k \in DOMAIN out |-> SpillOf(acc.consts, out[k])]
                     \o [k \in DOMAIN missing |-> FillOf(acc.consts, missing[k])] \o <<instr>>)))))

SpillInstr(sp, b, acc, ip, instr) ==
    CASE instr.op = "phidsts" -> SpillPhiDsts(sp, acc, instr)
      [] instr.op = "phisrcs" -> Emitted(acc, <<instr>>)
      [] instr.op = "parcopy" -> SpillParCopy(sp, b, acc, ip, instr)
      [] OTHER -> SpillOther(sp, b, [acc EXCEPT !.consts = AddCopy(@, instr)], ip, instr)

SpillBlock(sp, blocks, cfg, b) ==
    IF CannotStart(sp, blocks, cfg, b) THEN [sp EXCEPT !.stuck = TRUE]
    ELSE
    With(LiveInValues(sp.uses[b], BlockDefs(blocks[b])), LAMBDA live_in :
    With(StartW(sp, blocks, cfg, b, live_in), LAMBDA w :
    With([w |-> w, s |-> StartS(sp, cfg, b, live_in, w)], LAMBDA start :
    With(ThroughDomain(LAMBDA acc, ip : SpillInstr(sp, b, acc, ip, blocks[b][ip]),
                       [w |-> w, s |-> start.s, consts |-> sp.consts, phis |-> sp.phis, code |-> <<>>,
                        stuck |-> sp.stuck \/ ~(live_in \subseteq w \cup start.s \cup DOMAIN sp.consts)],
                       blocks[b]), LAMBDA acc :
         [sp EXCEPT !.in = Append(@, start), !.out = Append(@, [w |-> acc.w, s |-> acc.s]),
                    !.code = Append(@, acc.code), !.consts = acc.consts, !.phis = acc.phis,
                    !.stuck = acc.stuck]))))

-----------------------------------------------------------------------------
(* The edges out of block p: what a successor expects to be spilled is     *)
(* spilled, what it expects in a register is filled, and the sources of    *)
(* spilled phis are spilled values.                                        *)
PhiSourcesIn(sp, block) ==
    UNION { { <<i.phis[k], i.srcs[k][1]>> : k \in { j \in DOMAIN i.srcs : HasFile(sp, i.srcs[j][1]) } } :
            i \in { j \in Range(block) : j.op = "phisrcs" } }

EdgeSpills(sp, block, p, succs) ==
    ({ x[2] : x \in { y \in PhiSourcesIn(sp, block) : y[1] \in sp.phis } }
     \cup UNION { sp.in[s].s : s \in succs }) \ sp.out[p].s

(* A fill, and the successors it is for.                                   *)
EdgeFills(sp, blocks, p, succs) ==
    ({ <<x[2], CHOOSE s \in succs : PhiMade(blocks[s], x[1]) # {}>> :
         x \in { y \in PhiSourcesIn(sp, sp.code[p]) : y[1] \notin sp.phis } }
     \cup UNION { { <<v, s>> : v \in sp.in[s].w \ PhiDestinations(sp, blocks[s]) } : s \in succs })
    \ { <<v, s>> : v \in sp.out[p].w, s \in succs }

(* A fill for one of two successors has the predicate of the branch.       *)
FillOnEdge(sp, pred, fills, v) ==
    [FillOf(sp.consts, v) EXCEPT !.pred = IF Cardinality({ x \in fills : x[1] = v }) = 1 THEN pred ELSE {}]

SpillSources(sp, instr) ==
    IF instr.op # "phisrcs" THEN instr
    ELSE [instr EXCEPT !.srcs = [k \in DOMAIN @ |->
            IF HasFile(sp, @[k][1]) /\ instr.phis[k] \in sp.phis THEN <<Spilled(@[k][1])>> ELSE @[k]]]

(* They go before the phi sources, or the branch, or at the end.           *)
PlaceAtEnd(block, instrs) ==
    LET phi == { ip \in DOMAIN block : block[ip].op = "phisrcs" }
        branch == { ip \in DOMAIN block : block[ip].op = "bra" }
        ip == IF phi # {} THEN Least(phi) ELSE IF branch # {} THEN Least(branch) ELSE Len(block) + 1
    IN  SubSeq(block, 1, ip - 1) \o instrs \o SubSeq(block, ip, Len(block))

ConnectEdges(sp, blocks, cfg, p) ==
    LET succs == Range(cfg.succ[p])
        pred == IF Cardinality(succs) > 1 THEN Last(sp.code[p]).pred ELSE {}
    IN  With(EdgeSpills(sp, sp.code[p], p, succs), LAMBDA spills :
        With(EdgeFills(sp, blocks, p, succs), LAMBDA fills :
             [sp EXCEPT !.code[p] = PlaceAtEnd([ip \in DOMAIN @ |-> SpillSources(sp, @[ip])],
                            [k \in 1 .. Cardinality(spills) |-> SpillOf(sp.consts, Listed(spills)[k])]
                            \o With(Listed({ x[1] : x \in fills }), LAMBDA order :
                                    [k \in DOMAIN order |-> FillOnEdge(sp, pred, fills, order[k])])),
                        !.stuck = @ \/ \E v \in UNION { sp.in[s].s : s \in succs } \ sp.out[p].s :
                                          v \notin sp.out[p].w /\ v \notin DOMAIN sp.consts]))
=============================================================================
