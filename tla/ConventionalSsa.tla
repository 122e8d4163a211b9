--------------------------- MODULE ConventionalSsa --------------------------
(***************************************************************************)
(* crates/deko-nak/src/to_cssa.rs: copies are put around phis until no two *)
(* values that a phi connects interfere.                                   *)
(*                                                                         *)
(* A graph has nodes, sorted by dominance, and sets of them.  A node is an *)
(* SSA value at its definition or a phi at the start of the block that     *)
(* defines it or the end of one that feeds it.                             *)
(***************************************************************************)
EXTENDS Liveness

AtEnd == 1000   \* usize::MAX: greater than the place of any instruction
Temporary(f, n) == <<f, <<n, "cssa">>>>

PhiDsts(block) == SelectSeq(block, LAMBDA i : i.op = "phidsts")
PhiSrcs(block) == SelectSeq(block, LAMBDA i : i.op = "phisrcs")

-----------------------------------------------------------------------------
(* The nodes, in the order they are added: for each block its phi          *)
(* destinations, then its phi sources, each value once.                    *)
PhiNode(b, place, phi) == [block |-> b, place |-> place, phi |-> {phi}, ssa |-> {}]
SsaNode(blocks, v) ==
    [block |-> DefOf(blocks, v)[1], place |-> DefOf(blocks, v)[2], phi |-> {}, ssa |-> {v}]

AddSsa(blocks, nodes, v) ==
    IF ~IsSsa(v) \/ \E k \in DOMAIN nodes : nodes[k].ssa = {v} THEN nodes
    ELSE Append(nodes, SsaNode(blocks, v))

AddPhis(blocks, b, nodes, instrs, place) ==
    Through(LAMBDA ns, i :
        ThroughDomain(LAMBDA ms, k :
            Append(AddSsa(blocks, ms, IF place = 0 THEN i.dsts[k][1] ELSE i.srcs[k][1]),
                   PhiNode(b, place, i.phis[k])),
            ns, i.phis),
        nodes, instrs)

AllNodes(blocks) ==
    ThroughDomain(LAMBDA ns, b :
        With(AddPhis(blocks, b, ns, PhiDsts(blocks[b]), 0), LAMBDA ms :
             AddPhis(blocks, b, ms, PhiSrcs(blocks[b]), AtEnd)),
        <<>>, blocks)

(* Sorted by the dominance of their blocks, then by place; stable.         *)
Before(cfg, nodes, j, k) ==
    LET a == nodes[j]
        b == nodes[k]
    IN  \/ cfg.pre[a.block] < cfg.pre[b.block]
        \/ a.block = b.block /\ (a.place < b.place \/ (a.place = b.place /\ j < k))

Sorted(cfg, nodes) ==
    With(Ordered(DOMAIN nodes, LAMBDA j, k : Before(cfg, nodes, j, k)), LAMBDA order :
         [k \in DOMAIN order |-> nodes[order[k]]])

(* init_sets: a set for each value and each phi.  Set k is called after    *)
(* its first node; a phi's other nodes belong to that set, but the set     *)
(* lists only the first.                                                   *)
FirstOf(nodes, k) ==
    CHOOSE j \in 1 .. k : /\ nodes[j].phi = nodes[k].phi /\ nodes[j].ssa = nodes[k].ssa
                          /\ \A i \in 1 .. j - 1 : nodes[i].phi # nodes[k].phi \/ nodes[i].ssa # nodes[k].ssa

Graph(cfg, blocks) ==
    With(Sorted(cfg, AllNodes(blocks)), LAMBDA nodes :
         [nodes |-> nodes,
          set |-> [k \in DOMAIN nodes |-> FirstOf(nodes, k)],
          sets |-> [k \in DOMAIN nodes |-> IF FirstOf(nodes, k) = k THEN <<k>> ELSE <<>>]])

SsaSet(g, v) == g.set[CHOOSE k \in DOMAIN g.nodes : g.nodes[k].ssa = {v}]
(* Any node would do; the code keeps the first.                            *)
PhiSet(g, phi) ==
    g.set[CHOOSE k \in DOMAIN g.nodes : g.nodes[k].phi = {phi} /\ FirstOf(g.nodes, k) = k]

-----------------------------------------------------------------------------
NodeDominates(cfg, p, c) ==
    IF p.block = c.block THEN p.place <= c.place ELSE Dominates(cfg, p.block, c.block)

PhiSsaInterferes(live, phi, ssa) ==
    \E v \in ssa.ssa :
        IF phi.place = 0 THEN v \in live.live_in[phi.block] ELSE v \in live.live_out[phi.block]

(* Mutant: a value does not interfere with the temporary of a phi.         *)
NodesInterfereSsaOnly(live, blocks, a, b) ==
    CASE a.ssa # {} /\ b.ssa # {} -> \E v \in a.ssa, w \in b.ssa : Interferes(live, blocks, v, w)
      [] OTHER -> FALSE

NodesInterfere(live, blocks, a, b) ==
    CASE a.ssa # {} /\ b.ssa # {} -> \E v \in a.ssa, w \in b.ssa : Interferes(live, blocks, v, w)
      [] a.ssa # {} /\ b.ssa = {} -> PhiSsaInterferes(live, b, a)
      [] a.ssa = {} /\ b.ssa # {} -> PhiSsaInterferes(live, a, b)
      [] OTHER -> a.block = b.block /\ a.place = b.place

(* MergedIter: both, in order, and what is in both twice.                  *)
MergedIter(s, t) ==
    With(s \o t, LAMBDA u :
    With(Ordered(DOMAIN u, LAMBDA j, k : u[j] < u[k] \/ (u[j] = u[k] /\ j < k)), LAMBDA order :
         [k \in DOMAIN order |-> u[order[k]]]))

(* sets_interfere: down the dominance order, each node against the nearest *)
(* one that dominates it.                                                  *)
RECURSIVE PopUndominating(_, _, _, _)
PopUndominating(cfg, nodes, dom, n) ==
    IF dom = <<>> \/ NodeDominates(cfg, nodes[Last(dom)], nodes[n]) THEN dom
    ELSE PopUndominating(cfg, nodes, Front(dom), n)

SetsInterfere(live, blocks, cfg, g, a, b) ==
    Through(LAMBDA acc, n :
        With(PopUndominating(cfg, g.nodes, acc.dom, n), LAMBDA dom :
             [dom |-> Append(dom, n),
              found |-> acc.found \/
                  (dom # <<>> /\ NodesInterfere(live, blocks, g.nodes[n], g.nodes[Last(dom)]))]),
        [dom |-> <<>>, found |-> FALSE], MergedIter(g.sets[a], g.sets[b])).found

SetsMerge(g, a, b) ==
    [g EXCEPT !.set = [k \in DOMAIN g.set |->
                          IF k \in Range(g.sets[a]) \cup Range(g.sets[b]) THEN a ELSE g.set[k]],
              !.sets = [g.sets EXCEPT ![b] = <<>>, ![a] = MergedIter(g.sets[a], g.sets[b])]]

-----------------------------------------------------------------------------
(* to_cssa, through the blocks in order.  cv.g is the graph, cv.fresh the  *)
(* next SSA value, cv.out what the block has become so far.                *)
FileOfPhi(blocks, phi) ==
    CHOOSE f \in Files : \E b \in DOMAIN blocks : \E i \in Range(PhiDsts(blocks[b])) :
        \E k \in DOMAIN i.phis : i.phis[k] = phi /\ i.dsts[k][1][1] = f

Copies(op, srcs, dsts) == [op |-> op, pred |-> {}, srcs |-> srcs, dsts |-> dsts, phis |-> <<>>]

(* What happens to one operand, v, of a phi: nothing (its set joins the    *)
(* phi's), or a temporary takes its place.                                 *)
Operand(live, blocks, cfg, cv, phi, v) ==
    IF SetsInterfere(live, blocks, cfg, cv.g, PhiSet(cv.g, phi), SsaSet(cv.g, v))
    THEN [cv |-> [cv EXCEPT !.fresh = @ + 1], v |-> Temporary(FileOfPhi(blocks, phi), cv.fresh)]
    ELSE [cv |-> [cv EXCEPT !.g = SetsMerge(cv.g, PhiSet(cv.g, phi), SsaSet(cv.g, v))], v |-> v]

(* acc.instr is the phi, acc.copies its parallel copy: pairs of values.    *)
ConvertDst(live, blocks, cfg, acc, k) ==
    LET v == acc.instr.dsts[k][1] IN
    With(Operand(live, blocks, cfg, acc.cv, acc.instr.phis[k], v), LAMBDA operand :
         IF operand.v = v THEN [acc EXCEPT !.cv = operand.cv]
         ELSE [cv |-> operand.cv, instr |-> [acc.instr EXCEPT !.dsts[k] = <<operand.v>>],
               copies |-> Append(acc.copies, <<v, operand.v>>)])

SameFile(blocks, phi, v) == v[1] = FileOfPhi(blocks, phi)

(* An immediate or a value of another file gets a copy of its own.         *)
ConvertForeign(blocks, acc, k) ==
    LET tmp == Temporary(FileOfPhi(blocks, acc.instr.phis[k]), acc.cv.fresh) IN
    [acc EXCEPT !.instr.srcs[k] = <<tmp>>,
                !.cv.fresh = @ + 1,
                !.cv.out = Append(@, Copies("copy", <<acc.instr.srcs[k]>>, << <<tmp>> >>))]

ConvertSrc(live, blocks, cfg, acc, k) ==
    LET v == acc.instr.srcs[k][1] IN
    IF ~SameFile(blocks, acc.instr.phis[k], v) THEN ConvertForeign(blocks, acc, k)
    ELSE With(Operand(live, blocks, cfg, acc.cv, acc.instr.phis[k], v), LAMBDA operand :
         IF operand.v = v THEN [acc EXCEPT !.cv = operand.cv]
         ELSE [cv |-> operand.cv, instr |-> [acc.instr EXCEPT !.srcs[k] = <<operand.v>>],
               copies |-> Append(acc.copies, <<operand.v, v>>)])

ParallelCopy(copies) ==
    IF copies = <<>> THEN <<>>
    ELSE << Copies("parcopy", [k \in DOMAIN copies |-> <<copies[k][2]>>],
                              [k \in DOMAIN copies |-> <<copies[k][1]>>]) >>

ConvertInstr(live, blocks, cfg, cv, instr) ==
    CASE instr.op = "phidsts" ->
            With(ThroughDomain(LAMBDA acc, k : ConvertDst(live, blocks, cfg, acc, k),
                               [cv |-> cv, instr |-> instr, copies |-> <<>>], instr.phis), LAMBDA acc :
                 [acc.cv EXCEPT !.out = @ \o <<acc.instr>> \o ParallelCopy(acc.copies)])
      [] instr.op = "phisrcs" ->
            With(ThroughDomain(LAMBDA acc, k : ConvertSrc(live, blocks, cfg, acc, k),
                               [cv |-> cv, instr |-> instr, copies |-> <<>>], instr.phis), LAMBDA acc :
                 [acc.cv EXCEPT !.out = @ \o ParallelCopy(acc.copies) \o <<acc.instr>>])
      [] OTHER -> [cv EXCEPT !.out = Append(@, instr)]

(* All blocks; `fresh` is the first number no SSA value has.               *)
Converted(live, blocks, cfg, fresh) ==
    ThroughDomain(LAMBDA acc, b :
        With(Through(LAMBDA cv, instr : ConvertInstr(live, blocks, cfg, cv, instr),
                     [g |-> acc.g, fresh |-> acc.fresh, out |-> <<>>], blocks[b]), LAMBDA cv :
             [g |-> cv.g, fresh |-> cv.fresh, blocks |-> Append(acc.blocks, cv.out)]),
        [g |-> Graph(cfg, blocks), fresh |-> fresh, blocks |-> <<>>], blocks)
-----------------------------------------------------------------------------
(* No two of the values a phi connects interfere, by liveness `live` of    *)
(* the converted blocks.                                                   *)
ConnectedBy(blocks, phi) ==
    { v \in UNION { UNION { LET vs == IF i.op = "phidsts" THEN i.dsts ELSE i.srcs IN
                           { vs[k][1] : k \in { j \in DOMAIN i.phis : i.phis[j] = phi } } :
                           i \in Range(PhiDsts(blocks[b])) \cup Range(PhiSrcs(blocks[b])) } :
                       b \in DOMAIN blocks } : IsSsa(v) }
PhisOf(blocks) ==
    UNION { UNION { Range(i.phis) : i \in Range(PhiDsts(blocks[b])) } : b \in DOMAIN blocks }

Conventional(live, blocks) ==
    \A phi \in PhisOf(blocks) : \A v, w \in ConnectedBy(blocks, phi) :
        v # w => ~Interferes(live, blocks, v, w)
=============================================================================
