------------------------------ MODULE RepairSsa ------------------------------
(***************************************************************************)
(* crates/deko-nak/src/repair_ssa.rs: code in which some values are        *)
(* defined several times gets a version for each definition, and phis      *)
(* where versions meet.                                                    *)
(*                                                                         *)
(* A repair `r` has, for each block, the version a value has at its end as *)
(* far as that is known (defs) and the new phis, as records of the phi,    *)
(* the value it is for, its destination and its sources by predecessor;    *)
(* the blocks whose successors still want sources; the rewritten code; and *)
(* the number of the next version.                                         *)
(***************************************************************************)
EXTENDS Spilling, UnionFind

NewVersion(r, v) == Derived(v[1], Base(v), r.next)
NewPhi(r) == <<0, r.next>>

(* num_defs, of which only those above one matter.                         *)
DefinedOften(blocks) ==
    LET places == UNION { { <<b, ip>> : ip \in DOMAIN blocks[b] } : b \in DOMAIN blocks }
        Defining(v) == { at \in places : v \in InstrDefs(blocks[at[1]][at[2]]) }
    IN  { v \in UNION { BlockDefs(blocks[b]) : b \in DOMAIN blocks } : Cardinality(Defining(v)) > 1 }

-----------------------------------------------------------------------------
(* get_ssa_or_phi: the version of v at the end of block b as far as it has *)
(* been rewritten.  The worklist of the code settles the earlier blocks    *)
(* first, as the recursion does.                                           *)
Known(r, b, v) == v \in DOMAIN r.defs[b]
Settled(r, b, v, version) == [r EXCEPT !.defs[b] = (v :> version) @@ @]

Forward(cfg, b) == SelectSeq(cfg.pred[b], LAMBDA p : p < b)
HasBackEdge(cfg, b) == \E p \in Range(cfg.pred[b]) : p >= b

(* Mutant: where ways meet, the version of one of them serves.             *)
NeedsPhiInLoops(r, cfg, b, v) == HasBackEdge(cfg, b)

(* A back edge gets a phi just in case.                                    *)
NeedsPhi(r, cfg, b, v) ==
    \/ HasBackEdge(cfg, b)
    \/ Cardinality({ r.defs[p][v] : p \in Range(Forward(cfg, b)) }) > 1

(* "Undefined value"                                                       *)
Undefined(r, b, v) == [Settled(r, b, v, v) EXCEPT !.stuck = TRUE]

WithPhi(r, cfg, b, v) ==
    LET dst == NewVersion(r, v)
        phi == [phi |-> NewPhi(r), orig |-> v, dst |-> dst,
                srcs |-> [p \in Range(Forward(cfg, b)) |-> r.defs[p][v]]]
    IN  [Settled(r, b, v, dst) EXCEPT !.phis[b] = Append(@, phi), !.next = @ + 1,
                                      !.needs = @ \cup { p \in Range(cfg.pred[b]) : p >= b }]

RECURSIVE GetSsaOrPhi(_, _, _, _)
GetSsaOrPhi(r, cfg, b, v) ==
    IF Known(r, b, v) THEN r
    ELSE With(Through(LAMBDA acc, p : GetSsaOrPhi(acc, cfg, p, v), r, Forward(cfg, b)), LAMBDA before :
         IF NeedsPhi(before, cfg, b, v) THEN WithPhi(before, cfg, b, v)
         ELSE IF Forward(cfg, b) = <<>> THEN Undefined(before, b, v)
         ELSE Settled(before, b, v, before.defs[Forward(cfg, b)[1]][v]))

-----------------------------------------------------------------------------
(* An instruction: first what it reads, then what it defines.              *)
WithVersions(vectors, names) ==
    [k \in DOMAIN vectors |-> [c \in DOMAIN vectors[k] |->
        IF vectors[k][c] \in DOMAIN names THEN names[vectors[k][c]] ELSE vectors[k][c]]]
PredWithVersions(pred, names) == { IF v \in DOMAIN names THEN names[v] ELSE v : v \in pred }

DefineVersion(r, b, v) == [Settled(r, b, v, NewVersion(r, v)) EXCEPT !.next = @ + 1]

RepairInstr(r, cfg, often, b, instr) ==
    With(Through(LAMBDA acc, v : GetSsaOrPhi(acc, cfg, b, v), r, Listed(InstrUses(instr) \cap often)), LAMBDA read :
    With(Through(LAMBDA acc, v : DefineVersion(acc, b, v), read, Listed(InstrDefs(instr) \cap often)), LAMBDA made :
         [made EXCEPT !.code[b] = Append(@,
             [instr EXCEPT !.pred = PredWithVersions(@, read.defs[b]), !.srcs = WithVersions(@, read.defs[b]),
                           !.dsts = WithVersions(@, [v \in InstrDefs(instr) \cap often |-> made.defs[b][v]])])]))

RepairBlock(r, blocks, cfg, often, b) ==
    Through(LAMBDA acc, instr : RepairInstr(acc, cfg, often, b, instr), r, blocks[b])

(* The sources of phis along back edges.                                   *)
BackSource(r, cfg, b, s, k) ==
    IF b \in DOMAIN r.phis[s][k].srcs THEN r
    ELSE With(GetSsaOrPhi(r, cfg, b, r.phis[s][k].orig), LAMBDA found :
              [found EXCEPT !.phis[s][k].srcs = (b :> found.defs[b][r.phis[s][k].orig]) @@ @])

BackSources(r, cfg, b) ==
    Through(LAMBDA acc, s : ThroughDomain(LAMBDA a, k : BackSource(a, cfg, b, s, k), acc, acc.phis[s]),
            [r EXCEPT !.needs = @ \ {b}], SelectSeq(cfg.succ[b], LAMBDA s : s <= b))

RECURSIVE AllBackSources(_, _)
AllBackSources(r, cfg) ==
    IF r.needs = {} THEN r
    ELSE With(BackSources(r, cfg, Least(r.needs)), LAMBDA next : AllBackSources(next, cfg))

-----------------------------------------------------------------------------
(* Phis all whose sources are one version, or the phi itself, go.          *)
Mapped(forest, v) == Find(forest, v).representative

Distinct(forest, phi) == { Mapped(forest, phi.srcs[p]) : p \in DOMAIN phi.srcs } \ {phi.dst}

RemovePhi(acc, phi) ==
    LET from == Distinct(acc.forest, phi) IN
    IF Cardinality(from) > 1 THEN [acc EXCEPT !.kept = Append(@, phi)]
    ELSE [acc EXCEPT !.forest = Union(@, CHOOSE v \in from : TRUE, phi.dst), !.changed = TRUE]

RemovePhisOf(acc, b) ==
    With(Through(RemovePhi, [forest |-> acc.forest, changed |-> acc.changed, kept |-> <<>>], acc.phis[b]), LAMBDA a :
         [forest |-> a.forest, changed |-> a.changed, phis |-> [acc.phis EXCEPT ![b] = a.kept]])

RECURSIVE RedundantRemoved(_)
RedundantRemoved(acc) ==
    With(ThroughDomain(RemovePhisOf, [acc EXCEPT !.changed = FALSE], acc.phis), LAMBDA next :
         IF next.changed THEN RedundantRemoved(next) ELSE next)

HasLoop(cfg) == \E b \in 1 .. cfg.size : cfg.lph[b] # Unset

-----------------------------------------------------------------------------
(* What is left is placed.  Sources go into a block only if it has one     *)
(* successor ("There are no critical edges").                              *)
Halves(op, phis, srcs, dsts) == [op |-> op, pred |-> {}, srcs |-> srcs, dsts |-> dsts, phis |-> phis]

AddPhiDsts(block, phis) ==
    LET new == [k \in DOMAIN phis |-> phis[k].phi]
        dsts == [k \in DOMAIN phis |-> <<phis[k].dst>>]
        at == { ip \in DOMAIN block : block[ip].op = "phidsts" }
    IN  IF phis = <<>> THEN block
        ELSE IF at = {} THEN <<Halves("phidsts", new, <<>>, dsts)>> \o block
        ELSE [block EXCEPT ![Least(at)].phis = @ \o new, ![Least(at)].dsts = @ \o dsts]

AddPhiSrcs(block, phis, forest, b) ==
    LET new == [k \in DOMAIN phis |-> phis[k].phi]
        srcs == [k \in DOMAIN phis |-> <<Mapped(forest, phis[k].srcs[b])>>]
        at == { ip \in DOMAIN block : block[ip].op = "phisrcs" }
    IN  IF phis = <<>> THEN block
        ELSE IF at = {} THEN PlaceAtEnd(block, <<Halves("phisrcs", new, srcs, <<>>)>>)
        ELSE [block EXCEPT ![Least(at)].phis = @ \o new, ![Least(at)].srcs = @ \o srcs]

Remapped(forest, instr) ==
    [instr EXCEPT !.pred = { Mapped(forest, v) : v \in @ },
                  !.srcs = [k \in DOMAIN @ |-> [c \in DOMAIN @[k] |-> Mapped(forest, @[k][c])]]]

FinalBlock(block, b, succ, phis, forest) ==
    With(AddPhiDsts(block, phis[b]), LAMBDA withDsts :
    With([ip \in DOMAIN withDsts |-> Remapped(forest, withDsts[ip])], LAMBDA remapped :
         IF Len(succ) = 1 THEN AddPhiSrcs(remapped, phis[succ[1]], forest, b) ELSE remapped))

(* repair_ssa.  `next` is a number no version has.                         *)
Repaired(blocks, cfg, next) ==
    With(DefinedOften(blocks), LAMBDA often :
    With(AllBackSources(
            ThroughDomain(LAMBDA r, b : RepairBlock(r, blocks, cfg, often, b),
                          [defs |-> [b \in DOMAIN blocks |-> <<>>], phis |-> [b \in DOMAIN blocks |-> <<>>],
                           needs |-> {}, code |-> [b \in DOMAIN blocks |-> <<>>], next |-> next, stuck |-> FALSE],
                          blocks), cfg), LAMBDA r :
    With(IF HasLoop(cfg) THEN RedundantRemoved([forest |-> <<>>, changed |-> TRUE, phis |-> r.phis])
         ELSE [forest |-> <<>>, changed |-> FALSE, phis |-> r.phis], LAMBDA left :
         [blocks |-> [b \in DOMAIN blocks |-> FinalBlock(r.code[b], b, cfg.succ[b], left.phis, left.forest)],
          next |-> r.next, stuck |-> r.stuck])))
=============================================================================
