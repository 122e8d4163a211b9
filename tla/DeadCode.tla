------------------------------ MODULE DeadCode ------------------------------
(***************************************************************************)
(* crates/deko-nak/src/opt_dce.rs: what an instruction that must stay      *)
(* depends on is marked, from the last block to the first, until a sweep   *)
(* marks nothing more; what is not marked goes.                            *)
(*                                                                         *)
(* A pass is a record: the values and phis that are live, the block that   *)
(* is swept next, whether this sweep has marked anything (new_live) and    *)
(* whether the last sweep is over.                                         *)
(***************************************************************************)
EXTENDS Dataflow

CONSTANT Effects    \* the operations that cannot be eliminated

NewPass(n) == [ssa |-> {}, phi |-> {}, next |-> n, new_live |-> FALSE, done |-> FALSE]

IsDstLive(pass, vec) == \E v \in Range(vec) : v \in pass.ssa
IsInstrLive(pass, instr) ==
    /\ instr.pred # Never
    /\ instr.op \in Effects \/ \E k \in DOMAIN instr.dsts : IsDstLive(pass, instr.dsts[k])

(* The sources, phi by phi or copy by copy, whose value is wanted.         *)
WantedSources(pass, instr) ==
    CASE instr.op = "phisrcs" -> { k \in DOMAIN instr.srcs : instr.phis[k] \in pass.phi }
      [] instr.op = "parcopy" -> { k \in DOMAIN instr.srcs : IsDstLive(pass, instr.dsts[k]) }
      [] OTHER -> IF IsInstrLive(pass, instr) THEN DOMAIN instr.srcs ELSE {}

WantedPhis(pass, instr) ==
    IF instr.op # "phidsts" THEN {}
    ELSE { instr.phis[k] : k \in { j \in DOMAIN instr.dsts : IsDstLive(pass, instr.dsts[j]) } }

(* mark_instr; insert tells whether the value was new.                     *)
MarkInstr(pass, instr) ==
    LET values == (UNION { { v \in Range(instr.srcs[k]) : IsSsa(v) } : k \in WantedSources(pass, instr) })
                  \cup IF IsInstrLive(pass, instr) THEN instr.pred ELSE {}
        phis == WantedPhis(pass, instr)
    IN  [pass EXCEPT !.ssa = @ \cup values, !.phi = @ \cup phis,
                     !.new_live = @ \/ ~(values \subseteq pass.ssa) \/ ~(phis \subseteq pass.phi)]

(* Mutant: one sweep is thought to be enough.                              *)
AfterOneSweep(pass, n) == [pass EXCEPT !.done = TRUE]

(* At the end of a sweep: another one, or not.                             *)
AfterSweep(pass, n) ==
    IF pass.new_live THEN [pass EXCEPT !.next = n, !.new_live = FALSE] ELSE [pass EXCEPT !.done = TRUE]

MarkBlock(pass, blocks) ==
    With(Through(MarkInstr, pass, Reverse(blocks[pass.next])), LAMBDA p :
    With([p EXCEPT !.next = @ - 1], LAMBDA q : IF q.next = 0 THEN AfterSweep(q, Len(blocks)) ELSE q))

(* map_instr: phis and copies lose their dead parts, others go as a whole. *)
Part(seq, ks) == [k \in DOMAIN ks |-> seq[ks[k]]]
KeptParts(instr, ks) ==
    [instr EXCEPT !.phis = IF @ = <<>> THEN @ ELSE Part(@, ks),
                  !.srcs = IF @ = <<>> THEN @ ELSE Part(@, ks),
                  !.dsts = IF @ = <<>> THEN @ ELSE Part(@, ks)]

KeptIndices(pass, instr) ==
    LET parts == IF instr.op = "phisrcs" THEN instr.srcs ELSE instr.dsts IN
    SelectSeq([k \in DOMAIN parts |-> k],
              LAMBDA k : IF instr.op = "phisrcs" THEN instr.phis[k] \in pass.phi
                         ELSE IsDstLive(pass, instr.dsts[k]))

MapInstr(pass, instr) ==
    IF instr.op \notin {"phisrcs", "phidsts", "parcopy"}
    THEN IF IsInstrLive(pass, instr) THEN <<instr>> ELSE <<>>
    ELSE IF KeptIndices(pass, instr) = <<>> THEN <<>>
    ELSE << KeptParts(instr, KeptIndices(pass, instr)) >>

Remaining(pass, blocks) ==
    [b \in DOMAIN blocks |-> FlattenSeq([ip \in DOMAIN blocks[b] |-> MapInstr(pass, blocks[b][ip])])]
=============================================================================
