------------------------------ MODULE Dataflow ------------------------------
(***************************************************************************)
(* crates/deko-compiler-utils/src/dataflow.rs: the worklist that solves    *)
(* liveness, and what SimpleLiveness (liveness.rs) asks it to solve.       *)
(*                                                                         *)
(* An SSA value is a pair of its register file and a number; an immediate  *)
(* is a pair too, of no file.  An instruction has a predicate (a set of at *)
(* most one value), sources and destinations (sequences of vectors of      *)
(* values) and, for the two halves of a phi, the names of the phis.        *)
(***************************************************************************)
EXTENDS Integers, SequencesExt, Eager

CONSTANT Files      \* the register files

IsSsa(v) == v[1] \in Files

(* The predicate of what is never executed: false.                         *)
Never == {<<"immediate", <<0, "immediate">>>>}
SsaOf(vectors) == { v \in UNION { Range(vectors[k]) : k \in DOMAIN vectors } : IsSsa(v) }

InstrUses(instr) == instr.pred \cup SsaOf(instr.srcs)
InstrDefs(instr) == SsaOf(instr.dsts)

BlockUses(block) == UNION { InstrUses(block[ip]) : ip \in DOMAIN block }
BlockDefs(block) == UNION { InstrDefs(block[ip]) : ip \in DOMAIN block }

-----------------------------------------------------------------------------
(* BackwardDataflow::solve.  `next` is the block of the initial pass, 0    *)
(* when that is over; then the blocks of the worklist are visited.         *)
Unsolved(n) ==
    [live_in |-> [b \in 1 .. n |-> {}], live_out |-> [b \in 1 .. n |-> {}],
     next |-> n, worklist |-> <<>>]

Solved(s) == s.next = 0 /\ s.worklist = <<>>

(* What goes into a block, by what is known to go out.                     *)
Transferred(s, blocks, b) ==
    s.live_in[b] \cup ((s.live_out[b] \cup BlockUses(blocks[b])) \ BlockDefs(blocks[b]))

(* FIFOSet::push_back.                                                     *)
PushBack(worklist, b) == IF b \in Range(worklist) THEN worklist ELSE Append(worklist, b)

(* Mutant: the initial pass is thought to have seen every other block.     *)
RevisitItself(b, p) == p = b

(* In the initial pass a predecessor whose turn is still to come need not  *)
(* be queued.                                                              *)
Revisit(b, p) == p >= b

(* The predecessors that have to be visited, in their order.               *)
Queued(worklist, preds, wanted) ==
    Through(LAMBDA queue, p : IF p \in wanted THEN PushBack(queue, p) ELSE queue, worklist, preds)

JoinInto(s, preds, live_in) ==
    [b \in DOMAIN s.live_out |->
        IF b \in Range(preds) THEN s.live_out[b] \cup live_in ELSE s.live_out[b]]

(* The initial pass at block b.                                            *)
FirstVisit(s, blocks, cfg, b) ==
    With(Transferred(s, blocks, b), LAMBDA live_in :
         [live_in |-> [s.live_in EXCEPT ![b] = live_in],
          live_out |-> JoinInto(s, cfg.pred[b], live_in),
          next |-> b - 1,
          worklist |-> Queued(s.worklist, cfg.pred[b], { p \in Range(cfg.pred[b]) : Revisit(b, p) })])

(* Mutant: the predecessors follow in any case.                            *)
RevisitedAlways(s, blocks, cfg, b) ==
    With(Transferred(s, blocks, b), LAMBDA live_in :
         [s EXCEPT !.live_in[b] = live_in,
                   !.live_out = JoinInto(s, cfg.pred[b], live_in),
                   !.worklist = Queued(Tail(@), cfg.pred[b], Range(cfg.pred[b]))])

(* The head of the worklist: its predecessors follow if it has changed.    *)
Revisited(s, blocks, cfg, b) ==
    With(Transferred(s, blocks, b), LAMBDA live_in :
         IF live_in = s.live_in[b] THEN [s EXCEPT !.worklist = Tail(@)]
         ELSE [s EXCEPT !.live_in[b] = live_in,
                        !.live_out = JoinInto(s, cfg.pred[b], live_in),
                        !.worklist = Queued(Tail(@), cfg.pred[b], Range(cfg.pred[b]))])

SolveStep(s, blocks, cfg) ==
    IF s.next # 0 THEN FirstVisit(s, blocks, cfg, s.next)
    ELSE Revisited(s, blocks, cfg, Head(s.worklist))
-----------------------------------------------------------------------------
(* A use that no definition of the value in the block comes before.        *)
UpwardExposed(block, v) ==
    \E ip \in DOMAIN block :
        /\ v \in InstrUses(block[ip])
        /\ \A before \in 1 .. ip - 1 : v \notin InstrDefs(block[before])
=============================================================================
