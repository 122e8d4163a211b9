------------------------------ MODULE Legalize ------------------------------
(***************************************************************************)
(* crates/deko-nak/src/legalize.rs: what the register allocator asks of    *)
(* every instruction (what SM50 asks of each opcode is left out).  Vectors *)
(* that an instruction reads are the same or share nothing; a copy takes   *)
(* the place of a component that is wanted twice.                          *)
(*                                                                         *)
(* `l` is the instruction under legalisation: the instruction, the copies  *)
(* before it, the vectors already seen with what became of them            *)
(* (vec_src_map), their components (vec_comps), the constants of           *)
(* ConstTracker and the number of the next new value.                      *)
(***************************************************************************)
EXTENDS Liveness

CopyOf(f, n) == <<f, <<n, "legal">>>>

(* ConstTracker                                                            *)
AddCopy(consts, instr) ==
    IF instr.op = "copy" /\ ~IsSsa(instr.srcs[1][1])
    THEN (instr.dsts[1][1] :> instr.srcs[1][1]) @@ consts ELSE consts
ConstantOr(consts, v) == IF v \in DOMAIN consts THEN consts[v] ELSE v

(* copy_to of a LegalizeBuilder.                                           *)
CopyTo(l, dst, src) ==
    [l EXCEPT !.copies = Append(@, [op |-> "copy", pred |-> {}, dsts |-> << <<dst>> >>,
                                    srcs |-> << <<ConstantOr(l.consts, src)>> >>, phis |-> <<>>])]

(* Mutant: only vectors before this one are looked at.                     *)
LegalComponentOfOthers(l, c) ==
    LET v == l.vec[c] IN
    IF v \notin UNION { Range(vec) : vec \in DOMAIN l.same } THEN [l EXCEPT !.comps = @ \cup {v}]
    ELSE [CopyTo(l, CopyOf(v[1], l.n), v) EXCEPT !.vec[c] = CopyOf(v[1], l.n), !.n = @ + 1]

LegalComponent(l, c) ==
    LET v == l.vec[c] IN
    IF v \notin l.comps THEN [l EXCEPT !.comps = @ \cup {v}]
    ELSE [CopyTo(l, CopyOf(v[1], l.n), v) EXCEPT !.vec[c] = CopyOf(v[1], l.n), !.n = @ + 1]

LegalVector(l, k) ==
    LET vec == l.instr.srcs[k] IN
    IF Len(vec) = 1 THEN l
    ELSE IF vec \in DOMAIN l.same THEN [l EXCEPT !.instr.srcs[k] = l.same[vec]]
    ELSE With(ThroughDomain(LegalComponent, [l EXCEPT !.vec = vec], vec), LAMBDA m :
              [m EXCEPT !.same = (vec :> m.vec) @@ @, !.instr.srcs[k] = m.vec])

(* legalize_instr, after the copy instruction itself has been recorded.    *)
LegalizeInstr(consts, n, instr) ==
    ThroughDomain(LegalVector,
                  [instr |-> instr, copies |-> <<>>, same |-> <<>>, comps |-> {}, vec |-> <<>>,
                   consts |-> AddCopy(consts, instr), n |-> n],
                  instr.srcs)

LegalizeBlock(acc, block) ==
    With(Through(LAMBDA a, instr :
            With(LegalizeInstr(a.consts, a.n, instr), LAMBDA l :
                 [consts |-> l.consts, n |-> l.n, code |-> a.code \o Append(l.copies, l.instr)]),
            [consts |-> acc.consts, n |-> acc.n, code |-> <<>>], block), LAMBDA a :
         [consts |-> a.consts, n |-> a.n, blocks |-> Append(acc.blocks, a.code)])

Legalized(blocks) == Through(LegalizeBlock, [consts |-> <<>>, n |-> 1, blocks |-> <<>>], blocks).blocks
-----------------------------------------------------------------------------
(* A value, by what it is a copy of.                                       *)
AllCopies(blocks) == { i \in UNION { Range(blocks[b]) : b \in DOMAIN blocks } : i.op = "copy" }
RECURSIVE CopiedFrom(_, _)
CopiedFrom(copies, v) ==
    LET of == { i \in copies : i.dsts[1][1] = v }
    IN  IF of = {} THEN v ELSE CopiedFrom(copies, (CHOOSE i \in of : TRUE).srcs[1][1])

(* What can be given neighbouring registers at once.                       *)
Placeable(instr) ==
    \A k \in DOMAIN instr.srcs : Len(instr.srcs[k]) > 1 =>
        /\ Cardinality(Range(instr.srcs[k])) = Len(instr.srcs[k])
        /\ \A j \in DOMAIN instr.srcs : Len(instr.srcs[j]) > 1 =>
              instr.srcs[j] = instr.srcs[k] \/ Range(instr.srcs[j]) \cap Range(instr.srcs[k]) = {}
=============================================================================
