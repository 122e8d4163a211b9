---------------------------- MODULE NeededValues ----------------------------
(***************************************************************************)
(* What opt_dce.rs ought to keep, of all blocks at once: what effects use  *)
(* and what that is made of, through phis and around loops.                *)
(***************************************************************************)
EXTENDS DeadCode

(* What is really wanted: the least set that has what effects use and is   *)
(* closed under what its members are made of.                              *)
Makers(blocks, v) ==
    UNION { { blocks[b][ip] : ip \in { i \in DOMAIN blocks[b] : v \in InstrDefs(blocks[b][i]) } } : b \in DOMAIN blocks }

PhiSourcesOf(blocks, phi) ==
    UNION { UNION { { blocks[b][ip].srcs[k][1] : k \in { j \in DOMAIN blocks[b][ip].phis : blocks[b][ip].phis[j] = phi } } :
                    ip \in { i \in DOMAIN blocks[b] : blocks[b][i].op = "phisrcs" } } : b \in DOMAIN blocks }

MadeOf(blocks, v) ==
    UNION { CASE i.op = "phidsts" ->
                    UNION { PhiSourcesOf(blocks, i.phis[k]) : k \in { j \in DOMAIN i.dsts : i.dsts[j][1] = v } }
              [] i.op = "parcopy" -> UNION { Range(i.srcs[k]) : k \in { j \in DOMAIN i.dsts : i.dsts[j][1] = v } }
              [] OTHER -> InstrUses(i) : i \in Makers(blocks, v) }

RECURSIVE Needed(_, _)
Needed(blocks, found) ==
    LET more == found \cup { v \in UNION { MadeOf(blocks, w) : w \in found } : IsSsa(v) }
    IN  IF more = found THEN found ELSE Needed(blocks, more)

HasEffect(instr) == instr.op \in Effects /\ instr.pred # Never
EffectInstrs(block) == SelectSeq(block, HasEffect)
NeededBy(blocks) ==
    Needed(blocks, UNION { UNION { InstrUses(i) : i \in Range(EffectInstrs(blocks[b])) } : b \in DOMAIN blocks })
=============================================================================
