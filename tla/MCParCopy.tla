------------------------------ MODULE MCParCopy -----------------------------
(* Instances of ParCopy for TLC: every parallel copy between four general  *)
(* registers and a constant, and every one between three predicates and    *)
(* three memory slots with a constant each.                                *)
EXTENDS ParCopy

CONSTANTS g1, g2, g3, g4, p1, p2, p3, m1, m2, m3, word, truth

(* Renaming the registers of a file does not change what the code does, so *)
(* one order of the destinations is enough.                                *)
MCOrder == <<g1, m1, p1, g2, m2, p2, g3, m3, p3, g4>>

CopiesOf(registers) ==
    { [n \in DOMAIN order |-> [dst |-> order[n], src |-> from[order[n]]]] :
        <<order, from>> \in
           UNION { { <<SelectSeq(MCOrder, LAMBDA d : d \in dsts), from>> :
                       from \in { f \in [dsts -> Node] : \A d \in dsts : f[d] \in SourceOf(d) } } :
                   dsts \in SUBSET registers } }

MCCopies == CopiesOf(Gpr) \cup CopiesOf(Pred) \cup CopiesOf(Mem)
=============================================================================
