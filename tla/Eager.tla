-------------------------------- MODULE Eager --------------------------------
(***************************************************************************)
(* Evaluation in a given order: loops and local variables of the code, as  *)
(* folds whose intermediate results TLC computes once.                     *)
(***************************************************************************)
EXTENDS SequencesExt, FiniteSetsExt

(* Op applied to a value that is computed once.                            *)
With(value, Op(_)) == CHOOSE result \in { Op(v) : v \in {value} } : TRUE

(* Op applied from left to right, each result computed once.               *)
Through(Op(_, _), start, seq) == FoldLeft(LAMBDA acc, x : With(acc, LAMBDA a : Op(a, x)), start, seq)
ThroughDomain(Op(_, _), start, seq) == Through(Op, start, [k \in DOMAIN seq |-> k])

(* A set as a sequence: in some order, and in a given one.                 *)
Listed(set) == FoldSet(LAMBDA x, seq : Append(seq, x), <<>>, set)
Ordered(set, Before(_, _)) == SortSeq(Listed(set), Before)
=============================================================================
