---------------------------- MODULE MCPredication ---------------------------
(* Instances of Predication for TLC: two lanes, every condition.               *)
EXTENDS Predication, TLC, FiniteSets

CONSTANTS lane1, lane2, x, zero, written, one, two, three

MCOperands == { [l \in Lanes |-> written] }
MCConditions == SUBSET Lanes

(* One lane selects what has no label, the other one of the labels.        *)
MCSelections == { s \in [Lanes -> Selectors] : Cardinality({ l \in Lanes : s[l] = three }) = 1 }

(* The first case is the default and has a label as well.                  *)
MCSwitches == { << {one, Default}, {two} >> }
NoSwitches == {}

LaneSymmetry == Permutations(Lanes)
=============================================================================
