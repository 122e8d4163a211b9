---------------------------- MODULE MCScoreboard ----------------------------
(* Instances of Scoreboard for TLC: functions of loads, a store, fixed     *)
(* operations and a branch over two general registers and a predicate.     *)
EXTENDS Scoreboard

CONSTANTS a, b, p

Instr(op, pred, srcs, dsts) == [op |-> op, pred |-> pred, srcs |-> srcs, dsts |-> dsts]

(* A function in place; a load, one of them predicated; a store; a move; a *)
(* comparison that finishes late and one that does not; a branch.          *)
MCInstructions ==
    { Instr("mufu", {}, {a}, {a}),
      Instr("ld", {p}, {a}, {b}),
      Instr("st", {}, {a, b}, {}),
      Instr("mov", {p}, {b}, {a}),
      Instr("dsetp", {}, {a}, {p}),
      Instr("isetp", {}, {b}, {p}),
      Instr("bra", {p}, {}, {}) }

(* One block up to the first branch, or a block that falls through.        *)
MCLayouts == { {}, {3} }

(* Two conditional stores, one after the other.                            *)
ConditionalStores ==
    { Instr("isetp", {}, {a}, {p}), Instr("isetp", {}, {b}, {p}),
      Instr("st", {p}, {a, b}, {}), Instr("bra", {}, {}, {}) }
=============================================================================
