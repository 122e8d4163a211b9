------------------------------- MODULE NextUse -------------------------------
(***************************************************************************)
(* crates/deko-nak/src/liveness.rs: NextUseLiveness, which tells of every  *)
(* value of some files where it is used next, counted in instructions from *)
(* the start of the block.  A use behind the end of the block is counted   *)
(* along the shortest way.                                                 *)
(*                                                                         *)
(* `uses[b][v]` is the set of places where block b uses v; at most one of  *)
(* them is behind its end.                                                 *)
(***************************************************************************)
EXTENDS Liveness

Least(places) == CHOOSE p \in places : \A q \in places : p <= q

ValuesOf(blocks, files) ==
    { v \in UNION { BlockUses(blocks[b]) \cup BlockDefs(blocks[b]) : b \in DOMAIN blocks } : v[1] \in files }

UsesInBlock(blocks, files) ==
    [b \in DOMAIN blocks |-> [v \in ValuesOf(blocks, files) |->
        { ip \in DOMAIN blocks[b] : v \in InstrUses(blocks[b][ip]) }]]

(* join: what the successors want, unless they define it.                  *)
SuccessorUses(uses, blocks, succ, v) ==
    { Least(uses[s][v]) : s \in { t \in Range(succ) : v \notin BlockDefs(blocks[t]) /\ uses[t][v] # {} } }

(* transfer                                                                *)
Transfer(uses, blocks, cfg, b) ==
    [v \in DOMAIN uses[b] |->
        LET beyond == SuccessorUses(uses, blocks, cfg.succ[b], v)
            within == { u \in uses[b][v] : u <= Len(blocks[b]) }
        IN  within \cup (IF beyond = {} THEN {} ELSE {Len(blocks[b]) + Least(beyond)})]

RECURSIVE SolvedUses(_, _, _)
SolvedUses(uses, blocks, cfg) ==
    With([b \in DOMAIN blocks |-> Transfer(uses, blocks, cfg, b)], LAMBDA next :
         IF next = uses THEN uses ELSE SolvedUses(next, blocks, cfg))

NextUses(blocks, cfg, files) == With(UsesInBlock(blocks, files), LAMBDA uses : SolvedUses(uses, blocks, cfg))

-----------------------------------------------------------------------------
(* NextUseBlockLiveness, of a block that defines `defs`.                   *)
UsesOf(uses, v) == IF v \in DOMAIN uses THEN uses[v] ELSE {}
FirstUse(uses, v) == Least(UsesOf(uses, v))
UsesFrom(uses, v, ip) == { u \in UsesOf(uses, v) : u >= ip }
NextUseAfterOrAt(uses, v, ip) == Least(UsesFrom(uses, v, ip))
IsLiveAfterIp(uses, v, ip) == \E u \in UsesOf(uses, v) : u > ip
LiveInValues(uses, defs) == { v \in DOMAIN uses \ defs : uses[v] # {} }
=============================================================================
