----------------------------- MODULE ControlFlow ----------------------------
(***************************************************************************)
(* crates/deko-compiler-utils/src/cfg.rs: the control-flow graph a         *)
(* function's blocks are put into, and what is computed of it when it is   *)
(* built: dominators and the loops.  Blocks are numbered from 1, in the    *)
(* order of the code (as_cfg(false)); edges are a sequence of pairs.       *)
(***************************************************************************)
EXTENDS Integers, FiniteSets, SequencesExt, TLC, Eager

Unset == 0      \* usize::MAX

-----------------------------------------------------------------------------
(* Depth-first search from the entry.  search.pre and search.post number the  *)
(* visits with one counter; an edge to a block that has been entered and   *)
(* not left closes a cycle.                                                *)
NotVisited(n) ==
    [pre |-> [b \in 1 .. n |-> Unset], post |-> [b \in 1 .. n |-> Unset],
     count |-> 1, back |-> <<>>]

Entered(search, b) == search.pre[b] # Unset
Left(search, b) == search.post[b] # Unset

Enter(search, b) == [search EXCEPT !.pre[b] = search.count, !.count = @ + 1]
Leave(search, b) == [search EXCEPT !.post[b] = search.count, !.count = @ + 1]

SeeEdge(search, parent, child) ==
    IF Entered(search, child) /\ ~Left(search, child)
    THEN [search EXCEPT !.back = Append(@, <<parent, child>>)] ELSE search

RECURSIVE Visit(_, _, _), VisitFrom(_, _, _, _)
Visit(children, b, search) ==
    With(VisitFrom(children, b, 1, Enter(search, b)), LAMBDA s : Leave(s, b))
VisitFrom(children, b, k, search) ==
    IF k > Len(children[b]) THEN search
    ELSE With(SeeEdge(search, b, children[b][k]), LAMBDA s :
         VisitFrom(children, b, k + 1,
                   IF Entered(s, children[b][k]) THEN s ELSE Visit(children, children[b][k], s)))

DepthFirst(children, n) == Visit(children, 1, NotVisited(n))

Targets(edges, b) == [k \in DOMAIN SelectSeq(edges, LAMBDA e : e[1] = b) |->
                        SelectSeq(edges, LAMBDA e : e[1] = b)[k][2]]
Origins(edges, b) == [k \in DOMAIN SelectSeq(edges, LAMBDA e : e[2] = b) |->
                        SelectSeq(edges, LAMBDA e : e[2] = b)[k][1]]

(* remove_unreachable: the blocks that stay, in their order.               *)
Reachable(n, edges) ==
    With(DepthFirst([b \in 1 .. n |-> Targets(edges, b)], n), LAMBDA search :
         { b \in 1 .. n : Entered(search, b) })

Kept(n, edges) == Ordered(Reachable(n, edges), LAMBDA a, b : a < b)

(* The edges between blocks that stay, by their new numbers.               *)
Renumber(kept, edges) ==
    LET number == [b \in Range(kept) |-> CHOOSE k \in DOMAIN kept : kept[k] = b]
        inside == SelectSeq(edges, LAMBDA e : e[1] \in Range(kept) /\ e[2] \in Range(kept))
    IN  [k \in DOMAIN inside |-> <<number[inside[k][1]], number[inside[k][2]]>>]

-----------------------------------------------------------------------------
(* calc_dominance.                                                         *)

(* Unset when an index runs into a block that has no dominator yet, where  *)
(* the code stops with an index out of bounds.                             *)
RECURSIVE FindCommonDom(_, _, _)
FindCommonDom(dom, a, b) ==
    CASE a = Unset \/ b = Unset -> Unset
      [] a = b -> a
      [] a > b /\ b # Unset -> FindCommonDom(dom, dom[a], b)
      [] b > a /\ a # Unset -> FindCommonDom(dom, a, dom[b])

(* The dominator by the predecessors that have one; the first counts       *)
(* whether it has one or not.                                              *)
Dominator(dom, pred) ==
    Through(LAMBDA d, p : IF dom[p] = Unset THEN d ELSE FindCommonDom(dom, d, p), pred[1], Tail(pred))

RECURSIVE Sweep(_, _, _), Dominators(_, _)
Sweep(dom, pred, b) ==
    IF b > Len(pred) THEN dom
    ELSE With([dom EXCEPT ![b] = Dominator(dom, pred[b])], LAMBDA d : Sweep(d, pred, b + 1))
Dominators(dom, pred) ==
    With(Sweep(dom, pred, 2), LAMBDA d : IF d = dom THEN d ELSE Dominators(d, pred))

DomChildren(dom, b) == SelectSeq([k \in 1 .. Len(dom) |-> k], LAMBDA c : c # 1 /\ dom[c] = b)

-----------------------------------------------------------------------------
(* detect_loops.                                                           *)

(* reaches: the blocks from which the source of a back edge can be reached *)
(* without passing its target.                                             *)
RECURSIVE Reaches(_, _, _, _)
Reaches(pred, b, stop, found) ==
    IF b = stop \/ b \in found THEN found
    ELSE Through(LAMBDA f, p : Reaches(pred, p, stop, f), found \cup {b}, pred[b])

(* Mutant: only the immediate dominator is looked at.                      *)
NearestHeaderAbove(dom, headers, b) == IF b # 1 /\ dom[b] \in headers THEN dom[b] ELSE Unset

(* The nearest dominator that is the header of a loop around b.            *)
RECURSIVE NearestHeader(_, _, _)
NearestHeader(dom, headers, b) ==
    IF b = 1 THEN Unset
    ELSE IF dom[b] \in headers THEN dom[b] ELSE NearestHeader(dom, headers, dom[b])

LoopHeader(back, pred, dom, b) ==
    IF \E k \in DOMAIN back : back[k][2] = b THEN b
    ELSE NearestHeader(dom, { back[k][2] : k \in { j \in DOMAIN back :
                                b \in Reaches(pred, back[j][1], back[j][2], {}) } }, b)

-----------------------------------------------------------------------------
(* from_blocks_edges, for n blocks of which all are reachable.             *)
Cfg(n, edges) ==
    With([succ |-> [b \in 1 .. n |-> Targets(edges, b)],
          pred |-> [b \in 1 .. n |-> Origins(edges, b)]], LAMBDA g :
    With(Dominators([b \in 1 .. n |-> IF b = 1 THEN 1 ELSE Unset], g.pred), LAMBDA dom :
    With(DepthFirst([b \in 1 .. n |-> DomChildren(dom, b)], n), LAMBDA tree :
    With(DepthFirst(g.succ, n).back, LAMBDA back :
         [size |-> n, succ |-> g.succ, pred |-> g.pred, dom |-> dom,
          pre |-> tree.pre, post |-> tree.post,
          lph |-> [b \in 1 .. n |-> LoopHeader(back, g.pred, dom, b)]]))))

Dominates(cfg, parent, child) ==
    cfg.pre[child] >= cfg.pre[parent] /\ cfg.post[child] <= cfg.post[parent]

(* What the passes take for granted of the blocks of a function: nothing   *)
(* leads back to the entry, and the first edge into any other block is     *)
(* from an earlier one ("Predecessors are added block order").             *)
InBlockOrder(n, edges) ==
    /\ Origins(edges, 1) = <<>>
    /\ \A b \in 2 .. n : Origins(edges, b) # <<>> /\ Origins(edges, b)[1] < b
-----------------------------------------------------------------------------
(* What these words mean.                                                  *)

RECURSIVE From(_, _, _)
From(succ, found, without) ==
    LET next == found \cup (UNION { Range(succ[b]) : b \in found } \ without)
    IN  IF next = found THEN found ELSE From(succ, next, without)

(* Every path from the entry to child passes through parent.               *)
MustPass(cfg, parent, child) ==
    parent = child \/ parent = 1 \/ child \notin From(cfg.succ, {1}, {parent})
=============================================================================
