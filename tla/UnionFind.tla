------------------------------ MODULE UnionFind -----------------------------
(***************************************************************************)
(* crates/deko-nak/src/union_find.rs: disjoint sets with union by size and *)
(* path halving.  Register assignment keeps the phi webs in one: values    *)
(* that phis connect should share a register.                              *)
(*                                                                         *)
(* A forest is a sequence of nodes; node k was created for the value       *)
(* forest[k].value (idx_map).  A root is its own parent and carries the    *)
(* size and the representative of its set.                                 *)
(***************************************************************************)
EXTENDS ControlFlow

NewRoot(k, x) == [value |-> x, parent |-> k, size |-> 1, representative |-> x]

IndexOf(forest, x) == { k \in DOMAIN forest : forest[k].value = x }
IsRoot(forest, k) == forest[k].parent = k

(* map_or_create                                                           *)
WithNode(forest, x) ==
    IF IndexOf(forest, x) # {} THEN forest ELSE Append(forest, NewRoot(Len(forest) + 1, x))
NodeOf(forest, x) == CHOOSE k \in IndexOf(forest, x) : TRUE

Halved(forest, k) == [forest EXCEPT ![k].parent = forest[forest[k].parent].parent]

(* find_root: the root, and the forest with the path to it halved.         *)
RECURSIVE FindRoot(_, _)
FindRoot(forest, k) ==
    CASE IsRoot(forest, k) -> [root |-> k, forest |-> forest]
      [] ~IsRoot(forest, k) /\ IsRoot(forest, forest[k].parent) ->
            [root |-> forest[k].parent, forest |-> forest]
      [] OTHER -> With(Halved(forest, k), LAMBDA halved : FindRoot(halved, halved[k].parent))

Find(forest, x) ==
    IF IndexOf(forest, x) = {} THEN [representative |-> x, forest |-> forest]
    ELSE With(FindRoot(forest, NodeOf(forest, x)), LAMBDA found :
              [representative |-> found.forest[found.root].representative, forest |-> found.forest])

(* Mutant: the root keeps its size.                                        *)
LinkKeepingSize(forest, a, b) ==
    LET above == IF forest[a].size >= forest[b].size THEN a ELSE b
        below == IF above = a THEN b ELSE a
    IN  [forest EXCEPT ![above].representative = forest[a].representative, ![below].parent = above]

(* The smaller tree is hung below the root of the larger; the set keeps    *)
(* the representative of a.                                                *)
Link(forest, a, b) ==
    LET above == IF forest[a].size >= forest[b].size THEN a ELSE b
        below == IF above = a THEN b ELSE a
    IN  [forest EXCEPT ![above].size = forest[a].size + forest[b].size,
                       ![above].representative = forest[a].representative,
                       ![below].parent = above]

Union(forest, x, y) ==
    IF x = y THEN forest
    ELSE With(WithNode(WithNode(forest, x), y), LAMBDA both :
         With(FindRoot(both, NodeOf(both, x)), LAMBDA a :
         With(FindRoot(a.forest, NodeOf(both, y)), LAMBDA b :
              IF a.root = b.root THEN b.forest ELSE Link(b.forest, a.root, b.root))))
=============================================================================
