------------------------------- MODULE ParCopy ------------------------------
(***************************************************************************)
(* crates/deko-nak/src/lower_par_copies.rs: one OpParCopy becomes a        *)
(* sequence of scalar copies and swaps, which lower_copy_swap.rs then      *)
(* turns into machine instructions.  The two are run together here: each   *)
(* step is one iteration of a loop of lower_par_copy, and the registers    *)
(* are those of a machine that executes what the iteration emits.          *)
(*                                                                         *)
(* A word is the set of the initial words whose exclusive or it is, so the *)
(* three-XOR exchange of predicates is computed and not assumed, and every *)
(* result holds for whatever the registers contain.                        *)
(***************************************************************************)
EXTENDS Integers, SequencesExt

CONSTANTS
    Gpr, Pred, Mem,   \* scalar registers (SM50 has no uniform or barrier file)
    Word, Truth,      \* constant sources: zero, immediates, constant-buffer
                      \* words; true and false
    Tmp0, Tmp1,       \* OpParCopy::tmp, GPRs beyond those that are allocated
    NoEdge,           \* CopyNode::src = -1
    Copies            \* the parallel copies to lower: sequences of [dst, src]

Register == Gpr \cup Pred \cup Mem
Constant == Word \cup Truth
Temporary == {Tmp0, Tmp1}
(* The nodes of the copy graph.  The code makes a node for each occurrence *)
(* of a constant; as nothing is ever copied to a constant, one does here.  *)
Node == Register \cup Constant

(* What the register allocator and the spiller put in one parallel copy.   *)
SourceOf(d) == CASE d \in Gpr -> Gpr \cup Word
                 [] d \in Mem -> Mem \cup Word
                 [] OTHER -> Pred \cup Truth

ParallelCopy(c) ==
    /\ c \in Seq([dst : Register, src : Node])
    /\ IsInjective([n \in DOMAIN c |-> c[n].dst])
    /\ \A n \in DOMAIN c : c[n].src \in SourceOf(c[n].dst)

ASSUME CopyAssumption ==
    /\ Gpr \cap Pred = {} /\ Gpr \cap Mem = {} /\ Pred \cap Mem = {}
    /\ Register \cap Constant = {}
    /\ Temporary \cap Node = {} /\ Tmp0 # Tmp1
    /\ NoEdge \notin Node
    /\ \A c \in Copies : ParallelCopy(c)

VARIABLES
    copy,      \* pc.dsts_srcs
    src,       \* src[n]: the node whose value n still has to get, or NoEdge
    reads,     \* reads[n]: num_reads, the edges that leave n
    ready,     \* the stack of nodes nobody reads any more
    phase,     \* which loop is running
    i, p,      \* the cycle being broken starts at copy[i]; p walks along it
    regs,      \* the machine's registers
    emitted,   \* the <<destination, source>> copies emitted by the last step
    exchanged  \* the pairs of registers in the swaps emitted by the last step

graphVars == <<src, reads>>
vars == <<copy, src, reads, ready, phase, i, p, regs, emitted, exchanged>>

Dsts == { copy[n].dst : n \in DOMAIN copy }
From(d) == copy[CHOOSE n \in DOMAIN copy : copy[n].dst = d].src
Start == copy[i].dst

Value(n) == IF n \in Constant THEN {n} ELSE regs[n]
Xor(a, b) == (a \ b) \cup (b \ a)

Readers(n) == { d \in Dsts : src[d] = n }

-----------------------------------------------------------------------------
(* The graph has an edge for every pair that is not a copy to itself.      *)
Edges(c) ==
    [n \in Node |->
        IF \E m \in DOMAIN c : c[m].dst = n /\ c[m].src # n
        THEN c[CHOOSE m \in DOMAIN c : c[m].dst = n].src ELSE NoEdge]

Init == /\ copy \in Copies
        /\ src = Edges(copy)
        /\ reads = [n \in Node |-> Cardinality(Readers(n))]
        /\ ready = << >>
        /\ phase = "scan" /\ i = 1 /\ p = NoEdge
        /\ regs = [r \in Register \cup Temporary |-> {r}]
        /\ emitted = {} /\ exchanged = {}

RemainingButLast == i < Len(copy)
Remaining == i <= Len(copy)

EmitNothing == emitted' = {} /\ exchanged' = {}

(* The destinations that nobody reads are ready, the last of them on top.  *)
Scan ==
    /\ phase = "scan" /\ Remaining
    /\ ready' = IF reads[Start] = 0 THEN Append(ready, Start) ELSE ready
    /\ i' = i + 1
    /\ EmitNothing
    /\ UNCHANGED <<copy, graphVars, phase, p, regs>>

BeginReady ==
    /\ phase = "scan" /\ i > Len(copy)
    /\ phase' = "ready" /\ i' = 1
    /\ EmitNothing
    /\ UNCHANGED <<copy, graphVars, ready, p, regs>>

DelEdgeUncounted(d, s) == src' = [src EXCEPT ![d] = NoEdge] /\ UNCHANGED reads
DelEdge(d, s) == /\ src' = [src EXCEPT ![d] = NoEdge]
                 /\ reads' = [reads EXCEPT ![s] = @ - 1]

(* What del_edge returns: was that the last edge from s?                   *)
FreesAlways(s) == TRUE
Frees(s) == reads[s] = 1

NeedsTmpNever(d, s) == FALSE
NeedsTmp(d, s) == d \in Mem /\ s \notin Gpr

(* One iteration of the while loop: the node on top of the stack gets its  *)
(* value, and the node it got it from may become ready.                    *)
PopReady ==
    LET d == Last(ready)
        s == src[d]
    IN  /\ phase = "ready" /\ ready # << >>
        /\ \/ /\ s = NoEdge
              /\ ready' = Front(ready)
              /\ emitted' = {}
              /\ UNCHANGED <<src, reads, regs>>
           \/ /\ s # NoEdge
              /\ IF NeedsTmp(d, s)
                 THEN /\ regs' = [regs EXCEPT ![Tmp0] = Value(s), ![d] = Value(s)]
                      /\ emitted' = {<<Tmp0, s>>, <<d, Tmp0>>}
                 ELSE /\ regs' = [regs EXCEPT ![d] = Value(s)]
                      /\ emitted' = {<<d, s>>}
              /\ DelEdge(d, s)
              /\ ready' = IF Frees(s) THEN Append(Front(ready), s) ELSE Front(ready)
        /\ exchanged' = {}
        /\ UNCHANGED <<copy, phase, i, p>>

DrainedButOne == Len(ready) <= 1
Drained == ready = << >>

BeginCycles ==
    /\ phase = "ready" /\ Drained
    /\ phase' = "cycles"
    /\ EmitNothing
    /\ UNCHANGED <<copy, graphVars, ready, i, p, regs>>

(* The for loop over the destinations: what has no edge left is done.      *)
Skip ==
    /\ phase = "cycles" /\ Remaining
    /\ src[Start] = NoEdge
    /\ i' = i + 1
    /\ EmitNothing
    /\ UNCHANGED <<copy, graphVars, ready, phase, p, regs>>

(* lower_swap: three exclusive ors.                                        *)
Swapped(x, y) ==
    LET x1 == Xor(regs[x], regs[y])
        y1 == Xor(x1, regs[y])
    IN  IF x = y THEN regs ELSE [regs EXCEPT ![x] = Xor(x1, y1), ![y] = y1]

(* cycle_use_swap: general registers and memory have tmp.                  *)
MemoryCyclesSwap(r) == r \notin Gpr
CycleUsesSwap(r) == r \notin Gpr \cup Mem

(* Two edges go, and the first node is connected past the second.          *)
SwapReads(j, k) == IF k = Start THEN [reads EXCEPT ![j] = @ - 1, ![k] = @ - 1]
                                ELSE [reads EXCEPT ![j] = @ - 1]

(* Predicates have no temporary: one swap takes one node out of the cycle. *)
Swap ==
    LET j == src[Start]
        k == src[j]
    IN  /\ phase = "cycles" /\ Remaining
        /\ CycleUsesSwap(Start) /\ j # NoEdge
        /\ regs' = Swapped(j, k)
        /\ src' = [src EXCEPT ![Start] = IF k = Start THEN NoEdge ELSE k, ![j] = NoEdge]
        /\ reads' = SwapReads(j, k)
        /\ emitted' = {} /\ exchanged' = {<<j, k>>}
        /\ UNCHANGED <<copy, ready, phase, i, p>>

(* The others save the first node in a temporary and rotate.               *)
Save ==
    /\ phase = "cycles" /\ Remaining
    /\ ~CycleUsesSwap(Start) /\ src[Start] # NoEdge
    /\ phase' = "rotate" /\ p' = Start
    /\ regs' = [regs EXCEPT ![Tmp0] = regs[Start]]
    /\ emitted' = {<<Tmp0, Start>>} /\ exchanged' = {}
    /\ UNCHANGED <<copy, graphVars, ready, i>>

Rotate ==
    LET j == src[p] IN
    /\ phase = "rotate" /\ j # Start
    /\ IF Start \in Mem
       THEN /\ regs' = [regs EXCEPT ![Tmp1] = regs[j], ![p] = regs[j]]
            /\ emitted' = {<<Tmp1, j>>, <<p, Tmp1>>}
       ELSE /\ regs' = [regs EXCEPT ![p] = regs[j]]
            /\ emitted' = {<<p, j>>}
    /\ exchanged' = {}
    /\ DelEdge(p, j)
    /\ p' = j
    /\ UNCHANGED <<copy, ready, phase, i>>

Restore ==
    /\ phase = "rotate" /\ src[p] = Start
    /\ regs' = [regs EXCEPT ![p] = regs[Tmp0]]
    /\ emitted' = {<<p, Tmp0>>} /\ exchanged' = {}
    /\ DelEdge(p, Start)
    /\ phase' = "cycles" /\ p' = NoEdge
    /\ UNCHANGED <<copy, ready, i>>

Finish ==
    /\ phase = "cycles" /\ i > Len(copy)
    /\ phase' = "done"
    /\ EmitNothing
    /\ UNCHANGED <<copy, graphVars, ready, i, p, regs>>

Next == Scan \/ BeginReady \/ PopReady \/ BeginCycles \/ Skip \/ Swap \/ Save 
        \/ Rotate \/ Restore \/ Finish

Spec == Init /\ [][Next]_vars

(* The function runs until it returns.                                     *)
FairSpec == Spec /\ WF_vars(Next)

-----------------------------------------------------------------------------
(* Properties.                                                             *)

TypeOK ==
    /\ ParallelCopy(copy)
    /\ src \in [Node -> Node \cup {NoEdge}]
    /\ reads \in [Node -> Nat]
    /\ ready \in Seq(Node)
    /\ phase \in {"scan", "ready", "cycles", "rotate", "done"}
    /\ i \in Nat \ {0} /\ p \in Node \cup {NoEdge}
    /\ regs \in [Register \cup Temporary -> SUBSET (Node \cup Temporary)]
    /\ emitted \subseteq (Register \cup Temporary) \X (Node \cup Temporary)
    /\ exchanged \subseteq Register \X Register

(* The sequence does what the parallel copy says: in the end every         *)
(* destination holds the value its source had before the first of the      *)
(* copies, and no register that is not a destination has changed.          *)
Delivered ==
    phase = "done" =>
        \A r \in Register : regs[r] = {IF r \in Dsts THEN From(r) ELSE r}

(* A node is a register whose value is still wanted as long as num_reads   *)
(* says so: the counter is the number of edges, through both loops and the *)
(* rewriting of edges by swaps.                                            *)
ReadsExact == \A n \in Node : reads[n] = Cardinality(Readers(n))

(* "all we are left with in the graph are isolated nodes (no edges) and    *)
(* cycles": once the stack is empty, whatever still waits for a value is   *)
(* itself read by exactly one node that waits too.                         *)
OnlyCycles ==
    phase = "cycles" =>
        \A d \in Dsts : src[d] # NoEdge =>
            src[d] \in Dsts /\ src[src[d]] # NoEdge /\ Cardinality(Readers(d)) = 1

Lowerable(d, s) ==
    \/ d \in Gpr \cup Temporary /\ s \in Gpr \cup Temporary \cup Mem \cup Word
    \/ d \in Pred /\ s \in Pred \cup Truth
    \/ d \in Mem /\ s \in Gpr \cup Temporary

(* What lower_swap asserts: both registers in one file, and not memory.    *)
Exchangeable(x, y) == \E file \in {Gpr, Pred} : {x, y} \subseteq file

(* Every copy emitted, temporaries included, is between two files that     *)
(* LowerCopySwap::lower_copy has an instruction for, and every swap is of  *)
(* two registers that LowerCopySwap::lower_swap accepts: also those that   *)
(* have become neighbours in a cycle only by the swaps before.             *)
CopiesLowerable ==
    /\ \A c \in emitted : Lowerable(c[1], c[2])
    /\ \A s \in exchanged : Exchangeable(s[1], s[2])

(* Both loops end: no cycle is walked for ever and no edge is left over.   *)
Lowered == <>(phase = "done" /\ \A d \in Dsts : src[d] = NoEdge)
=============================================================================
