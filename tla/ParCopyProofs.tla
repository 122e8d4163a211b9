---------------------------- MODULE ParCopyProofs ---------------------------
(***************************************************************************)
(* Proofs about ParCopy for any number of registers and any parallel copy. *)
(* What is proved is that the emitted sequence implements the copy, and,   *)
(* on the way, the argument the source gives in a comment: when the stack  *)
(* of ready nodes is empty, nothing but cycles is left.                    *)
(***************************************************************************)
EXTENDS ParCopy, SequenceTheorems, FiniteSetTheorems, TLAPS

(* Only destinations wait for a value, and none waits for its own.         *)
EdgesOK == \A n \in Node : src[n] # NoEdge => n \in Dsts /\ src[n] # n

(* While nodes are being collected or drained, the stack holds only nodes  *)
(* that nobody reads, and every such node that waits is on the stack or    *)
(* still to be scanned.                                                    *)
ReadyOK ==
    phase \in {"scan", "ready"} =>
        /\ \A n \in DOMAIN ready : Readers(ready[n]) = {}
        /\ \A d \in Dsts : src[d] # NoEdge /\ Readers(d) = {} =>
              \/ \E n \in DOMAIN ready : ready[n] = d
              \/ phase = "scan" /\ \E n \in DOMAIN copy : i <= n /\ copy[n].dst = d

(* Afterwards the nodes that wait form cycles, but for the one that is     *)
(* being rotated, which is open at p and at its start.                     *)
Unread(d) == phase = "rotate" /\ d = p
Broken(n) == phase = "rotate" /\ n = Start

CyclesOK ==
    phase \in {"cycles", "rotate"} =>
        /\ \A d, e \in Dsts : src[d] = src[e] /\ src[d] # NoEdge => d = e
        /\ \A d \in Dsts : src[d] # NoEdge =>
              /\ src[d] \in Dsts
              /\ Broken(src[d]) \/ src[src[d]] # NoEdge
              /\ Unread(d) \/ Readers(d) # {}

RotateOK ==
    phase = "rotate" =>
        /\ i \in DOMAIN copy /\ p \in Dsts /\ src[p] # NoEdge
        /\ p # Start => src[Start] = NoEdge /\ Readers(p) = {}

(* The destinations passed by the second loop wait for nothing.            *)
PassedOK ==
    /\ phase = "ready" => i = 1
    /\ phase \in {"cycles", "rotate", "done"} =>
           \A n \in DOMAIN copy : n < i => src[copy[n].dst] = NoEdge
    /\ phase = "done" => i > Len(copy)

(* Where the value of n is to be found: the start of the cycle being       *)
(* rotated is in the temporary.                                            *)
Held(n) == IF Broken(n) THEN regs[Tmp0] ELSE Value(n)

(* A destination that waits will find the value it is owed in its source;  *)
(* one that does not has it; the other registers are as they were.         *)
ValuesOK ==
    /\ \A d \in Dsts : IF src[d] = NoEdge THEN regs[d] = {From(d)}
                                          ELSE Held(src[d]) = {From(d)}
    /\ \A r \in Register : r \in Dsts \/ regs[r] = {r}

IInv == /\ TypeOK /\ EdgesOK /\ ReadsExact /\ ReadyOK
        /\ CyclesOK /\ RotateOK /\ PassedOK /\ ValuesOK

-----------------------------------------------------------------------------
(* The destinations of a parallel copy are finitely many registers, each   *)
(* with one source.                                                        *)
LEMMA CopyFacts ==
    ASSUME ParallelCopy(copy)
    PROVE  /\ Len(copy) \in Nat /\ DOMAIN copy = 1 .. Len(copy)
           /\ Dsts \subseteq Register /\ IsFiniteSet(Dsts)
           /\ \A n \in DOMAIN copy :
                 copy[n].dst \in Dsts /\ From(copy[n].dst) = copy[n].src
           /\ \A m, n \in DOMAIN copy : copy[m].dst = copy[n].dst => m = n
           /\ \A d \in Dsts : From(d) \in Node
<1>1. copy \in Seq([dst : Register, src : Node])
  BY DEF ParallelCopy
<1>2. Len(copy) \in Nat /\ DOMAIN copy = 1 .. Len(copy)
      /\ \A n \in DOMAIN copy : copy[n] \in [dst : Register, src : Node]
  BY <1>1, LenProperties, ElementOfSeq
<1>3. \A m, n \in DOMAIN copy : copy[m].dst = copy[n].dst => m = n
  <2> DEFINE f == [n \in DOMAIN copy |-> copy[n].dst]
  <2>1. IsInjective(f) /\ DOMAIN f = DOMAIN copy
        /\ \A n \in DOMAIN copy : f[n] = copy[n].dst
    BY DEF ParallelCopy
  <2> HIDE DEF f
  <2> QED  BY <2>1 DEF IsInjective
<1>4. Dsts \subseteq Register
  BY <1>2 DEF Dsts
<1>5. IsFiniteSet(Dsts)
  <2> DEFINE f == [n \in 1 .. Len(copy) |-> copy[n].dst]
  <2>1. f \in Surjection(1 .. Len(copy), Dsts)
    BY <1>2 DEF Surjection, Dsts
  <2>2. IsFiniteSet(1 .. Len(copy))
    BY <1>2, FS_Interval
  <2> QED  BY <2>1, <2>2, FS_Surjection
<1>6. \A n \in DOMAIN copy : From(copy[n].dst) = copy[n].src
  BY <1>3 DEF From
<1> QED  BY <1>2, <1>3, <1>4, <1>5, <1>6 DEF Dsts

(* Edges leave and reach nodes only; Readers are finite.                   *)
LEMMA ReadersFinite ==
    ASSUME ParallelCopy(copy), NEW n
    PROVE  /\ IsFiniteSet(Readers(n)) /\ Cardinality(Readers(n)) \in Nat
           /\ Cardinality(Readers(n)) = 0 <=> Readers(n) = {}
<1>1. IsFiniteSet(Readers(n))
  BY CopyFacts, FS_Subset DEF Readers
<1> QED  BY <1>1, FS_CardinalityType, FS_EmptySet

(* del_edge keeps the counters exact.                                      *)
LEMMA DelEdgeCounts ==
    ASSUME TypeOK, ReadsExact, EdgesOK, UNCHANGED copy,
           NEW d \in Node, src[d] # NoEdge, DelEdge(d, src[d])
    PROVE  /\ ReadsExact' /\ reads' \in [Node -> Nat]
           /\ src' \in [Node -> Node \cup {NoEdge}]
           /\ src' = [src EXCEPT ![d] = NoEdge]
           /\ \A n \in Node : Readers(n)' = Readers(n) \ {d}
<1>0. d \in Dsts /\ src[d] \in Node /\ NoEdge \notin Node
  BY CopyAssumption DEF EdgesOK, TypeOK
<1>1. src' = [src EXCEPT ![d] = NoEdge] /\ src' \in [Node -> Node \cup {NoEdge}]
  BY DEF DelEdge, TypeOK
<1>2. Dsts' = Dsts /\ Dsts \subseteq Node
  BY CopyFacts DEF Dsts, TypeOK, Node
<1>3. \A n \in Node : Readers(n)' = Readers(n) \ {d}
  BY <1>0, <1>1, <1>2 DEF Readers, TypeOK
<1>4. \A n \in Node : /\ reads'[n] = Cardinality(Readers(n)')
                      /\ reads'[n] \in Nat
  <2> TAKE n \in Node
  <2>1. reads'[n] = IF n = src[d] THEN reads[n] - 1 ELSE reads[n]
    BY <1>0 DEF DelEdge, TypeOK
  <2>2. IsFiniteSet(Readers(n))
    BY ReadersFinite DEF TypeOK
  <2>3. Cardinality(Readers(n)') = IF d \in Readers(n) THEN Cardinality(Readers(n)) - 1
                                                      ELSE Cardinality(Readers(n))
    BY <1>3, <2>2, FS_RemoveElement
  <2>4. d \in Readers(n) <=> n = src[d]
    BY <1>0 DEF Readers
  <2>5. IsFiniteSet(Readers(n) \ {d}) /\ Cardinality(Readers(n) \ {d}) \in Nat
    BY <2>2, FS_RemoveElement, FS_CardinalityType
  <2> QED  BY <1>3, <2>1, <2>3, <2>4, <2>5 DEF ReadsExact
<1>5. reads' \in [Node -> Nat]
  <2>1. reads' = [n \in Node |-> reads'[n]]
    BY DEF DelEdge, TypeOK
  <2> QED  BY <2>1, <1>4
<1> QED  BY <1>1, <1>3, <1>4, <1>5 DEF ReadsExact

-----------------------------------------------------------------------------
(* The graph that lower_par_copy builds, and the registers before the      *)
(* first copy.                                                             *)
LEMMA InitInv ==
    Init => IInv
<1> SUFFICES ASSUME Init PROVE IInv
  OBVIOUS
<1>1. ParallelCopy(copy)
  BY CopyAssumption DEF Init
<1>2. /\ Len(copy) \in Nat /\ DOMAIN copy = 1 .. Len(copy)
      /\ Dsts \subseteq Register /\ Dsts \subseteq Node
      /\ \A n \in DOMAIN copy : copy[n].dst \in Dsts /\ From(copy[n].dst) = copy[n].src
      /\ \A d \in Dsts : From(d) \in Node
  BY <1>1, CopyFacts DEF Node
<1>3. \A n \in Node : src[n] = IF n \in Dsts /\ From(n) # n THEN From(n) ELSE NoEdge
  <2> SUFFICES ASSUME NEW n \in Node
               PROVE  src[n] = IF n \in Dsts /\ From(n) # n THEN From(n) ELSE NoEdge
    OBVIOUS
  <2>1. src[n] = IF \E m \in DOMAIN copy : copy[m].dst = n /\ copy[m].src # n
                 THEN From(n) ELSE NoEdge
    BY DEF Init, Edges, From
  <2>2. (\E m \in DOMAIN copy : copy[m].dst = n /\ copy[m].src # n)
          <=> n \in Dsts /\ From(n) # n
    BY <1>2 DEF Dsts
  <2> QED  BY <2>1, <2>2
<1>4. src \in [Node -> Node \cup {NoEdge}]
  <2>1. src = [n \in Node |-> src[n]]
    BY DEF Init, Edges
  <2> QED  BY <2>1, <1>2, <1>3
<1>5. \A n \in Node : reads[n] = Cardinality(Readers(n)) /\ reads[n] \in Nat
  BY <1>1, ReadersFinite DEF Init
<1>6. TypeOK
  <2>1. reads \in [Node -> Nat]
    BY <1>5 DEF Init
  <2>2. regs \in [Register \cup Temporary -> SUBSET (Node \cup Temporary)]
    BY DEF Init, Node
  <2>3. ready \in Seq(Node)
    BY DEF Init
  <2> QED  BY <1>1, <1>4, <2>1, <2>2, <2>3 DEF TypeOK, Init
<1>7. EdgesOK
  BY <1>3 DEF EdgesOK
<1>8. ReadyOK
  <2>1. \A d \in Dsts : \E n \in DOMAIN copy : i <= n /\ copy[n].dst = d
    BY <1>2 DEF Init, Dsts
  <2>2. phase = "scan" /\ DOMAIN ready = {}
    BY DEF Init
  <2> QED  BY <2>1, <2>2 DEF ReadyOK
<1>9. ValuesOK
  <2>1. \A n \in Node : Held(n) = {n}
    BY CopyAssumption DEF Held, Broken, Value, Init, Node
  <2>2. \A d \in Dsts : regs[d] = {d}
    BY <1>2 DEF Init
  <2>3. \A r \in Register : regs[r] = {r}
    BY DEF Init
  <2> QED  BY <1>2, <1>3, <2>1, <2>2, <2>3, CopyAssumption DEF ValuesOK
<1> QED  BY <1>5, <1>6, <1>7, <1>8, <1>9
         DEF IInv, ReadsExact, CyclesOK, RotateOK, PassedOK, Init

-----------------------------------------------------------------------------
(* The steps, one lemma each.                                              *)
LEMMA ScanInv ==
    ASSUME IInv, Scan PROVE IInv'
<1> USE DEF IInv
<1>1. /\ Len(copy) \in Nat /\ DOMAIN copy = 1 .. Len(copy)
      /\ i \in DOMAIN copy /\ Start \in Dsts /\ Start \in Node
      /\ Dsts \subseteq Register
  BY CopyFacts DEF Scan, Remaining, TypeOK, Start, Node
<1>2. Dsts' = Dsts /\ \A n : Readers(n)' = Readers(n)
  BY DEF Scan, graphVars, Dsts, Readers
<1>3. TypeOK'
  <2>1. ready' \in Seq(Node)
    BY <1>1, AppendProperties DEF Scan, TypeOK
  <2> QED  BY <2>1 DEF Scan, EmitNothing, graphVars, TypeOK
<1>4. EdgesOK' /\ ReadsExact' /\ CyclesOK' /\ RotateOK' /\ PassedOK'
  BY <1>2 DEF Scan, graphVars, EdgesOK, ReadsExact, CyclesOK, RotateOK, PassedOK
<1>5. ReadyOK'
  <2>1. phase = "scan" /\ phase' = "scan" /\ i' = i + 1 /\ src' = src /\ copy' = copy
    BY DEF Scan, graphVars
  <2>2. Readers(Start) = {} <=> reads[Start] = 0
    BY <1>1, ReadersFinite DEF ReadsExact, TypeOK
  <2>3. CASE reads[Start] = 0
    <3>1. ready' = Append(ready, Start)
      BY <2>3 DEF Scan
    <3>2. /\ DOMAIN ready' = 1 .. Len(ready) + 1 /\ DOMAIN ready = 1 .. Len(ready)
          /\ Len(ready) \in Nat
          /\ \A n \in DOMAIN ready : ready'[n] = ready[n]
          /\ ready'[Len(ready) + 1] = Start
      BY <1>1, <3>1, AppendProperties, LenProperties DEF TypeOK
    <3>3. \A n \in DOMAIN ready' : Readers(ready'[n]) = {}
      BY <2>1, <2>2, <2>3, <3>2 DEF ReadyOK
    <3>4. ASSUME NEW d \in Dsts, src[d] # NoEdge, Readers(d) = {}
          PROVE  \/ \E n \in DOMAIN ready' : ready'[n] = d
                 \/ \E n \in DOMAIN copy : i + 1 <= n /\ copy[n].dst = d
      <4>1. CASE d = Start
        BY <3>2, <4>1
      <4>2. CASE d # Start
        <5>1. (\E n \in DOMAIN ready : ready[n] = d)
                \/ \E n \in DOMAIN copy : i <= n /\ copy[n].dst = d
          BY <2>1, <3>4 DEF ReadyOK
        <5> QED  BY <1>1, <3>2, <4>2, <5>1 DEF Start
      <4> QED  BY <4>1, <4>2
    <3> QED  BY <1>2, <2>1, <3>3, <3>4 DEF ReadyOK
  <2>4. CASE reads[Start] # 0
    <3>1. ready' = ready
      BY <2>4 DEF Scan
    <3>2. ASSUME NEW d \in Dsts, src[d] # NoEdge, Readers(d) = {}
          PROVE  \/ \E n \in DOMAIN ready : ready[n] = d
                 \/ \E n \in DOMAIN copy : i + 1 <= n /\ copy[n].dst = d
      <4>1. d # Start
        BY <2>2, <2>4, <3>2
      <4>2. (\E n \in DOMAIN ready : ready[n] = d)
              \/ \E n \in DOMAIN copy : i <= n /\ copy[n].dst = d
        BY <2>1, <3>2 DEF ReadyOK
      <4> QED  BY <1>1, <4>1, <4>2 DEF Start
    <3> QED  BY <1>2, <2>1, <3>1, <3>2 DEF ReadyOK
  <2> QED  BY <2>3, <2>4
<1>6. ValuesOK'
  <2>1. \A n : Held(n)' = Held(n)
    BY DEF Scan, Held, Broken, Value
  <2>2. \A d : From(d)' = From(d)
    BY DEF Scan, From
  <2>3. src' = src /\ regs' = regs
    BY DEF Scan, graphVars
  <2> QED  BY <1>2, <2>1, <2>2, <2>3 DEF ValuesOK
<1> QED  BY <1>3, <1>4, <1>5, <1>6

LEMMA BeginReadyInv ==
    ASSUME IInv, BeginReady PROVE IInv'
<1> USE DEF IInv
<1>1. Len(copy) \in Nat /\ DOMAIN copy = 1 .. Len(copy)
  BY CopyFacts DEF TypeOK
<1>2. Dsts' = Dsts /\ \A n : Readers(n)' = Readers(n) /\ From(n)' = From(n)
  BY DEF BeginReady, graphVars, Dsts, Readers, From
<1>3. TypeOK'
  BY DEF BeginReady, EmitNothing, graphVars, TypeOK
<1>4. EdgesOK' /\ ReadsExact' /\ CyclesOK' /\ RotateOK' /\ PassedOK'
  BY <1>2 DEF BeginReady, graphVars, EdgesOK, ReadsExact, CyclesOK, RotateOK, PassedOK
<1>5. ReadyOK'
  <2>1. \A n \in DOMAIN copy : ~(i <= n)
    BY <1>1 DEF BeginReady, TypeOK
  <2> QED  BY <1>2, <2>1 DEF BeginReady, graphVars, ReadyOK
<1>6. ValuesOK'
  <2>1. \A n : Held(n)' = Held(n)
    BY DEF BeginReady, Held, Broken, Value
  <2> QED  BY <1>2, <2>1 DEF BeginReady, graphVars, ValuesOK
<1> QED  BY <1>3, <1>4, <1>5, <1>6

(* The stack without its top.                                              *)
LEMMA FrontFacts ==
    ASSUME ready \in Seq(Node), ready # << >>
    PROVE  /\ Last(ready) \in Node /\ Len(ready) \in DOMAIN ready
           /\ Last(ready) = ready[Len(ready)]
           /\ Front(ready) \in Seq(Node) /\ DOMAIN ready = 1 .. Len(ready)
           /\ Len(ready) \in Nat \ {0}
           /\ Len(Front(ready)) = Len(ready) - 1
           /\ DOMAIN Front(ready) = 1 .. Len(ready) - 1
           /\ \A n \in DOMAIN Front(ready) : Front(ready)[n] = ready[n]
<1>1. Len(ready) \in Nat \ {0} /\ DOMAIN ready = 1 .. Len(ready)
      /\ \A n \in 1 .. Len(ready) : ready[n] \in Node
  BY EmptySeq, LenProperties, ElementOfSeq
<1>2. Front(ready) = SubSeq(ready, 1, Len(ready) - 1)
  BY DEF Front
<1>3. /\ Front(ready) \in Seq(Node)
      /\ Len(Front(ready)) = Len(ready) - 1
      /\ \A n \in 1 .. Len(ready) - 1 : Front(ready)[n] = ready[n]
  BY <1>1, <1>2, SubSeqProperties
<1>4. DOMAIN Front(ready) = 1 .. Len(ready) - 1
  BY <1>3, LenProperties
<1> QED  BY <1>1, <1>3, <1>4 DEF Last

LEMMA PopReadyInv ==
    ASSUME IInv, PopReady PROVE IInv'
<1> USE DEF IInv
<1>0. PICK d, s : d = Last(ready) /\ s = src[d]
  OBVIOUS
<1>1. /\ phase = "ready" /\ phase' = "ready" /\ ready # << >>
      /\ copy' = copy /\ i' = i /\ p' = p /\ exchanged' = {}
  BY DEF PopReady
<1>2. /\ d \in Node /\ d = ready[Len(ready)] /\ Len(ready) \in DOMAIN ready
      /\ Front(ready) \in Seq(Node) /\ DOMAIN ready = 1 .. Len(ready)
      /\ Len(ready) \in Nat \ {0} /\ Len(Front(ready)) = Len(ready) - 1
      /\ DOMAIN Front(ready) = 1 .. Len(ready) - 1
      /\ \A n \in DOMAIN Front(ready) : Front(ready)[n] = ready[n]
  BY <1>0, <1>1, FrontFacts DEF TypeOK
<1>3. Readers(d) = {}
  BY <1>1, <1>2 DEF ReadyOK
<1>4. \A e \in Dsts : src[e] # NoEdge /\ Readers(e) = {} /\ e # d =>
         \E n \in DOMAIN Front(ready) : Front(ready)[n] = e
  <2> SUFFICES ASSUME NEW e \in Dsts, src[e] # NoEdge, Readers(e) = {}, e # d
               PROVE  \E n \in DOMAIN Front(ready) : Front(ready)[n] = e
    OBVIOUS
  <2>1. PICK n \in DOMAIN ready : ready[n] = e
    BY <1>1 DEF ReadyOK
  <2>2. n \in DOMAIN Front(ready)
    BY <1>2, <2>1
  <2> QED  BY <1>2, <2>1, <2>2
<1>5. /\ Dsts' = Dsts /\ Dsts \subseteq Register /\ Dsts \subseteq Node
      /\ \A n : From(n)' = From(n)
      /\ \A e \in Dsts : From(e) \in Node
  <2>1. Dsts' = Dsts /\ \A n : From(n)' = From(n)
    BY <1>1 DEF Dsts, From
  <2> QED  BY <2>1, CopyFacts DEF TypeOK, Node
<1>6. \A n : Held(n) = Value(n) /\ Held(n)' = Value(n)'
  BY <1>1 DEF Held, Broken
<1>7. CASE s = NoEdge
  <2>1. ready' = Front(ready) /\ emitted' = {} /\ UNCHANGED <<src, reads, regs>>
    BY <1>0, <1>7 DEF PopReady
  <2>2. \A n : Readers(n)' = Readers(n) /\ Value(n)' = Value(n)
    BY <1>5, <2>1 DEF Readers, Value
  <2>3. TypeOK'
    BY <1>1, <1>2, <2>1 DEF TypeOK
  <2>4. EdgesOK' /\ ReadsExact' /\ CyclesOK' /\ RotateOK' /\ PassedOK'
    BY <1>1, <1>5, <2>1, <2>2 DEF EdgesOK, ReadsExact, CyclesOK, RotateOK, PassedOK
  <2>5. ReadyOK'
    <3>1. \A n \in DOMAIN Front(ready) : Readers(Front(ready)[n]) = {}
      BY <1>1, <1>2 DEF ReadyOK
    <3>2. \A e \in Dsts : src[e] # NoEdge /\ Readers(e) = {} =>
             \E n \in DOMAIN Front(ready) : Front(ready)[n] = e
      BY <1>0, <1>4, <1>7
    <3> QED  BY <1>1, <1>5, <2>1, <2>2, <3>1, <3>2 DEF ReadyOK
  <2>6. ValuesOK'
    BY <1>5, <1>6, <2>1, <2>2 DEF ValuesOK
  <2> QED  BY <2>3, <2>4, <2>5, <2>6
<1>8. CASE s # NoEdge
  <2>1. /\ d \in Dsts /\ s \in Node /\ s # d /\ d \in Register
        /\ d \notin Temporary /\ Temporary \cap Node = {} /\ Tmp0 # d
    BY <1>0, <1>2, <1>5, <1>8, CopyAssumption DEF EdgesOK, TypeOK, Temporary
  <2>2. /\ DelEdge(d, s)
        /\ ready' = IF Frees(s) THEN Append(Front(ready), s) ELSE Front(ready)
        /\ regs' = [regs EXCEPT ![d] = Value(s)]
             \/ regs' = [regs EXCEPT ![Tmp0] = Value(s), ![d] = Value(s)]
        /\ emitted' \in {{<<d, s>>}, {<<Tmp0, s>>, <<d, Tmp0>>}}
    BY <1>0, <1>8 DEF PopReady
  <2>3. /\ ReadsExact' /\ reads' \in [Node -> Nat]
        /\ src' \in [Node -> Node \cup {NoEdge}]
        /\ src' = [src EXCEPT ![d] = NoEdge]
        /\ \A n \in Node : Readers(n)' = Readers(n) \ {d}
    BY <1>0, <1>1, <1>2, <1>8, <2>2, DelEdgeCounts
  <2>4. Value(s) \in SUBSET (Node \cup Temporary) /\ Value(s) = {From(d)}
    <3>1. Value(s) = {From(d)}
      BY <1>0, <1>6, <1>8, <2>1 DEF ValuesOK
    <3> QED  BY <1>5, <2>1, <3>1
  <2>5. /\ regs' \in [Register \cup Temporary -> SUBSET (Node \cup Temporary)]
        /\ regs'[d] = Value(s)
        /\ \A r \in Register : r # d => regs'[r] = regs[r]
    <3>1. d \in Register \cup Temporary /\ Tmp0 \in Register \cup Temporary
          /\ Tmp0 \notin Register
      BY <2>1, CopyAssumption DEF Temporary, Node
    <3>2. CASE regs' = [regs EXCEPT ![d] = Value(s)]
      BY <2>4, <3>1, <3>2 DEF TypeOK
    <3>3. CASE regs' = [regs EXCEPT ![Tmp0] = Value(s), ![d] = Value(s)]
      BY <2>1, <2>4, <3>1, <3>3 DEF TypeOK
    <3> QED  BY <2>2, <3>2, <3>3
  <2>6. TypeOK'
    <3>1. ready' \in Seq(Node)
      BY <1>2, <2>1, <2>2, AppendProperties
    <3>2. emitted' \subseteq (Register \cup Temporary) \X (Node \cup Temporary)
      BY <2>1, <2>2 DEF Temporary, Node
    <3> QED  BY <1>1, <2>3, <2>5, <3>1, <3>2 DEF TypeOK
  <2>7. EdgesOK'
    BY <1>2, <1>5, <2>3 DEF EdgesOK, TypeOK
  <2>8. CyclesOK' /\ RotateOK' /\ PassedOK'
    BY <1>1 DEF CyclesOK, RotateOK, PassedOK
  <2>9. ReadyOK'
    <3>1. Frees(s) <=> Readers(s) = {d}
      <4>1. d \in Readers(s)
        BY <1>0, <2>1 DEF Readers
      <4>2. IsFiniteSet(Readers(s)) /\ reads[s] = Cardinality(Readers(s))
        BY <2>1, ReadersFinite DEF TypeOK, ReadsExact
      <4> QED  BY <4>1, <4>2, FS_Singleton DEF Frees
    <3>2. CASE Frees(s)
      <4>1. /\ ready' = Append(Front(ready), s)
            /\ DOMAIN ready' = DOMAIN Front(ready) \cup {Len(ready)}
            /\ \A n \in DOMAIN Front(ready) : ready'[n] = Front(ready)[n]
            /\ ready'[Len(ready)] = s
        <5>1. ready' = Append(Front(ready), s) /\ Len(Front(ready)) + 1 = Len(ready)
          BY <1>2, <2>2, <3>2
        <5>2. /\ ready' \in Seq(Node) /\ Len(ready') = Len(Front(ready)) + 1
              /\ \A n \in 1 .. Len(Front(ready)) : ready'[n] = Front(ready)[n]
              /\ ready'[Len(Front(ready)) + 1] = s
          <6> DEFINE q == Front(ready)
          <6>1. q \in Seq(Node) /\ s \in Node /\ ready' = Append(q, s)
            BY <1>2, <2>1, <5>1
          <6> HIDE DEF q
          <6>2. /\ ready' \in Seq(Node) /\ Len(ready') = Len(q) + 1
                /\ \A n \in 1 .. Len(q) : ready'[n] = q[n]
                /\ ready'[Len(q) + 1] = s
            BY <6>1, AppendProperties
          <6> QED  BY <6>2 DEF q
        <5>3. DOMAIN ready' = 1 .. Len(ready')
          BY <5>2, LenProperties
        <5>4. \A l \in Nat \ {0} : 1 .. l = 1 .. l - 1 \cup {l}
          OBVIOUS
        <5>5. DOMAIN ready' = 1 .. Len(ready)
          BY <5>1, <5>2, <5>3
        <5>6. DOMAIN ready' = DOMAIN Front(ready) \cup {Len(ready)}
          BY <1>2, <5>4, <5>5
        <5> QED  BY <1>2, <5>1, <5>2, <5>6
      <4>2. \A n \in DOMAIN ready' : ready'[n] \in Node /\ Readers(ready'[n]) \ {d} = {}
        <5>1. \A n \in DOMAIN Front(ready) : Front(ready)[n] \in Node /\ Readers(Front(ready)[n]) = {}
          BY <1>1, <1>2, ElementOfSeq DEF ReadyOK
        <5>2. Readers(s) \ {d} = {}
          BY <3>1, <3>2
        <5>3. \A n \in DOMAIN ready' : n \in DOMAIN Front(ready) \/ n = Len(ready)
          BY <4>1
        <5> QED  BY <2>1, <4>1, <5>1, <5>2, <5>3
      <4>3. \A e \in Dsts : e # d /\ src[e] # NoEdge /\ Readers(e) \ {d} = {} =>
               \E n \in DOMAIN ready' : ready'[n] = e
        <5> SUFFICES ASSUME NEW e \in Dsts, e # d, src[e] # NoEdge, Readers(e) \ {d} = {}
                     PROVE  \E n \in DOMAIN ready' : ready'[n] = e
          OBVIOUS
        <5>1. CASE e = s
          BY <1>2, <4>1, <5>1
        <5>2. CASE e # s
          <6>1. Readers(e) = {}
            BY <1>0, <5>2 DEF Readers
          <6>2. PICK n \in DOMAIN Front(ready) : Front(ready)[n] = e
            BY <1>4, <6>1
          <6>3. n \in DOMAIN ready'
            BY <4>1, <6>2
          <6> QED  BY <4>1, <6>2, <6>3
        <5> QED  BY <5>1, <5>2
      <4>4. \A e \in Dsts : src'[e] # NoEdge => e # d /\ src[e] # NoEdge
        BY <1>2, <1>5, <2>3 DEF TypeOK
      <4> QED  BY <1>1, <1>5, <2>3, <4>2, <4>3, <4>4 DEF ReadyOK
    <3>3. CASE ~Frees(s)
      <4>1. ready' = Front(ready)
        BY <2>2, <3>3
      <4>2. \A n \in DOMAIN ready' : ready'[n] \in Node /\ Readers(ready'[n]) \ {d} = {}
        BY <1>1, <1>2, <4>1, ElementOfSeq DEF ReadyOK, TypeOK
      <4>3. \A e \in Dsts : e # d /\ src[e] # NoEdge /\ Readers(e) \ {d} = {} =>
               \E n \in DOMAIN ready' : ready'[n] = e
        <5> SUFFICES ASSUME NEW e \in Dsts, e # d, src[e] # NoEdge, Readers(e) \ {d} = {}
                     PROVE  \E n \in DOMAIN ready' : ready'[n] = e
          OBVIOUS
        <5>1. e # s
          BY <1>0, <3>1, <3>3, <2>1 DEF Readers
        <5>2. Readers(e) = {}
          BY <1>0, <5>1 DEF Readers
        <5> QED  BY <1>4, <4>1, <5>2
      <4>4. \A e \in Dsts : src'[e] # NoEdge => e # d /\ src[e] # NoEdge
        BY <1>2, <1>5, <2>3 DEF TypeOK
      <4> QED  BY <1>1, <1>5, <2>3, <4>2, <4>3, <4>4 DEF ReadyOK
    <3> QED  BY <3>2, <3>3
  <2>10. ValuesOK'
    <3>1. \A n \in Node : n # d => Value(n)' = Value(n)
      BY <2>5 DEF Value, Node
    <3>2. \A e \in Dsts : src[e] # d
      BY <1>3 DEF Readers
    <3>3. \A e \in Dsts : src'[e] = IF e = d THEN NoEdge ELSE src[e]
      BY <1>5, <2>3 DEF TypeOK
    <3>4. \A e \in Dsts : src[e] # NoEdge => src[e] \in Node
      BY <1>5 DEF TypeOK
    <3>5. ASSUME NEW e \in Dsts
          PROVE  IF src'[e] = NoEdge THEN regs'[e] = {From(e)} ELSE Value(src[e])' = {From(e)}
      <4>1. CASE e = d
        BY <2>4, <2>5, <3>3, <4>1
      <4>2. CASE e # d /\ src[e] = NoEdge
        BY <1>5, <2>5, <3>3, <4>2 DEF ValuesOK
      <4>3. CASE e # d /\ src[e] # NoEdge
        BY <1>6, <3>1, <3>2, <3>3, <3>4, <4>3 DEF ValuesOK
      <4> QED  BY <4>1, <4>2, <4>3
    <3>6. \A r \in Register : r \in Dsts \/ regs'[r] = {r}
      BY <2>1, <2>5 DEF ValuesOK
    <3>7. \A e \in Dsts : src'[e] # NoEdge => Held(src[e])' = {From(e)}
      BY <1>6, <3>5
    <3> QED  BY <1>5, <3>3, <3>5, <3>6, <3>7 DEF ValuesOK
  <2> QED  BY <2>3, <2>6, <2>7, <2>8, <2>9, <2>10
<1> QED  BY <1>7, <1>8

(* When every element of a finite set is the image of one, the function is *)
(* a permutation of the set: what the drained graph is on its edges.       *)
LEMMA Permutes ==
    ASSUME NEW E, IsFiniteSet(E), NEW f, DOMAIN f = E, f = [e \in E |-> f[e]],
           \A e \in E : \E d \in E : f[d] = e
    PROVE  /\ \A e \in E : f[e] \in E
           /\ \A d, e \in E : f[d] = f[e] => d = e
<1> DEFINE T == { f[e] : e \in E }
<1>1. f \in Surjection(E, T) /\ E \subseteq T
  BY DEF Surjection
<1>2. IsFiniteSet(T) /\ Cardinality(T) <= Cardinality(E)
      /\ (Cardinality(T) = Cardinality(E) <=> f \in Injection(E, T))
  BY <1>1, FS_Surjection
<1>3. Cardinality(E) <= Cardinality(T) /\ (Cardinality(T) = Cardinality(E) => T = E)
  BY <1>1, <1>2, FS_Subset
<1>4. Cardinality(E) \in Nat /\ Cardinality(T) \in Nat
  BY <1>2, FS_CardinalityType
<1>5. Cardinality(T) = Cardinality(E)
  BY <1>2, <1>3, <1>4
<1> QED  BY <1>2, <1>3, <1>5 DEF Injection, IsInjective

LEMMA BeginCyclesInv ==
    ASSUME IInv, BeginCycles PROVE IInv'
<1> USE DEF IInv
<1>1. /\ phase = "ready" /\ phase' = "cycles" /\ ready = << >> /\ i = 1
      /\ UNCHANGED <<copy, src, reads, ready, i, p, regs>>
      /\ emitted' = {} /\ exchanged' = {}
  BY DEF BeginCycles, EmitNothing, Drained, graphVars, PassedOK
<1>2. Dsts' = Dsts /\ \A n : Readers(n)' = Readers(n) /\ From(n)' = From(n)
  BY <1>1 DEF Dsts, Readers, From
<1>3. TypeOK' /\ EdgesOK' /\ ReadsExact' /\ ReadyOK' /\ RotateOK'
  BY <1>1, <1>2 DEF TypeOK, EdgesOK, ReadsExact, ReadyOK, RotateOK
<1>4. PassedOK'
  BY <1>1, CopyFacts DEF PassedOK, TypeOK
<1>5. CyclesOK'
  <2> DEFINE E == { d \in Dsts : src[d] # NoEdge }
  <2> DEFINE f == [d \in E |-> src[d]]
  <2>1. IsFiniteSet(E)
    BY CopyFacts, FS_Subset DEF TypeOK
  <2>2. \A e \in E : \E d \in E : f[d] = e
    <3> SUFFICES ASSUME NEW e \in E PROVE \E d \in E : src[d] = e
      OBVIOUS
    <3>1. Readers(e) # {}
      BY <1>1 DEF ReadyOK
    <3>2. e \in Node
      BY CopyFacts DEF TypeOK, Node
    <3> QED  BY <3>1, <3>2, CopyAssumption DEF Readers
  <2>3. DOMAIN f = E /\ f = [e \in E |-> f[e]]
    OBVIOUS
  <2>4. /\ \A e \in E : f[e] \in E
        /\ \A d, e \in E : f[d] = f[e] => d = e
    <3> HIDE DEF f, E
    <3> QED  BY <2>1, <2>2, <2>3, Permutes
  <2>5. \A d \in Dsts : src[d] # NoEdge =>
           src[d] \in Dsts /\ src[src[d]] # NoEdge /\ Readers(d) # {}
    <3>1. \A d \in Dsts : src[d] # NoEdge => Readers(d) # {}
      BY <1>1 DEF ReadyOK
    <3>2. \A d \in Dsts : src[d] # NoEdge => src[d] \in E
      BY <2>4
    <3> QED  BY <3>1, <3>2
  <2>6. \A d, e \in Dsts : src[d] = src[e] /\ src[d] # NoEdge => d = e
    BY <2>4
  <2>7. src' = src
    BY <1>1
  <2> QED  BY <1>2, <2>5, <2>6, <2>7 DEF CyclesOK
<1>6. ValuesOK'
  <2>1. \A n : Held(n)' = Held(n)
    BY <1>1 DEF Held, Broken, Value
  <2> QED  BY <1>1, <1>2, <2>1 DEF ValuesOK
<1> QED  BY <1>3, <1>4, <1>5, <1>6

(* The two steps of the second loop that leave graph and registers alone.  *)
LEMMA SkipInv ==
    ASSUME IInv, Skip \/ Finish PROVE IInv'
<1> USE DEF IInv
<1>1. /\ phase = "cycles" /\ phase' \in {"cycles", "done"} /\ i' \in {i, i + 1}
      /\ i' = i + 1 => src[Start] = NoEdge /\ i <= Len(copy)
      /\ phase' = "done" => i' = i /\ i > Len(copy)
      /\ UNCHANGED <<copy, src, reads, ready, p, regs>>
      /\ emitted' = {} /\ exchanged' = {}
  BY DEF Skip, Finish, EmitNothing, graphVars, TypeOK, Remaining
<1>2. Dsts' = Dsts /\ \A n : Readers(n)' = Readers(n) /\ From(n)' = From(n)
  BY <1>1 DEF Dsts, Readers, From
<1>3. TypeOK' /\ EdgesOK' /\ ReadsExact' /\ ReadyOK' /\ RotateOK'
  BY <1>1, <1>2 DEF TypeOK, EdgesOK, ReadsExact, ReadyOK, RotateOK
<1>4. PassedOK'
  <2>1. \A n \in DOMAIN copy : n < i => src[copy[n].dst] = NoEdge
    BY <1>1 DEF PassedOK
  <2>2. \A n \in DOMAIN copy : n < i' => n < i \/ (i' = i + 1 /\ n = i)
    <3>1. \A n \in DOMAIN copy : n \in Nat
      BY CopyFacts DEF TypeOK
    <3>2. i \in Nat
      BY DEF TypeOK
    <3>3. i' = i \/ i' = i + 1
      BY <1>1
    <3> QED  BY <3>1, <3>2, <3>3
  <2>3. \A n \in DOMAIN copy : n < i' => src'[copy'[n].dst] = NoEdge
    BY <1>1, <2>1, <2>2 DEF Start
  <2> QED  BY <1>1, <2>3 DEF PassedOK
<1>5. CyclesOK'
  BY <1>1, <1>2 DEF CyclesOK, Broken, Unread
<1>6. ValuesOK'
  <2>1. \A n : Held(n)' = Held(n)
    BY <1>1 DEF Held, Broken, Value
  <2> QED  BY <1>1, <1>2, <2>1 DEF ValuesOK
<1> QED  BY <1>3, <1>4, <1>5, <1>6

LEMMA XorSwaps ==
    ASSUME NEW a, NEW b
    PROVE  Xor(Xor(a, b), b) = a /\ Xor(Xor(a, b), a) = b
BY DEF Xor

LEMMA SwapInv ==
    ASSUME IInv, Swap PROVE IInv'
<1> USE DEF IInv
<1>0. PICK d, j, k : d = Start /\ j = src[d] /\ k = src[j]
  OBVIOUS
<1>1. /\ phase = "cycles" /\ phase' = "cycles" /\ i \in Nat /\ i <= Len(copy)
      /\ copy' = copy /\ ready' = ready /\ i' = i /\ p' = p
      /\ emitted' = {} /\ exchanged' = {<<j, k>>}
      /\ j # NoEdge /\ regs' = Swapped(j, k)
      /\ src' = [src EXCEPT ![d] = IF k = d THEN NoEdge ELSE k, ![j] = NoEdge]
      /\ reads' = IF k = d THEN [reads EXCEPT ![j] = @ - 1, ![k] = @ - 1]
                           ELSE [reads EXCEPT ![j] = @ - 1]
  BY <1>0 DEF Swap, SwapReads, Remaining, TypeOK
<1>2. /\ Dsts' = Dsts /\ Dsts \subseteq Register /\ Dsts \subseteq Node
      /\ \A n : From(n)' = From(n)
      /\ \A n \in DOMAIN copy : copy[n].dst \in Dsts
      /\ i \in DOMAIN copy
  <2>1. Dsts' = Dsts /\ \A n : From(n)' = From(n)
    BY <1>1 DEF Dsts, From
  <2>2. i \in Nat \ {0}
    BY DEF TypeOK
  <2> QED  BY <1>1, <2>1, <2>2, CopyFacts DEF TypeOK, Node
<1>3. \A n : ~Broken(n) /\ ~Unread(n) /\ ~Broken(n)' /\ ~Unread(n)'
  BY <1>1 DEF Broken, Unread
<1>4. d \in Dsts /\ j \in Dsts /\ k # NoEdge /\ k \in Dsts /\ j # d /\ j # k
  BY <1>0, <1>1, <1>2, <1>3 DEF Start, CyclesOK, EdgesOK
<1>5. \A e \in Node : src'[e] = IF e = j THEN NoEdge
                                ELSE IF e = d THEN IF k = d THEN NoEdge ELSE k
                                ELSE src[e]
  BY <1>1, <1>2, <1>4 DEF TypeOK
<1>6. \A e \in Dsts : /\ src[e] = j => e = d
                      /\ src[e] = k => e = j
  BY <1>0, <1>1, <1>4 DEF CyclesOK
<1>7. /\ regs'[j] = regs[k] /\ regs'[k] = regs[j]
      /\ \A r \in Register : r # j /\ r # k => regs'[r] = regs[r]
      /\ regs' \in [Register \cup Temporary -> SUBSET (Node \cup Temporary)]
  <2>1. regs' = [regs EXCEPT ![j] = regs[k], ![k] = regs[j]]
    <3>1. /\ Xor(Xor(regs[j], regs[k]), regs[k]) = regs[j]
          /\ Xor(Xor(regs[j], regs[k]), regs[j]) = regs[k]
      BY XorSwaps
    <3> QED  BY <1>1, <1>4, <3>1 DEF Swapped
  <2>2. j \in Register \cup Temporary /\ k \in Register \cup Temporary
    BY <1>2, <1>4
  <2> QED  BY <1>4, <2>1, <2>2 DEF TypeOK
<1>8. src' \in [Node -> Node \cup {NoEdge}]
  <2>1. src' = [n \in Node |-> src'[n]]
    BY <1>1 DEF TypeOK
  <2>2. \A n \in Node : src'[n] \in Node \cup {NoEdge}
    BY <1>2, <1>4, <1>5 DEF TypeOK
  <2> QED  BY <2>1, <2>2
<1>9. \A n \in Node : reads'[n] = Cardinality(Readers(n)') /\ reads'[n] \in Nat
  <2>1. Readers(j) = {d} /\ Readers(k) = {j} /\ j \in Node /\ k \in Node
    BY <1>0, <1>2, <1>4, <1>6 DEF Readers
  <2>2. reads[j] = 1 /\ reads[k] = 1
    BY <2>1, FS_Singleton DEF ReadsExact
  <2>3. \A n : Readers(n)' = { e \in Dsts : src'[e] = n }
    BY <1>2 DEF Readers
  <2> SUFFICES ASSUME NEW n \in Node
               PROVE  reads'[n] = Cardinality(Readers(n)') /\ reads'[n] \in Nat
    OBVIOUS
  <2>4. CASE n = j
    <3>1. Readers(n)' = {}
      BY <1>2, <1>4, <1>5, <1>6, <2>3, <2>4, CopyAssumption
    <3>2. reads'[n] = 0
      BY <1>1, <1>4, <2>1, <2>2, <2>4 DEF TypeOK
    <3> QED  BY <3>1, <3>2, FS_EmptySet
  <2>5. CASE n = k /\ k = d
    <3>1. Readers(n)' = {}
      BY <1>2, <1>4, <1>5, <1>6, <2>3, <2>5, CopyAssumption
    <3>2. reads'[n] = 0
      BY <1>1, <1>4, <2>1, <2>2, <2>5 DEF TypeOK
    <3> QED  BY <3>1, <3>2, FS_EmptySet
  <2>6. CASE n = k /\ k # d
    <3>1. Readers(n)' = {d}
      BY <1>2, <1>4, <1>5, <1>6, <2>3, <2>6, CopyAssumption
    <3>2. reads'[n] = 1
      BY <1>1, <1>4, <2>1, <2>2, <2>6 DEF TypeOK
    <3>3. Cardinality({d}) = 1
      BY FS_Singleton
    <3> QED  BY <3>1, <3>2, <3>3
  <2>7. CASE n # j /\ n # k
    <3>1. Readers(n)' = Readers(n)
      BY <1>0, <1>2, <1>4, <1>5, <2>3, <2>7, CopyAssumption DEF Readers
    <3>2. reads'[n] = reads[n]
      BY <1>1, <2>1, <2>7 DEF TypeOK
    <3> QED  BY <3>1, <3>2 DEF ReadsExact, TypeOK
  <2> QED  BY <2>4, <2>5, <2>6, <2>7
<1>10. TypeOK' /\ ReadsExact'
  <2>1. reads' = [n \in Node |-> reads'[n]]
    BY <1>1 DEF TypeOK
  <2>2. reads' \in [Node -> Nat]
    BY <1>9, <2>1
  <2>3. exchanged' \subseteq Register \X Register
    BY <1>1, <1>2, <1>4
  <2> QED  BY <1>1, <1>7, <1>8, <1>9, <2>2, <2>3 DEF TypeOK, ReadsExact
<1>11. EdgesOK' /\ ReadyOK' /\ RotateOK'
  <2>1. \A n \in Node : src'[n] # NoEdge => n \in Dsts /\ src'[n] # n
    BY <1>0, <1>4, <1>5 DEF EdgesOK
  <2> QED  BY <1>1, <1>2, <2>1 DEF EdgesOK, ReadyOK, RotateOK
<1>12. PassedOK'
  <2>1. \A n \in DOMAIN copy : n < i => src[copy[n].dst] = NoEdge
    BY <1>1 DEF PassedOK
  <2> QED  BY <1>0, <1>1, <1>2, <1>4, <1>5, <2>1 DEF PassedOK
<1>13. CyclesOK'
  <2>0. \A n : Readers(n)' = { e \in Dsts : src'[e] = n }
    BY <1>2 DEF Readers
  <2>1. \A a, b \in Dsts : src'[a] = src'[b] /\ src'[a] # NoEdge => a = b
    BY <1>1, <1>2, <1>4, <1>5, <1>6 DEF CyclesOK
  <2>2. ASSUME NEW a \in Dsts, src'[a] # NoEdge
        PROVE  src'[a] \in Dsts /\ src'[src'[a]] # NoEdge /\ Readers(a)' # {}
    <3>1. src'[a] \in Dsts /\ src'[src'[a]] # NoEdge
      <4>1. CASE a = d
        <5>1. k # d /\ src'[a] = k
          BY <1>2, <1>4, <1>5, <2>2, <4>1
        <5>2. src[k] # NoEdge
          BY <1>0, <1>1, <1>3, <1>4 DEF CyclesOK
        <5> QED  BY <1>2, <1>4, <1>5, <5>1, <5>2
      <4>2. CASE a # d
        <5>1. src'[a] = src[a] /\ src[a] # NoEdge /\ src[a] # j
          BY <1>2, <1>5, <1>6, <2>2, <4>2
        <5>2. src[a] \in Dsts /\ src[src[a]] # NoEdge
          BY <1>1, <1>3, <5>1 DEF CyclesOK
        <5>3. src[a] = d => k # d
          BY <1>4, <1>5, <1>6, <1>2, <2>2, <5>1
        <5> QED  BY <1>2, <1>4, <1>5, <5>1, <5>2, <5>3
      <4> QED  BY <4>1, <4>2
    <3>2. a # j /\ src[a] # NoEdge
      BY <1>0, <1>1, <1>2, <1>5, <2>2
    <3>3. PICK e \in Dsts : src[e] = a
      BY <1>1, <1>3, <3>2 DEF CyclesOK, Readers
    <3>4. CASE a = k
      <4>1. src'[d] = a
        BY <1>2, <1>4, <1>5, <2>2, <3>4
      <4>2. d \in Readers(a)'
        BY <1>4, <2>0, <4>1
      <4> QED  BY <3>1, <4>2
    <3>5. CASE a # k
      <4>1. e # d /\ e # j
        BY <1>0, <3>2, <3>3, <3>5
      <4>2. src'[e] = a
        BY <1>2, <1>5, <3>3, <4>1
      <4>3. e \in Readers(a)'
        BY <2>0, <4>2
      <4> QED  BY <3>1, <4>3
    <3> QED  BY <3>1, <3>4, <3>5
  <2> QED  BY <1>2, <2>1, <2>2 DEF CyclesOK
<1>14. ValuesOK'
  <2>1. \A n : Held(n) = Value(n) /\ Held(n)' = Value(n)'
    BY <1>3 DEF Held
  <2>2. \A e \in Dsts : Value(e) = regs[e] /\ Value(e)' = regs'[e]
    BY <1>2, CopyAssumption DEF Value
  <2>3. \A n \in Node : n # j /\ n # k => Value(n)' = Value(n)
    BY <1>7 DEF Value, Node
  <2>4. regs[j] = {From(d)} /\ regs[k] = {From(j)}
    BY <1>0, <1>1, <1>4, <2>1, <2>2 DEF ValuesOK
  <2>5. ASSUME NEW e \in Dsts
        PROVE  /\ src'[e] = NoEdge => regs'[e] = {From(e)}
               /\ \A n \in Node : src'[e] = n => Value(n)' = {From(e)}
    <3>0. NoEdge \notin Node
      BY CopyAssumption
    <3>1. CASE e = j
      BY <3>0, <1>2, <1>4, <1>5, <1>7, <2>4, <3>1
    <3>2. CASE e = d
      <4>1. src'[d] = NoEdge => regs'[d] = {From(d)}
        BY <1>2, <1>4, <1>5, <1>7, <2>4
      <4>2. Value(k)' = {From(d)}
        BY <1>4, <1>7, <2>2, <2>4
      <4> QED  BY <1>2, <1>4, <1>5, <3>0, <3>2, <4>1, <4>2
    <3>3. CASE e # j /\ e # d /\ src[e] = NoEdge
      <4>1. src'[e] = NoEdge /\ e # k /\ regs[e] = {From(e)}
        <5>1. (src'[e] = NoEdge /\ e # k) \/ e = k
          BY <1>2, <1>5, <3>3
        <5>2. src[k] # NoEdge
          BY <1>0, <1>1, <1>3, <1>4 DEF CyclesOK
        <5> QED  BY <3>3, <5>1, <5>2 DEF ValuesOK
      <4> QED  BY <1>2, <1>7, <3>0, <3>3, <4>1
    <3>4. CASE e # j /\ e # d /\ src[e] # NoEdge
      <4>1. src'[e] = src[e] /\ src[e] \in Node /\ src[e] # j /\ src[e] # k
        BY <1>2, <1>5, <1>6, <3>4 DEF TypeOK
      <4>2. \A n \in Node : n = src[e] => Value(n)' = Value(n) /\ Value(n) = {From(e)}
        BY <2>1, <2>3, <3>4, <4>1 DEF ValuesOK
      <4> QED  BY <3>4, <4>1, <4>2
    <3> QED  BY <3>1, <3>2, <3>3, <3>4
  <2>6. \A r \in Register : r \in Dsts \/ regs'[r] = {r}
    BY <1>4, <1>7 DEF ValuesOK
  <2>7. \A e \in Dsts : src'[e] # NoEdge => src'[e] \in Node
    BY <1>2, <1>8
  <2> QED  BY <1>2, <2>1, <2>5, <2>6, <2>7 DEF ValuesOK
<1> QED  BY <1>10, <1>11, <1>12, <1>13, <1>14

LEMMA SaveInv ==
    ASSUME IInv, Save PROVE IInv'
<1> USE DEF IInv
<1>0. PICK d : d = Start
  OBVIOUS
<1>1. /\ phase = "cycles" /\ phase' = "rotate" /\ i \in Nat /\ i <= Len(copy)
      /\ copy' = copy /\ src' = src /\ reads' = reads /\ ready' = ready /\ i' = i
      /\ p' = d /\ src[d] # NoEdge /\ emitted' = {<<Tmp0, d>>} /\ exchanged' = {}
      /\ regs' = [regs EXCEPT ![Tmp0] = regs[d]]
  BY <1>0 DEF Save, Remaining, graphVars, TypeOK
<1>2. /\ Dsts' = Dsts /\ Start' = Start
      /\ \A n : Readers(n)' = Readers(n) /\ From(n)' = From(n)
  BY <1>1 DEF Dsts, Readers, From, Start
<1>3. i \in DOMAIN copy /\ d \in Dsts /\ d \in Node /\ Dsts \subseteq Register
  <2>1. i \in Nat \ {0}
    BY DEF TypeOK
  <2>2. i \in DOMAIN copy
    BY <1>1, <2>1, CopyFacts DEF TypeOK
  <2> QED  BY <1>0, <2>2, CopyFacts DEF TypeOK, Start, Node
<1>4. Tmp0 \notin Node /\ Tmp0 \in Register \cup Temporary
  BY CopyAssumption DEF Temporary
<1>5. /\ regs'[Tmp0] = regs[d] /\ \A r \in Register : regs'[r] = regs[r]
      /\ regs' \in [Register \cup Temporary -> SUBSET (Node \cup Temporary)]
  BY <1>1, <1>3, <1>4 DEF TypeOK, Node
<1>6. TypeOK'
  <2>1. emitted' \subseteq (Register \cup Temporary) \X (Node \cup Temporary)
    BY <1>1, <1>3, <1>4
  <2> QED  BY <1>1, <1>3, <1>5, <2>1 DEF TypeOK
<1>7. EdgesOK' /\ ReadsExact' /\ ReadyOK' /\ PassedOK'
  BY <1>1, <1>2 DEF EdgesOK, ReadsExact, ReadyOK, PassedOK
<1>8. CyclesOK' /\ RotateOK'
  <2>1. \A n : ~Broken(n) /\ ~Unread(n)
    BY <1>1 DEF Broken, Unread
  <2>2. CyclesOK'
    BY <1>1, <1>2, <2>1 DEF CyclesOK
  <2> QED  BY <1>0, <1>1, <1>2, <1>3, <2>2 DEF RotateOK
<1>9. ValuesOK'
  <2>1. \A n \in Node : Held(n) = Value(n)
    BY <1>1 DEF Held, Broken
  <2>2. \A n \in Node : Value(n)' = Value(n)
    BY <1>5 DEF Value, Node
  <2>3. \A n \in Node : Held(n)' = IF n = d THEN regs'[Tmp0] ELSE Value(n)'
    BY <1>0, <1>1, <1>2 DEF Held, Broken
  <2>4. Value(d) = regs[d]
    BY <1>3, CopyAssumption DEF Value
  <2>5. \A n \in Node : Held(n)' = Held(n)
    BY <1>3, <1>5, <2>1, <2>2, <2>3, <2>4
  <2>6. \A e \in Dsts : src[e] # NoEdge => src[e] \in Node
    BY <1>3 DEF TypeOK, Node
  <2> QED  BY <1>1, <1>2, <1>3, <1>5, <2>5, <2>6 DEF ValuesOK
<1> QED  BY <1>6, <1>7, <1>8, <1>9

(* What a rotation and the restoring of the first node have in common: the *)
(* edge of p goes and p gets what it is owed.                              *)
LEMMA RotationFacts ==
    ASSUME IInv, phase = "rotate", UNCHANGED <<copy, i, ready>>, DelEdge(p, src[p]),
           phase' \in {"rotate", "cycles"}
    PROVE  /\ p \in Dsts /\ p \in Node /\ src[p] # NoEdge /\ src[p] # p /\ src[p] \in Dsts
           /\ Start \in Dsts /\ Dsts \subseteq Register /\ Dsts \subseteq Node
           /\ Dsts' = Dsts /\ Start' = Start /\ \A n : From(n)' = From(n)
           /\ ReadsExact' /\ reads' \in [Node -> Nat]
           /\ src' \in [Node -> Node \cup {NoEdge}]
           /\ \A n \in Node : src'[n] = IF n = p THEN NoEdge ELSE src[n]
           /\ \A n \in Node : Readers(n)' = Readers(n) \ {p}
           /\ Held(src[p]) = {From(p)}
           /\ \A e \in Dsts : src[e] = src[p] => e = p
           /\ p # Start => src[Start] = NoEdge /\ \A e \in Dsts : src[e] # p
           /\ EdgesOK' /\ ReadyOK' /\ PassedOK'
<1> USE DEF IInv
<1>1. p \in Dsts /\ src[p] # NoEdge /\ i \in DOMAIN copy
      /\ (p # Start => src[Start] = NoEdge /\ \A e \in Dsts : src[e] # p)
  BY DEF RotateOK, Readers
<1>2. /\ Dsts \subseteq Register /\ Dsts \subseteq Node
      /\ \A n \in DOMAIN copy : copy[n].dst \in Dsts
  BY CopyFacts DEF TypeOK, Node
<1>3. Dsts' = Dsts /\ Start' = Start /\ Start \in Dsts /\ \A n : From(n)' = From(n)
  BY <1>1, <1>2 DEF Dsts, Start, From
<1>4. /\ ReadsExact' /\ reads' \in [Node -> Nat]
      /\ src' \in [Node -> Node \cup {NoEdge}]
      /\ src' = [src EXCEPT ![p] = NoEdge]
      /\ \A n \in Node : Readers(n)' = Readers(n) \ {p}
  BY <1>1, <1>2, DelEdgeCounts
<1>5. \A n \in Node : src'[n] = IF n = p THEN NoEdge ELSE src[n]
  BY <1>4 DEF TypeOK
<1>6. Held(src[p]) = {From(p)}
  BY <1>1 DEF ValuesOK
<1>7. src[p] \in Dsts /\ \A e \in Dsts : src[e] = src[p] => e = p
  BY <1>1 DEF CyclesOK
<1>8. src[p] # p
  BY <1>1, <1>2 DEF EdgesOK
<1>9. EdgesOK'
  BY <1>3, <1>5 DEF EdgesOK
<1>10. ReadyOK' /\ PassedOK'
  <2>1. \A n \in DOMAIN copy : n < i => src[copy[n].dst] = NoEdge
    BY DEF PassedOK
  <2>2. \A n \in DOMAIN copy : n < i => src'[copy[n].dst] = NoEdge
    BY <1>2, <1>5, <2>1
  <2> QED  BY <2>2 DEF ReadyOK, PassedOK
<1> QED  BY <1>1, <1>2, <1>3, <1>4, <1>5, <1>6, <1>7, <1>8, <1>9, <1>10

LEMMA RotateInv ==
    ASSUME IInv, Rotate PROVE IInv'
<1> USE DEF IInv
<1>0. PICK q, j, d : q = p /\ j = src[p] /\ d = Start
  OBVIOUS
<1>1. /\ phase = "rotate" /\ phase' = "rotate" /\ j # d /\ p' = j /\ exchanged' = {}
      /\ copy' = copy /\ ready' = ready /\ i' = i /\ DelEdge(p, src[p])
      /\ \/ regs' = [regs EXCEPT ![Tmp1] = regs[j], ![q] = regs[j]]
            /\ emitted' = {<<Tmp1, j>>, <<q, Tmp1>>}
         \/ regs' = [regs EXCEPT ![q] = regs[j]] /\ emitted' = {<<q, j>>}
  BY <1>0 DEF Rotate
<1>2. /\ q \in Dsts /\ q \in Node /\ j # NoEdge /\ j # q /\ j \in Dsts
      /\ d \in Dsts /\ Dsts \subseteq Register /\ Dsts \subseteq Node
      /\ Dsts' = Dsts /\ Start' = d /\ \A n : From(n)' = From(n)
      /\ ReadsExact' /\ reads' \in [Node -> Nat]
      /\ src' \in [Node -> Node \cup {NoEdge}]
      /\ \A n \in Node : src'[n] = IF n = q THEN NoEdge ELSE src[n]
      /\ \A n \in Node : Readers(n)' = Readers(n) \ {q}
      /\ Held(j) = {From(q)}
      /\ \A e \in Dsts : src[e] = j => e = q
      /\ q # d => src[d] = NoEdge /\ \A e \in Dsts : src[e] # q
      /\ EdgesOK' /\ ReadyOK' /\ PassedOK'
  BY <1>0, <1>1, RotationFacts
<1>3. \A n : /\ Broken(n) <=> n = d
             /\ Broken(n)' <=> n = d
             /\ Unread(n) <=> n = q
             /\ Unread(n)' <=> n = j
  BY <1>0, <1>1, <1>2 DEF Broken, Unread
<1>4. regs[j] = {From(q)}
  BY <1>1, <1>2, <1>3, CopyAssumption DEF Held, Value
<1>5. /\ regs'[q] = regs[j] /\ regs'[Tmp0] = regs[Tmp0]
      /\ \A r \in Register : r # q => regs'[r] = regs[r]
      /\ regs' \in [Register \cup Temporary -> SUBSET (Node \cup Temporary)]
  <2>1. /\ q \in Register \cup Temporary /\ j \in Register \cup Temporary
        /\ q \notin Temporary /\ Tmp0 # q /\ Tmp1 # q /\ Tmp0 # Tmp1
        /\ Tmp0 \in Register \cup Temporary /\ Tmp1 \in Register \cup Temporary
        /\ Tmp1 \notin Register
    BY <1>2, CopyAssumption DEF Temporary, Node
  <2>2. CASE regs' = [regs EXCEPT ![Tmp1] = regs[j], ![q] = regs[j]]
    BY <2>1, <2>2 DEF TypeOK
  <2>3. CASE regs' = [regs EXCEPT ![q] = regs[j]]
    BY <2>1, <2>3 DEF TypeOK
  <2> QED  BY <1>1, <2>2, <2>3
<1>6. TypeOK'
  <2>1. emitted' \subseteq (Register \cup Temporary) \X (Node \cup Temporary)
    BY <1>1, <1>2 DEF Temporary
  <2> QED  BY <1>1, <1>2, <1>5, <2>1 DEF TypeOK
<1>7. RotateOK'
  <2>1. src'[j] # NoEdge
    BY <1>0, <1>1, <1>2, <1>3 DEF CyclesOK
  <2>2. src'[d] = NoEdge
    BY <1>2
  <2>3. Readers(j)' = {}
    BY <1>2 DEF Readers
  <2> QED  BY <1>1, <1>2, <2>1, <2>2, <2>3 DEF RotateOK
<1>8. CyclesOK'
  <2>1. \A a, b \in Dsts : src'[a] = src'[b] /\ src'[a] # NoEdge => a = b
    BY <1>1, <1>2 DEF CyclesOK
  <2>2. ASSUME NEW a \in Dsts, src'[a] # NoEdge
        PROVE  /\ src'[a] \in Dsts
               /\ src'[a] = d \/ src'[src'[a]] # NoEdge
               /\ a = j \/ Readers(a)' # {}
    <3>1. a # q /\ src'[a] = src[a] /\ src[a] # NoEdge
      BY <1>2, <2>2
    <3>2. src[a] \in Dsts /\ (src[a] = d \/ src[src[a]] # NoEdge) /\ Readers(a) # {}
      BY <1>1, <1>3, <3>1 DEF CyclesOK
    <3>3. src[a] = d \/ src[a] # q
      BY <1>2
    <3>4. a = j \/ Readers(a) \ {q} # {}
      BY <1>0, <3>2 DEF Readers
    <3> QED  BY <1>2, <3>1, <3>2, <3>3, <3>4
  <2> QED  BY <1>2, <1>3, <2>1, <2>2 DEF CyclesOK
<1>9. ValuesOK'
  <2>1. \A n \in Node : n # q => Value(n)' = Value(n)
    BY <1>5 DEF Value, Node
  <2>2. \A n \in Node : /\ Held(n) = IF n = d THEN regs[Tmp0] ELSE Value(n)
                        /\ Held(n)' = IF n = d THEN regs'[Tmp0] ELSE Value(n)'
    BY <1>3 DEF Held
  <2>3. \A n \in Node : n # q \/ n = d => Held(n)' = Held(n)
    BY <1>5, <2>1, <2>2
  <2>4. \A e \in Dsts : src'[e] = NoEdge => regs'[e] = {From(e)}
    BY <1>2, <1>4, <1>5 DEF ValuesOK
  <2>5. \A e \in Dsts : \A n \in Node : src'[e] = n => Held(n)' = {From(e)}
    <3> SUFFICES ASSUME NEW e \in Dsts, NEW n \in Node, src'[e] = n
                 PROVE  Held(n)' = {From(e)}
      OBVIOUS
    <3>1. src[e] = n /\ n # NoEdge
      BY <1>2, CopyAssumption
    <3>2. n # q \/ n = d
      BY <1>2, <3>1
    <3> QED  BY <2>3, <3>1, <3>2 DEF ValuesOK
  <2>6. \A r \in Register : r \in Dsts \/ regs'[r] = {r}
    BY <1>2, <1>5 DEF ValuesOK
  <2>7. \A e \in Dsts : src'[e] # NoEdge => src'[e] \in Node
    BY <1>2
  <2> QED  BY <1>2, <2>4, <2>5, <2>6, <2>7 DEF ValuesOK
<1> QED  BY <1>2, <1>6, <1>7, <1>8, <1>9

LEMMA RestoreInv ==
    ASSUME IInv, Restore PROVE IInv'
<1> USE DEF IInv
<1>0. PICK q, d : q = p /\ d = Start
  OBVIOUS
<1>1. /\ phase = "rotate" /\ phase' = "cycles" /\ src[p] = d /\ p' = NoEdge
      /\ exchanged' = {}
      /\ copy' = copy /\ ready' = ready /\ i' = i /\ DelEdge(p, src[p])
      /\ regs' = [regs EXCEPT ![q] = regs[Tmp0]] /\ emitted' = {<<q, Tmp0>>}
  BY <1>0 DEF Restore
<1>2. /\ q \in Dsts /\ q \in Node /\ d # q /\ d \in Dsts /\ src[q] = d
      /\ Dsts \subseteq Register /\ Dsts \subseteq Node
      /\ Dsts' = Dsts /\ \A n : From(n)' = From(n)
      /\ ReadsExact' /\ reads' \in [Node -> Nat]
      /\ src' \in [Node -> Node \cup {NoEdge}]
      /\ \A n \in Node : src'[n] = IF n = q THEN NoEdge ELSE src[n]
      /\ \A n \in Node : Readers(n)' = Readers(n) \ {q}
      /\ Held(d) = {From(q)}
      /\ \A e \in Dsts : src[e] = d => e = q
      /\ src[d] = NoEdge /\ \A e \in Dsts : src[e] # q
      /\ EdgesOK' /\ ReadyOK' /\ PassedOK'
  BY <1>0, <1>1, RotationFacts
<1>3. \A n : /\ Broken(n) <=> n = d
             /\ Unread(n) <=> n = q
             /\ ~Broken(n)' /\ ~Unread(n)'
  BY <1>0, <1>1 DEF Broken, Unread
<1>4. regs[Tmp0] = {From(q)}
  BY <1>2, <1>3 DEF Held
<1>5. /\ regs'[q] = regs[Tmp0] /\ \A r \in Register : r # q => regs'[r] = regs[r]
      /\ regs' \in [Register \cup Temporary -> SUBSET (Node \cup Temporary)]
  <2>1. q \in Register \cup Temporary /\ Tmp0 \in Register \cup Temporary
    BY <1>2 DEF Temporary
  <2> QED  BY <1>1, <2>1 DEF TypeOK
<1>6. TypeOK'
  <2>1. emitted' \subseteq (Register \cup Temporary) \X (Node \cup Temporary)
    BY <1>1, <1>2 DEF Temporary
  <2> QED  BY <1>1, <1>2, <1>5, <2>1 DEF TypeOK
<1>7. CyclesOK'
  <2>1. \A a, b \in Dsts : src'[a] = src'[b] /\ src'[a] # NoEdge => a = b
    BY <1>1, <1>2 DEF CyclesOK
  <2>2. ASSUME NEW a \in Dsts, src'[a] # NoEdge
        PROVE  src'[a] \in Dsts /\ src'[src'[a]] # NoEdge /\ Readers(a)' # {}
    <3>1. a # q /\ src'[a] = src[a] /\ src[a] # NoEdge
      BY <1>2, <2>2
    <3>2. src[a] \in Dsts /\ (src[a] = d \/ src[src[a]] # NoEdge) /\ Readers(a) # {}
      BY <1>1, <1>3, <3>1 DEF CyclesOK
    <3>3. src[a] # d /\ src[a] # q
      BY <1>2, <3>1
    <3>4. Readers(a) \ {q} # {}
      BY <1>2, <3>1, <3>2 DEF Readers
    <3> QED  BY <1>2, <3>1, <3>2, <3>3, <3>4
  <2> QED  BY <1>2, <2>1, <2>2 DEF CyclesOK
<1>8. RotateOK'
  BY <1>1 DEF RotateOK
<1>9. ValuesOK'
  <2>1. \A n \in Node : n # q => Value(n)' = Value(n)
    BY <1>5 DEF Value, Node
  <2>2. \A n \in Node : n # d => Held(n) = Value(n)
    BY <1>3 DEF Held
  <2>3. \A n : Held(n)' = Value(n)'
    BY <1>3 DEF Held
  <2>4. \A e \in Dsts : src'[e] = NoEdge => regs'[e] = {From(e)}
    BY <1>2, <1>4, <1>5 DEF ValuesOK
  <2>5. \A e \in Dsts : \A n \in Node : src'[e] = n => Held(n)' = {From(e)}
    <3> SUFFICES ASSUME NEW e \in Dsts, NEW n \in Node, src'[e] = n
                 PROVE  Held(n)' = {From(e)}
      OBVIOUS
    <3>1. src[e] = n /\ n # NoEdge /\ e # q
      BY <1>2, CopyAssumption
    <3>2. n # q /\ n # d
      BY <1>2, <3>1
    <3> QED  BY <2>1, <2>2, <2>3, <3>1, <3>2 DEF ValuesOK
  <2>6. \A r \in Register : r \in Dsts \/ regs'[r] = {r}
    BY <1>2, <1>5 DEF ValuesOK
  <2>7. \A e \in Dsts : src'[e] # NoEdge => src'[e] \in Node
    BY <1>2
  <2> QED  BY <1>2, <2>4, <2>5, <2>6, <2>7 DEF ValuesOK
<1> QED  BY <1>2, <1>6, <1>7, <1>8, <1>9

LEMMA StutterInv ==
    ASSUME IInv, UNCHANGED vars PROVE IInv'
<1>1. /\ Dsts' = Dsts /\ Start' = Start
      /\ \A n : Readers(n)' = Readers(n) /\ From(n)' = From(n) /\ Value(n)' = Value(n)
  BY DEF vars, graphVars, Dsts, Start, Readers, From, Value
<1>2. \A n : Held(n)' = Held(n) /\ Broken(n)' = Broken(n) /\ Unread(n)' = Unread(n)
  BY <1>1 DEF vars, Held, Broken, Unread
<1>3. CyclesOK'
  BY <1>1, <1>2 DEF IInv, vars, graphVars, CyclesOK
<1>4. ValuesOK'
  BY <1>1, <1>2 DEF IInv, vars, graphVars, ValuesOK
<1>5. TypeOK' /\ EdgesOK' /\ ReadsExact' /\ ReadyOK' /\ RotateOK' /\ PassedOK'
  BY <1>1 DEF IInv, vars, graphVars, TypeOK, EdgesOK, ReadsExact, ReadyOK, RotateOK, PassedOK
<1> QED  BY <1>3, <1>4, <1>5 DEF IInv

-----------------------------------------------------------------------------
(* The inductive invariant holds of every run.                             *)
LEMMA InvNext ==
    ASSUME IInv, [Next]_vars PROVE IInv'
<1>1. CASE Scan
  BY <1>1, ScanInv
<1>2. CASE BeginReady
  BY <1>2, BeginReadyInv
<1>3. CASE PopReady
  BY <1>3, PopReadyInv
<1>4. CASE BeginCycles
  BY <1>4, BeginCyclesInv
<1>5. CASE Skip \/ Finish
  BY <1>5, SkipInv
<1>6. CASE Swap
  BY <1>6, SwapInv
<1>7. CASE Save
  BY <1>7, SaveInv
<1>8. CASE Rotate
  BY <1>8, RotateInv
<1>9. CASE Restore
  BY <1>9, RestoreInv
<1>10. CASE UNCHANGED vars
  BY <1>10, StutterInv
<1> QED  BY <1>1, <1>2, <1>3, <1>4, <1>5, <1>6, <1>7, <1>8, <1>9, <1>10 DEF Next

LEMMA Invariance ==
    Spec => []IInv
BY InitInv, InvNext, PTL DEF Spec

(* The graph, the stack, the counters and the registers keep their types.  *)
THEOREM CopyTypes ==
    Spec => []TypeOK
<1>1. IInv => TypeOK
  BY DEF IInv
<1> QED  BY <1>1, Invariance, PTL

(* num_reads is the number of edges that leave a node at every step of     *)
(* lower_par_copy, so a register is reused exactly when nobody wants it.   *)
THEOREM ReadsAreExact ==
    Spec => []ReadsExact
<1>1. IInv => ReadsExact
  BY DEF IInv
<1> QED  BY <1>1, Invariance, PTL

(* The claim of the comment before the second loop: a finite set in which  *)
(* every node that waits is waited for is permuted by the edges.           *)
THEOREM OnlyCyclesAreLeft ==
    Spec => []OnlyCycles
<1>1. ASSUME IInv PROVE OnlyCycles
  <2> USE <1>1 DEF IInv
  <2> SUFFICES ASSUME phase = "cycles", NEW d \in Dsts, src[d] # NoEdge
               PROVE  src[d] \in Dsts /\ src[src[d]] # NoEdge /\ Cardinality(Readers(d)) = 1
    BY DEF OnlyCycles
  <2>1. \A n : ~Broken(n) /\ ~Unread(n)
    BY DEF Broken, Unread
  <2>2. src[d] \in Dsts /\ src[src[d]] # NoEdge /\ Readers(d) # {}
    BY <2>1 DEF CyclesOK
  <2>3. PICK e \in Dsts : src[e] = d
    BY <2>2 DEF Readers
  <2>4. d # NoEdge
    BY CopyFacts, CopyAssumption DEF TypeOK, Node
  <2>5. Readers(d) = {e}
    BY <2>3, <2>4 DEF CyclesOK, Readers
  <2> QED  BY <2>2, <2>5, FS_Singleton
<1> QED  BY <1>1, Invariance, PTL

(* The emitted sequence is the parallel copy, for any number of registers, *)
(* any copy the allocator can ask for and any contents of the registers.   *)
THEOREM CopiesDelivered ==
    Spec => []Delivered
<1>1. ASSUME IInv PROVE Delivered
  <2> USE <1>1 DEF IInv
  <2> SUFFICES ASSUME phase = "done", NEW r \in Register
               PROVE  regs[r] = {IF r \in Dsts THEN From(r) ELSE r}
    BY DEF Delivered
  <2>1. CASE r \in Dsts
    <3>1. PICK n \in DOMAIN copy : copy[n].dst = r
      BY <2>1 DEF Dsts
    <3>2. Len(copy) \in Nat /\ n \in 1 .. Len(copy) /\ i \in Nat /\ i > Len(copy)
      BY CopyFacts DEF TypeOK, PassedOK
    <3>3. src[r] = NoEdge
      BY <3>1, <3>2 DEF PassedOK
    <3> QED  BY <2>1, <3>3 DEF ValuesOK
  <2>2. CASE r \notin Dsts
    BY <2>2 DEF ValuesOK
  <2> QED  BY <2>1, <2>2
<1> QED  BY <1>1, Invariance, PTL

-----------------------------------------------------------------------------
(* Which files are copied to which.  Edges connect what assign_regs and    *)
(* spill_values connect, also where swaps have rewritten them, and a       *)
(* rotation stays in the file it began in.                                 *)
FilesOK ==
    /\ \A d \in Dsts : src[d] # NoEdge => src[d] \in SourceOf(d)
    /\ phase = "rotate" => p \notin Pred /\ Start \notin Pred /\ (p \in Mem <=> Start \in Mem)

LEMMA FilesInit == Init => FilesOK /\ CopiesLowerable
<1> SUFFICES ASSUME Init PROVE FilesOK /\ CopiesLowerable
  OBVIOUS
<1>1. ParallelCopy(copy)
  BY CopyAssumption DEF Init
<1>2. ASSUME NEW d \in Dsts, src[d] # NoEdge PROVE src[d] \in SourceOf(d)
  <2>1. PICK n \in DOMAIN copy : copy[n].dst = d
    BY DEF Dsts
  <2>2. d \in Node
    BY <1>1, CopyFacts DEF Node
  <2>3. src[d] = From(d)
    BY <1>2, <2>2 DEF Init, Edges, From
  <2> QED  BY <1>1, <2>1, <2>3, CopyFacts DEF ParallelCopy
<1> QED  BY <1>2 DEF Init, FilesOK, CopiesLowerable

LEMMA FilesNext ==
    ASSUME IInv, FilesOK, CopiesLowerable, [Next]_vars
    PROVE  FilesOK' /\ CopiesLowerable'
<1> USE DEF IInv
<1>1. /\ Dsts \subseteq Register /\ Dsts \subseteq Node /\ NoEdge \notin Node
      /\ \A n \in DOMAIN copy : copy[n].dst \in Dsts
  BY CopyFacts, CopyAssumption DEF TypeOK, Node
<1>2. /\ \A d \in Gpr : d \notin Pred /\ d \notin Mem /\ d \notin Constant
      /\ \A d \in Pred : d \notin Mem /\ d \notin Constant
      /\ \A d \in Mem : d \notin Constant
      /\ \A d \in Temporary : d \notin Node
  BY CopyAssumption DEF Register
<1>3. ASSUME UNCHANGED <<copy, src>>, phase' # "rotate", emitted' = {}, exchanged' = {}
      PROVE  FilesOK' /\ CopiesLowerable'
  BY <1>3 DEF FilesOK, CopiesLowerable, Dsts
<1>4. CASE Scan \/ BeginReady \/ BeginCycles \/ Skip \/ Finish
  BY <1>3, <1>4 DEF Scan, BeginReady, BeginCycles, Skip, Finish, EmitNothing, graphVars
<1>5. CASE PopReady
  <2> DEFINE d == Last(ready)
             s == src[d]
  <2>1. ready # << >> /\ d \in Node
    BY <1>5, FrontFacts DEF PopReady, TypeOK
  <2>2. CASE s = NoEdge
    BY <1>3, <1>5, <2>2 DEF PopReady
  <2>3. CASE s # NoEdge
    <3>1. d \in Dsts /\ s \in SourceOf(d)
      BY <2>1, <2>3 DEF EdgesOK, FilesOK
    <3>2. /\ src' = [src EXCEPT ![d] = NoEdge] /\ UNCHANGED <<copy, phase>> /\ phase = "ready"
          /\ emitted' = IF NeedsTmp(d, s) THEN {<<Tmp0, s>>, <<d, Tmp0>>} ELSE {<<d, s>>}
          /\ exchanged' = {}
      BY <1>5, <2>3 DEF PopReady, DelEdge
    <3>3. FilesOK'
      BY <3>2 DEF FilesOK, Dsts, TypeOK
    <3>4. IF NeedsTmp(d, s) THEN Lowerable(Tmp0, s) /\ Lowerable(d, Tmp0) ELSE Lowerable(d, s)
      <4>1. d \in Gpr \/ d \in Pred \/ d \in Mem
        BY <1>1, <3>1 DEF Register
      <4>2. Tmp0 \in Temporary /\ d \notin Temporary
        BY <1>1, <1>2, <3>1 DEF Temporary
      <4> HIDE DEF d, s
      <4> QED  BY <1>2, <3>1, <4>1, <4>2 DEF Lowerable, SourceOf, NeedsTmp
    <3>5. CopiesLowerable'
      BY <3>2, <3>4 DEF CopiesLowerable
    <3> QED  BY <3>3, <3>5
  <2> QED  BY <2>2, <2>3
<1>6. CASE Swap
  <2> DEFINE j == src[Start]
             k == src[j]
  <2>1. Start \in Dsts /\ Start \in Pred /\ j # NoEdge /\ phase = "cycles"
    BY <1>1, <1>6, CopyFacts DEF Swap, CycleUsesSwap, Remaining, Start, TypeOK, Register
  <2>2. j \in Dsts /\ k \in Dsts /\ k # NoEdge
    BY <2>1 DEF CyclesOK, Broken
  <2>3. j \in Pred
    BY <1>1, <1>2, <2>1, <2>2 DEF FilesOK, SourceOf, Constant, Register
  <2>4. k \in SourceOf(Start) /\ k \in Pred
    BY <1>1, <1>2, <2>1, <2>2, <2>3 DEF FilesOK, SourceOf, Constant, Register
  <2>5. /\ src' = [src EXCEPT ![Start] = IF k = Start THEN NoEdge ELSE k, ![j] = NoEdge]
        /\ UNCHANGED <<copy, phase>> /\ emitted' = {} /\ exchanged' = {<<j, k>>}
    BY <1>6 DEF Swap
  <2>6. \A d \in Dsts : src'[d] = NoEdge \/ src'[d] = src[d] \/ (d = Start /\ src'[d] = k)
    BY <1>1, <2>1, <2>2, <2>5 DEF TypeOK
  <2>7. \A d \in Dsts : src'[d] # NoEdge => src'[d] \in SourceOf(d)
    BY <2>4, <2>6 DEF FilesOK
  <2>8. FilesOK'
    BY <2>1, <2>5, <2>7 DEF FilesOK, Dsts
  <2>9. Exchangeable(j, k)
    BY <2>3, <2>4 DEF Exchangeable
  <2>10. CopiesLowerable'
    BY <2>5, <2>9 DEF CopiesLowerable
  <2> QED  BY <2>8, <2>10
<1>7. CASE Save
  <2>1. Start \in Dsts
    BY <1>1, <1>7, CopyFacts DEF Save, Remaining, Start, TypeOK
  <2>2. /\ Start \notin Pred /\ p' = Start /\ UNCHANGED <<copy, src, i>>
        /\ emitted' = {<<Tmp0, Start>>} /\ exchanged' = {}
    BY <1>2, <1>7 DEF Save, CycleUsesSwap, graphVars
  <2>3. Lowerable(Tmp0, Start)
    BY <1>1, <2>1, <2>2 DEF Lowerable, Temporary, Register
  <2>4. Dsts' = Dsts /\ Start' = Start
    BY <2>2 DEF Dsts, Start
  <2>5. FilesOK'
    BY <2>2, <2>4 DEF FilesOK
  <2> QED  BY <2>2, <2>3, <2>5 DEF CopiesLowerable
<1>8. CASE Rotate
  <2> DEFINE j == src[p]
  <2>1. p \in Dsts /\ j # NoEdge /\ j \in Dsts /\ Start' = Start
    BY <1>8 DEF Rotate, RotateOK, CyclesOK, Start
  <2>2. j \in SourceOf(p) /\ p \notin Pred /\ (p \in Mem <=> Start \in Mem)
    BY <1>8, <2>1 DEF Rotate, FilesOK
  <2>3. j \notin Pred /\ (j \in Mem <=> Start \in Mem)
    BY <1>1, <1>2, <2>1, <2>2 DEF SourceOf, Constant, Register
  <2>4. FilesOK'
    BY <1>8, <2>1, <2>2, <2>3 DEF Rotate, DelEdge, FilesOK, Dsts, Start, TypeOK
  <2>5. /\ emitted' = IF Start \in Mem THEN {<<Tmp1, j>>, <<p, Tmp1>>} ELSE {<<p, j>>}
        /\ exchanged' = {}
    BY <1>8 DEF Rotate
  <2>6. CASE Start \in Mem
    <3>1. Lowerable(Tmp1, j) /\ Lowerable(p, Tmp1)
      BY <1>1, <1>2, <2>1, <2>2, <2>3, <2>6 DEF Lowerable, Temporary
    <3> QED  BY <2>4, <2>5, <2>6, <3>1 DEF CopiesLowerable
  <2>7. CASE Start \notin Mem
    <3>1. p \in Gpr /\ j \in Gpr
      BY <1>1, <2>1, <2>2, <2>3, <2>7 DEF Register
    <3>2. Lowerable(p, j)
      BY <3>1 DEF Lowerable
    <3> QED  BY <2>4, <2>5, <2>7, <3>2 DEF CopiesLowerable
  <2> QED  BY <2>6, <2>7
<1>9. CASE Restore
  <2>1. p \in Dsts /\ p \notin Pred
    BY <1>9 DEF Restore, RotateOK, FilesOK
  <2> QED  BY <1>1, <1>2, <1>9, <2>1
           DEF Restore, DelEdge, FilesOK, CopiesLowerable, Lowerable, Dsts, Temporary, Register, TypeOK
<1>10. CASE UNCHANGED vars
  BY <1>10 DEF vars, graphVars, FilesOK, CopiesLowerable, Dsts, Start
<1> QED  BY <1>4, <1>5, <1>6, <1>7, <1>8, <1>9, <1>10 DEF Next

(* Every copy that is emitted, through a temporary where there is none     *)
(* directly, is one LowerCopySwap::lower_copy has an instruction for, and  *)
(* every swap is of two predicates (or two GPRs), as lower_swap asserts,   *)
(* however far earlier swaps have shortened the cycle: lower_par_copy      *)
(* makes neither of them panic, for any parallel copy.                     *)
THEOREM CopiesAreLowerable ==
    Spec => []CopiesLowerable
<1> DEFINE Inv == IInv /\ FilesOK /\ CopiesLowerable
<1>1. Init => Inv
  BY InitInv, FilesInit
<1>2. Inv /\ [Next]_vars => Inv'
  BY FilesNext, InvNext
<1> QED  BY <1>1, <1>2, PTL DEF Spec
=============================================================================
