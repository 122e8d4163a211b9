--------------------------- MODULE AnalysisProofs ---------------------------
(***************************************************************************)
(* Why two analyses find what they look for, in any control-flow graph and *)
(* whatever its blocks do: liveness, which Dataflow solves, and what dead  *)
(* code elimination marks.                                                 *)
(***************************************************************************)
EXTENDS DeadCode, SequenceTheorems, FiniteSums

(* What With evaluates.                                                    *)
LEMMA ChosenOne ==
    ASSUME NEW S, NEW x, S = {x}
    PROVE  (CHOOSE y \in S : TRUE) = x
OBVIOUS

LEMMA GreatestNumber ==
    ASSUME NEW n \in Nat, n # 0
    PROVE  Max(1 .. n) = n
BY DEF Max

LEMMA GreatestMember ==
    ASSUME NEW n \in Nat, NEW T \in SUBSET (1 .. n), T # {}
    PROVE  Max(T) \in T
<1>1. T \subseteq 0 .. n
  OBVIOUS
<1>2. PICK m \in T : \A k \in T : k <= m
  BY <1>1, GreatestElement
<1>3. \A k \in T : m >= k
  BY <1>1, <1>2
<1> QED BY <1>3 DEF Max

(* Two functions of sets of numbers that go on alike from a set without    *)
(* its greatest number to the set are alike.                               *)
LEMMA GreatestIsLast ==
    ASSUME NEW n \in Nat, NEW T \in SUBSET (1 .. n), NEW c, NEW h,
           c[{}] = h[{}],
           \A U \in SUBSET T : U # {} /\ c[U \ {Max(U)}] = h[U \ {Max(U)}] => c[U] = h[U]
    PROVE  c[T] = h[T]
<1> DEFINE Same == { U \in SUBSET T : c[U] = h[U] }
<1>1. IsFiniteSet(T)
  BY FS_Interval, FS_Subset, IsFiniteSet(1 .. n)
<1>2. ASSUME NEW U \in SUBSET T, \A V \in SUBSET U : V # U => V \in Same
      PROVE  c[U] = h[U]
  <2>1. CASE U = {}
    BY <2>1
  <2>2. CASE U # {}
    <3>1. U \ {Max(U)} \in SUBSET U /\ U \ {Max(U)} # U
      BY <2>2, GreatestMember
    <3>2. c[U \ {Max(U)}] = h[U \ {Max(U)}]
      BY <1>2, <3>1
    <3> QED BY <2>2, <3>2
  <2> QED BY <2>1, <2>2
<1>3. \A U \in SUBSET T : (\A V \in SUBSET U : V # U => V \in Same) => U \in Same
  BY <1>2
<1> HIDE DEF Same
<1>4. T \in Same
  BY <1>1, <1>3, SubsetInduction
<1> QED BY <1>4 DEF Same

-----------------------------------------------------------------------------
(* The worklist.                                                           *)

(* One predecessor more, and all of a set of them, the last one last.      *)
Push(queue, p, wanted) == IF p \in wanted THEN PushBack(queue, p) ELSE queue

QueueFold(worklist, preds, wanted, T) ==
    MapThenFoldSet(LAMBDA x, y : With(y, LAMBDA queue : IF x \in wanted THEN PushBack(queue, x) ELSE queue),
                   worklist, LAMBDA i : preds[i], LAMBDA S : Max(S), T)

LEMMA QueuedIsFold ==
    ASSUME NEW worklist, NEW preds, NEW wanted
    PROVE  Queued(worklist, preds, wanted) = QueueFold(worklist, preds, wanted, DOMAIN preds)
BY DEF Queued, Through, FoldLeft, QueueFold

(* The recursive function behind the fold.                                 *)
QueueStep(worklist, preds, wanted, S, g) ==
    [T \in SUBSET S |-> IF T = {} THEN worklist
                        ELSE With(g[T \ {Max(T)}],
                                  LAMBDA queue : IF preds[Max(T)] \in wanted THEN PushBack(queue, preds[Max(T)]) ELSE queue)]

LEMMA QueueIsFixpoint ==
    ASSUME NEW worklist, NEW preds, NEW wanted, NEW S
    PROVE  QueueFold(worklist, preds, wanted, S) = (CHOOSE g : g = QueueStep(worklist, preds, wanted, S, g))[S]
BY DEF QueueFold, MapThenFoldSet, QueueStep

LEMMA WithIs ==
    ASSUME NEW queue, NEW p, NEW wanted
    PROVE  With(queue, LAMBDA q : IF p \in wanted THEN PushBack(q, p) ELSE q) = Push(queue, p, wanted)
<1> DEFINE S == {IF p \in wanted THEN PushBack(q, p) ELSE q : q \in {queue}}
<1>1. S = {Push(queue, p, wanted)}
  BY DEF Push
<1>2. (CHOOSE y \in S : TRUE) = Push(queue, p, wanted)
  BY <1>1, ChosenOne
<1> QED BY <1>2 DEF With

(* The defining equation of the fold, which the recursive function has.    *)
QueueUnfolds(worklist, preds, wanted, T) ==
    QueueFold(worklist, preds, wanted, T) =
        IF T = {} THEN worklist
        ELSE Push(QueueFold(worklist, preds, wanted, T \ {Max(T)}), preds[Max(T)], wanted)

LEMMA QueueFoldUnfolds ==
    ASSUME NEW worklist, NEW preds, NEW wanted, NEW n \in Nat
    PROVE  QueueUnfolds(worklist, preds, wanted, 1 .. n)
<1> DEFINE S == 1 .. n
           Fold(T) == QueueFold(worklist, preds, wanted, T)
           Value(g, T) == IF T = {} THEN worklist ELSE Push(g[T \ {Max(T)}], preds[Max(T)], wanted)
           Good == { T \in SUBSET S : QueueUnfolds(worklist, preds, wanted, T) }
<1>1. \A T \in SUBSET S : T # {} => Max(T) \in T
  BY GreatestMember
<1>2. ASSUME NEW T, NEW g
      PROVE  QueueStep(worklist, preds, wanted, T, g) = [U \in SUBSET T |-> Value(g, U)]
  BY WithIs DEF QueueStep
<1>3. ASSUME NEW T \in SUBSET S, \A U \in SUBSET T : U # T => U \in Good
      PROVE  QueueUnfolds(worklist, preds, wanted, T)
  <2> DEFINE h == [U \in SUBSET T |-> IF U = {} THEN worklist ELSE Push(Fold(U \ {Max(U)}), preds[Max(U)], wanted)]
             Step(g) == [U \in SUBSET T |-> Value(g, U)]
             c == CHOOSE g : g = QueueStep(worklist, preds, wanted, T, g)
  <2>1. \A U \in SUBSET T : U # {} => /\ Max(U) \in U
                                      /\ U \ {Max(U)} \in SUBSET T /\ U \ {Max(U)} # T
    BY <1>1
  <2>2. \A U \in SUBSET T : U # T => h[U] = Fold(U)
    BY <1>3 DEF QueueUnfolds
  <2>3. h = Step(h)
    <3>1. \A U \in SUBSET T : h[U] = Value(h, U)
      BY <2>1, <2>2
    <3> QED BY <3>1
  <2> HIDE DEF h, Value
  <2>4. QueueStep(worklist, preds, wanted, T, h) = h
    <3>1. QueueStep(worklist, preds, wanted, T, h) = Step(h)
      BY <1>2
    <3> QED BY <2>3, <3>1
  <2>5. c = QueueStep(worklist, preds, wanted, T, c)
    BY <2>4
  <2> HIDE DEF c
  <2>6. c = Step(c)
    <3>1. QueueStep(worklist, preds, wanted, T, c) = Step(c)
      BY <1>2
    <3> QED BY <2>5, <3>1
  <2>7. c[T] = h[T]
    <3>1. c[{}] = h[{}]
      BY <2>3, <2>6 DEF Value
    <3>2. ASSUME NEW U \in SUBSET T, U # {}, c[U \ {Max(U)}] = h[U \ {Max(U)}]
          PROVE  c[U] = h[U]
      <4>1. c[U] = Value(c, U) /\ h[U] = Value(h, U)
        BY <2>3, <2>6
      <4> QED BY <3>2, <4>1 DEF Value
    <3> HIDE DEF Step
    <3> QED BY <3>1, <3>2, GreatestIsLast
  <2>8. Fold(T) = c[T]
    BY QueueIsFixpoint DEF c
  <2>9. h[T] = IF T = {} THEN worklist ELSE Push(Fold(T \ {Max(T)}), preds[Max(T)], wanted)
    BY DEF h
  <2> QED BY <2>7, <2>8, <2>9 DEF QueueUnfolds
<1> HIDE DEF Good
<1>4. \A T \in SUBSET S : (\A U \in SUBSET T : U # T => U \in Good) => T \in Good
  BY <1>3 DEF Good
<1>5. IsFiniteSet(S)
  BY FS_Interval
<1> HIDE DEF S
<1>6. S \in Good
  <2>1. SUBSET S \subseteq Good
    BY <1>4, <1>5, SubsetInduction
  <2> QED BY <2>1
<1> QED BY <1>6 DEF Good, S

(* Whom a visit leaves to visit: those that were to be visited before, and *)
(* the predecessors wanted.                                                *)
LEMMA QueuedAre ==
    ASSUME NEW S, NEW worklist \in Seq(S), NEW preds \in Seq(S), NEW wanted
    PROVE  /\ Queued(worklist, preds, wanted) \in Seq(S)
           /\ Range(Queued(worklist, preds, wanted)) = Range(worklist) \union (Range(preds) \intersect wanted)
<1> DEFINE n == Len(preds)
           Fold(k) == QueueFold(worklist, preds, wanted, 1 .. k)
           Told(k) == {preds[i] : i \in 1 .. k} \intersect wanted
           Holds(k) == Fold(k) \in Seq(S) /\ Range(Fold(k)) = Range(worklist) \union Told(k)
           Bad == {k \in 0 .. n : ~Holds(k)}
<1>1. n \in Nat /\ DOMAIN preds = 1 .. n /\ \A i \in 1 .. n : preds[i] \in S
  OBVIOUS
<1>2. Fold(0) = worklist
  BY QueueFoldUnfolds, 1 .. 0 = {} DEF QueueUnfolds
<1>3. \A k \in 1 .. n : Fold(k) = Push(Fold(k - 1), preds[k], wanted)
  <2> SUFFICES ASSUME NEW k \in 1 .. n PROVE Fold(k) = Push(Fold(k - 1), preds[k], wanted)
    OBVIOUS
  <2>1. k \in Nat /\ k # 0 /\ 1 .. k # {}
    <3>1. k \in Nat /\ k >= 1
      BY <1>1
    <3>2. 1 \in 1 .. k
      BY <3>1
    <3>3. 1 .. k # {}
      BY <3>2, Zenon
    <3>4. k # 0
      BY <3>1
    <3> QED BY <3>1, <3>3, <3>4
  <2>0. (1 .. k) \ {k} = 1 .. k - 1
    <3>1. \A i : i \in 1 .. k /\ i # k <=> i \in 1 .. k - 1
      BY <2>1
    <3> QED BY <3>1
  <2>2. Max(1 .. k) = k
    BY <2>1, GreatestNumber
  <2>3. QueueUnfolds(worklist, preds, wanted, 1 .. k)
    BY <2>1, QueueFoldUnfolds
  <2> QED BY <2>0, <2>1, <2>2, <2>3 DEF QueueUnfolds
<1> HIDE DEF Fold
<1>4. Holds(0)
  BY <1>2
<1>5. ASSUME NEW k \in 1 .. n, Holds(k - 1) PROVE Holds(k)
  <2> DEFINE queue == Fold(k - 1)
  <2>1. queue \in Seq(S) /\ Range(queue) = Range(worklist) \union Told(k - 1)
    BY <1>5
  <2>2. preds[k] \in S /\ Fold(k) = Push(queue, preds[k], wanted)
    BY <1>1, <1>3
  <2>3. Told(k) = Told(k - 1) \union ({preds[k]} \intersect wanted)
    <3>1. \A i : i \in 1 .. k <=> i \in 1 .. k - 1 \/ i = k
      BY <1>1
    <3> QED BY <3>1
  <2> HIDE DEF queue
  <2>4. Fold(k) \in Seq(S) /\ Range(Fold(k)) = Range(queue) \union ({preds[k]} \intersect wanted)
    <3>1. Append(queue, preds[k]) \in Seq(S)
      BY <2>1, <2>2
    <3>2. Range(Append(queue, preds[k])) = Range(queue) \union {preds[k]}
      <4> DEFINE longer == Append(queue, preds[k])
      <4>1. /\ Len(queue) \in Nat /\ DOMAIN queue = 1 .. Len(queue)
            /\ DOMAIN longer = 1 .. Len(queue) + 1
            /\ \A i \in 1 .. Len(queue) : longer[i] = queue[i]
            /\ longer[Len(queue) + 1] = preds[k]
        BY <2>1, <2>2
      <4> HIDE DEF longer
      <4>2. \A i \in DOMAIN longer : i \in DOMAIN queue \/ i = Len(queue) + 1
        BY <4>1
      <4>3. Len(queue) + 1 \in DOMAIN longer /\ \A i \in DOMAIN queue : i \in DOMAIN longer
        BY <4>1
      <4>4. Range(longer) \subseteq Range(queue) \union {preds[k]}
        BY <4>1, <4>2 DEF Range
      <4>5. Range(queue) \union {preds[k]} \subseteq Range(longer)
        BY <4>1, <4>3 DEF Range
      <4> QED BY <4>4, <4>5 DEF longer
    <3> QED BY <2>1, <2>2, <3>1, <3>2 DEF Push, PushBack
  <2> HIDE DEF Told
  <2> QED BY <2>1, <2>3, <2>4
<1> HIDE DEF Holds
<1>6. Bad = {}
  <2> SUFFICES ASSUME Bad # {} PROVE FALSE
    OBVIOUS
  <2>1. PICK k \in Bad : \A m \in Bad : k <= m
    <3>1. Bad \subseteq Nat
      BY <1>1
    <3> QED BY <3>1, LeastElement
  <2>2. k # 0
    BY <1>4
  <2>3. k \in 1 .. n /\ k - 1 \in 0 .. n
    BY <1>1, <2>2
  <2>4. k - 1 \notin Bad
    BY <2>1, <2>3
  <2> QED BY <1>5, <2>3, <2>4
<1>7. Holds(n)
  BY <1>1, <1>6
<1>8. Told(n) = Range(preds) \intersect wanted /\ Queued(worklist, preds, wanted) = Fold(n)
  BY <1>1, QueuedIsFold DEF Range, Fold
<1> QED BY <1>7, <1>8 DEF Holds

-----------------------------------------------------------------------------
(* The solver, run on any graph.  A function is given by its graph and its *)
(* blocks; each value is defined before it is used where both happen in    *)
(* one block, as in static single assignment form.                         *)

VARIABLES cfg, blocks, live

Numbers(c) == 1 .. c.size

DefinedFirst(block) ==
    \A v : \A use, def \in DOMAIN block :
        v \in InstrUses(block[use]) /\ v \in InstrDefs(block[def]) => def < use

WellFormed(c, bs) ==
    /\ c.size \in Nat
    /\ c.succ \in [Numbers(c) -> Seq(Numbers(c))] /\ c.pred \in [Numbers(c) -> Seq(Numbers(c))]
    /\ \A a, b \in Numbers(c) : b \in Range(c.succ[a]) <=> a \in Range(c.pred[b])
    /\ \A b \in Numbers(c) : (\E m \in Nat : DOMAIN bs[b] = 1 .. m) /\ DefinedFirst(bs[b])

LivenessInit == WellFormed(cfg, blocks) /\ live = Unsolved(cfg.size)
LivenessNext == ~Solved(live) /\ live' = SolveStep(live, blocks, cfg) /\ UNCHANGED <<cfg, blocks>>
LivenessSpec == LivenessInit /\ [][LivenessNext]_<<cfg, blocks, live>>

(* A path through m blocks that ends where v is used before the block      *)
(* defines it, with no definition of v on the way.                         *)
Carries(c, bs, v, m, path) ==
    /\ path \in [1 .. m -> Numbers(c)]
    /\ \A i \in 1 .. m - 1 : path[i + 1] \in Range(c.succ[path[i]]) /\ v \notin BlockDefs(bs[path[i]])
    /\ UpwardExposed(bs[path[m]], v)

LiveAtEntry(c, bs, b, v) ==
    \E m \in Nat \ {0} : \E path \in [1 .. m -> Numbers(c)] : path[1] = b /\ Carries(c, bs, v, m, path)
LiveAtExit(c, bs, b, v) == \E next \in Range(c.succ[b]) : LiveAtEntry(c, bs, next, v)

(* Once solved, the sets are what paths to uses say they are.              *)
LivenessIsPaths ==
    Solved(live) => \A b \in Numbers(cfg) : \A v :
        /\ v \in live.live_in[b] <=> LiveAtEntry(cfg, blocks, b, v)
        /\ v \in live.live_out[b] <=> LiveAtExit(cfg, blocks, b, v)

(* The inductive invariant.                                                *)
Used(c, bs) == UNION { BlockUses(bs[b]) : b \in Numbers(c) }
SolverStates(c, bs) ==
    [live_in : [Numbers(c) -> SUBSET Used(c, bs)], live_out : [Numbers(c) -> SUBSET Used(c, bs)],
     next : 0 .. c.size, worklist : Seq(Numbers(c))]

(* A block that has been visited and is not waiting for another visit      *)
(* knows what its exit tells it; what a block wants its predecessors know; *)
(* and nothing is thought live that is not.                                *)
Settled(c, bs, s) ==
    \A b \in Numbers(c) : b > s.next =>
        b \in Range(s.worklist) \/ (s.live_out[b] \union BlockUses(bs[b])) \ BlockDefs(bs[b]) \subseteq s.live_in[b]
PassedOn(c, s) ==
    \A b \in Numbers(c) : b > s.next => \A p \in Range(c.pred[b]) : s.live_in[b] \subseteq s.live_out[p]
OnlyLive(c, bs, s) ==
    \A b \in Numbers(c) : /\ \A v \in s.live_in[b] : LiveAtEntry(c, bs, b, v)
                          /\ \A v \in s.live_out[b] : LiveAtExit(c, bs, b, v)

SolverInv(c, bs, s) ==
    s \in SolverStates(c, bs) /\ Settled(c, bs, s) /\ PassedOn(c, s) /\ OnlyLive(c, bs, s)

(* Before any definition in the block, or in a block without one.          *)
LEMMA ExposedIs ==
    ASSUME NEW block, NEW m \in Nat, DOMAIN block = 1 .. m, DefinedFirst(block), NEW v
    PROVE  UpwardExposed(block, v) <=> v \in BlockUses(block) \ BlockDefs(block)
<1>1. v \in BlockUses(block) <=> \E ip \in 1 .. m : v \in InstrUses(block[ip])
  BY DEF BlockUses
<1>2. v \in BlockDefs(block) <=> \E ip \in 1 .. m : v \in InstrDefs(block[ip])
  BY DEF BlockDefs
<1>3. \A use, def \in 1 .. m : v \in InstrUses(block[use]) /\ v \in InstrDefs(block[def]) => def < use
  BY DEF DefinedFirst
<1>4. ASSUME UpwardExposed(block, v) PROVE v \in BlockUses(block) \ BlockDefs(block)
  <2>1. PICK use \in 1 .. m : v \in InstrUses(block[use]) /\ \A def \in 1 .. use - 1 : v \notin InstrDefs(block[def])
    BY <1>4 DEF UpwardExposed
  <2>2. ASSUME NEW def \in 1 .. m, v \in InstrDefs(block[def]) PROVE FALSE
    <3>1. def < use
      BY <1>3, <2>1, <2>2
    <3>2. def \in 1 .. use - 1
      BY <3>1
    <3> QED BY <2>1, <2>2, <3>2
  <2> QED BY <1>1, <1>2, <2>1, <2>2
<1>5. ASSUME v \in BlockUses(block) \ BlockDefs(block) PROVE UpwardExposed(block, v)
  <2>1. PICK use \in 1 .. m : v \in InstrUses(block[use])
    BY <1>1, <1>5
  <2>2. \A def \in 1 .. use - 1 : v \notin InstrDefs(block[def])
    <3>1. \A def \in 1 .. use - 1 : def \in 1 .. m
      OBVIOUS
    <3> QED BY <1>2, <1>5, <3>1
  <2> QED BY <2>1, <2>2 DEF UpwardExposed
<1> QED BY <1>4, <1>5

(* A path goes on backwards from where it begins.                          *)
LEMMA UseIsLive ==
    ASSUME NEW c, NEW bs, WellFormed(c, bs), NEW b \in Numbers(c), NEW v, v \in BlockUses(bs[b]) \ BlockDefs(bs[b])
    PROVE  LiveAtEntry(c, bs, b, v)
<1> DEFINE path == [i \in 1 .. 1 |-> b]
<1>1. UpwardExposed(bs[b], v)
  BY ExposedIs DEF WellFormed
<1>2. path \in [1 .. 1 -> Numbers(c)] /\ path[1] = b /\ 1 \in Nat \ {0} /\ 1 .. 1 - 1 = {}
  OBVIOUS
<1> HIDE DEF path
<1>3. Carries(c, bs, v, 1, path)
  BY <1>1, <1>2 DEF Carries
<1> QED BY <1>2, <1>3 DEF LiveAtEntry

LEMMA ExitIsLive ==
    ASSUME NEW c, NEW bs, NEW b \in Numbers(c), NEW v, v \notin BlockDefs(bs[b]), LiveAtExit(c, bs, b, v)
    PROVE  LiveAtEntry(c, bs, b, v)
<1>0. PICK next \in Range(c.succ[b]), m \in Nat \ {0} :
          \E rest \in [1 .. m -> Numbers(c)] : rest[1] = next /\ Carries(c, bs, v, m, rest)
  BY DEF LiveAtExit, LiveAtEntry
<1>1. PICK rest \in [1 .. m -> Numbers(c)] : rest[1] = next /\ Carries(c, bs, v, m, rest)
  BY <1>0
<1> DEFINE path == [i \in 1 .. m + 1 |-> IF i = 1 THEN b ELSE rest[i - 1]]
<1>2. path \in [1 .. m + 1 -> Numbers(c)] /\ path[1] = b /\ path[m + 1] = rest[m] /\ m + 1 \in Nat \ {0}
  <2>1. \A i \in 1 .. m + 1 : i # 1 => rest[i - 1] \in Numbers(c)
    BY <1>1
  <2> QED BY <1>1, <2>1
<1>3. \A i \in 1 .. m + 1 - 1 : path[i + 1] \in Range(c.succ[path[i]]) /\ v \notin BlockDefs(bs[path[i]])
  <2>1. path[2] = next /\ path[1] = b
    BY <1>1
  <2>2. \A i \in 2 .. m : path[i + 1] = rest[i] /\ path[i] = rest[i - 1]
    BY <1>1
  <2>3. \A i \in 1 .. m - 1 : rest[i + 1] \in Range(c.succ[rest[i]]) /\ v \notin BlockDefs(bs[rest[i]])
    BY <1>1 DEF Carries
  <2> HIDE DEF path
  <2>4. ASSUME NEW i \in 2 .. m
        PROVE  path[i + 1] \in Range(c.succ[path[i]]) /\ v \notin BlockDefs(bs[path[i]])
    <3>1. i - 1 \in 1 .. m - 1 /\ (i - 1) + 1 = i
      BY <1>1
    <3>2. rest[i] \in Range(c.succ[rest[i - 1]]) /\ v \notin BlockDefs(bs[rest[i - 1]])
      BY <2>3, <3>1
    <3> QED BY <2>2, <3>2
  <2>5. path[1 + 1] \in Range(c.succ[path[1]]) /\ v \notin BlockDefs(bs[path[1]])
    BY <1>1, <2>1
  <2>6. \A i \in 1 .. m + 1 - 1 : i = 1 \/ i \in 2 .. m
    BY <1>1
  <2> QED BY <2>4, <2>5, <2>6
<1> HIDE DEF path
<1>4. Carries(c, bs, v, m + 1, path)
  BY <1>1, <1>2, <1>3 DEF Carries
<1> QED BY <1>2, <1>4 DEF LiveAtEntry

LEMMA UsedBy ==
    ASSUME NEW c, NEW bs, NEW b \in Numbers(c)
    PROVE  BlockUses(bs[b]) \subseteq Used(c, bs)
BY DEF Used

(* What a visit does, without the With that evaluates it once.             *)
Visit(s, bs, c, b, next, worklist) ==
    [live_in |-> [s.live_in EXCEPT ![b] = Transferred(s, bs, b)],
     live_out |-> JoinInto(s, c.pred[b], Transferred(s, bs, b)),
     next |-> next, worklist |-> worklist]

LEMMA FirstVisitIs ==
    ASSUME NEW s, NEW bs, NEW c, NEW b
    PROVE  FirstVisit(s, bs, c, b)
           = Visit(s, bs, c, b, b - 1, Queued(s.worklist, c.pred[b], { p \in Range(c.pred[b]) : Revisit(b, p) }))
<1> DEFINE queue == Queued(s.worklist, c.pred[b], { p \in Range(c.pred[b]) : Revisit(b, p) })
           found == Transferred(s, bs, b)
           At(live_in) == [live_in |-> [s.live_in EXCEPT ![b] = live_in], live_out |-> JoinInto(s, c.pred[b], live_in),
                           next |-> b - 1, worklist |-> queue]
           S == {At(x) : x \in {found}}
<1>1. FirstVisit(s, bs, c, b) = CHOOSE y \in S : TRUE
  BY DEF FirstVisit, With
<1> HIDE DEF queue, found
<1>2. S = {At(found)}
  OBVIOUS
<1>3. At(found) = Visit(s, bs, c, b, b - 1, queue)
  BY DEF Visit, found
<1> HIDE DEF At, S
<1>4. (CHOOSE y \in S : TRUE) = At(found)
  BY <1>2, ChosenOne
<1> QED BY <1>1, <1>3, <1>4 DEF queue

LEMMA RevisitedIs ==
    ASSUME NEW c, NEW bs, NEW s \in SolverStates(c, bs), NEW b
    PROVE  Revisited(s, bs, c, b)
           = IF Transferred(s, bs, b) = s.live_in[b] THEN [s EXCEPT !.worklist = Tail(@)]
             ELSE Visit(s, bs, c, b, s.next, Queued(Tail(s.worklist), c.pred[b], Range(c.pred[b])))
<1> DEFINE queue == Queued(Tail(s.worklist), c.pred[b], Range(c.pred[b]))
           found == Transferred(s, bs, b)
           At(live_in) == IF live_in = s.live_in[b] THEN [s EXCEPT !.worklist = Tail(@)]
                          ELSE [s EXCEPT !.live_in[b] = live_in, !.live_out = JoinInto(s, c.pred[b], live_in),
                                         !.worklist = Queued(Tail(@), c.pred[b], Range(c.pred[b]))]
           S == {At(x) : x \in {found}}
<1>1. Revisited(s, bs, c, b) = CHOOSE y \in S : TRUE
  BY DEF Revisited, With
<1>2. At(found) = IF found = s.live_in[b] THEN [s EXCEPT !.worklist = Tail(@)] ELSE Visit(s, bs, c, b, s.next, queue)
  <2>1. s = [live_in |-> s.live_in, live_out |-> s.live_out, next |-> s.next, worklist |-> s.worklist]
    BY DEF SolverStates
  <2> HIDE DEF queue, found
  <2>2. [s EXCEPT !.live_in[b] = found, !.live_out = JoinInto(s, c.pred[b], found), !.worklist = queue]
        = [live_in |-> [s.live_in EXCEPT ![b] = found], live_out |-> JoinInto(s, c.pred[b], found),
           next |-> s.next, worklist |-> queue]
    <3> DEFINE in == [s.live_in EXCEPT ![b] = found]
               out == JoinInto(s, c.pred[b], found)
               first == [s EXCEPT !.live_in = in]
               second == [first EXCEPT !.live_out = out]
               third == [second EXCEPT !.worklist = queue]
    <3>1. [s EXCEPT !.live_in[b] = found, !.live_out = out, !.worklist = queue] = third
      OBVIOUS
    <3> HIDE DEF in, out
    <3>2. first = [live_in |-> in, live_out |-> s.live_out, next |-> s.next, worklist |-> s.worklist]
      BY <2>1
    <3> HIDE DEF first
    <3>3. second = [live_in |-> in, live_out |-> out, next |-> s.next, worklist |-> s.worklist]
      BY <3>2
    <3> HIDE DEF second
    <3>4. third = [live_in |-> in, live_out |-> out, next |-> s.next, worklist |-> queue]
      BY <3>3
    <3> QED BY <3>1, <3>4 DEF in, out
  <2> QED BY <2>2 DEF Visit, queue, found
<1> HIDE DEF queue, found
<1>3. S = {At(found)}
  OBVIOUS
<1> HIDE DEF At, S
<1>4. (CHOOSE y \in S : TRUE) = At(found)
  BY <1>3, ChosenOne
<1> QED BY <1>1, <1>2, <1>4 DEF queue, found

(* A visit keeps the invariant if it queues the predecessors that have     *)
(* been visited, and forgets no other block that waits.                    *)
LEMMA VisitKeeps ==
    ASSUME NEW c, NEW bs, WellFormed(c, bs), NEW s, SolverInv(c, bs, s), NEW b \in Numbers(c),
           NEW next \in 0 .. c.size, NEW worklist \in Seq(Numbers(c)),
           \A d \in Numbers(c) : d > next => d = b \/ d > s.next,
           \A d \in Range(s.worklist) : d = b \/ d \in Range(worklist),
           \A p \in Range(c.pred[b]) : p > next => p \in Range(worklist)
    PROVE  SolverInv(c, bs, Visit(s, bs, c, b, next, worklist))
<1> DEFINE found == Transferred(s, bs, b)
           t == Visit(s, bs, c, b, next, worklist)
           N == Numbers(c)
           preds == Range(c.pred[b])
<1>1. s \in SolverStates(c, bs) /\ Settled(c, bs, s) /\ PassedOn(c, s) /\ OnlyLive(c, bs, s)
  BY DEF SolverInv
<1>2. s.live_in \in [N -> SUBSET Used(c, bs)] /\ s.live_out \in [N -> SUBSET Used(c, bs)]
  BY <1>1 DEF SolverStates
<1>3. found = s.live_in[b] \union ((s.live_out[b] \union BlockUses(bs[b])) \ BlockDefs(bs[b]))
  BY DEF Transferred
<1>4. found \subseteq Used(c, bs) /\ s.live_in[b] \subseteq found
  BY <1>2, <1>3, UsedBy
<1> HIDE DEF found
<1>5. /\ t.live_in = [d \in N |-> IF d = b THEN found ELSE s.live_in[d]]
      /\ t.live_out = [d \in N |-> IF d \in preds THEN s.live_out[d] \union found ELSE s.live_out[d]]
      /\ t.next = next /\ t.worklist = worklist
      /\ t = [live_in |-> t.live_in, live_out |-> t.live_out, next |-> t.next, worklist |-> t.worklist]
  BY <1>2 DEF Visit, JoinInto, found
<1> HIDE DEF t, preds
<1>6. t \in SolverStates(c, bs)
  <2>1. t.live_in \in [N -> SUBSET Used(c, bs)] /\ t.live_out \in [N -> SUBSET Used(c, bs)]
    BY <1>2, <1>4, <1>5
  <2> QED BY <2>1, <1>5 DEF SolverStates
<1>7. \A d \in N : s.live_in[d] \subseteq t.live_in[d] /\ s.live_out[d] \subseteq t.live_out[d]
  BY <1>4, <1>5
<1>8. Settled(c, bs, t)
  <2> SUFFICES ASSUME NEW d \in N, d > next, d \notin Range(worklist)
               PROVE  (t.live_out[d] \union BlockUses(bs[d])) \ BlockDefs(bs[d]) \subseteq t.live_in[d]
    BY <1>5 DEF Settled
  <2>1. t.live_out[d] = s.live_out[d]
    BY <1>5 DEF preds
  <2>2. CASE d = b
    BY <2>1, <2>2, <1>3, <1>5
  <2>3. CASE d # b
    <3>1. d > s.next /\ d \notin Range(s.worklist)
      BY <2>3
    <3>2. (s.live_out[d] \union BlockUses(bs[d])) \ BlockDefs(bs[d]) \subseteq s.live_in[d]
      BY <3>1, <1>1 DEF Settled
    <3> QED BY <2>1, <3>2, <1>7
  <2> QED BY <2>2, <2>3
<1>9. PassedOn(c, t)
  <2> SUFFICES ASSUME NEW d \in N, d > next, NEW p \in Range(c.pred[d])
               PROVE  t.live_in[d] \subseteq t.live_out[p]
    BY <1>5 DEF PassedOn
  <2>1. p \in N
    BY RangeOfSeq DEF WellFormed
  <2>2. CASE d = b
    BY <2>1, <2>2, <1>5 DEF preds
  <2>3. CASE d # b
    <3>1. s.live_in[d] \subseteq s.live_out[p]
      BY <2>3, <1>1 DEF PassedOn
    <3> QED BY <2>1, <2>3, <3>1, <1>5, <1>7
  <2> QED BY <2>2, <2>3
<1>10. \A v \in found : LiveAtEntry(c, bs, b, v)
  <2>1. \A v \in s.live_in[b] : LiveAtEntry(c, bs, b, v)
    BY <1>1 DEF OnlyLive
  <2>2. \A v \in s.live_out[b] \ BlockDefs(bs[b]) : LiveAtEntry(c, bs, b, v)
    BY <1>1, ExitIsLive DEF OnlyLive
  <2>3. \A v \in BlockUses(bs[b]) \ BlockDefs(bs[b]) : LiveAtEntry(c, bs, b, v)
    BY UseIsLive
  <2> QED BY <2>1, <2>2, <2>3, <1>3
<1>11. OnlyLive(c, bs, t)
  <2> SUFFICES ASSUME NEW d \in N
               PROVE  /\ \A v \in t.live_in[d] : LiveAtEntry(c, bs, d, v)
                      /\ \A v \in t.live_out[d] : LiveAtExit(c, bs, d, v)
    BY DEF OnlyLive
  <2>1. \A v \in t.live_in[d] : LiveAtEntry(c, bs, d, v)
    BY <1>1, <1>5, <1>10 DEF OnlyLive
  <2>2. \A v \in t.live_out[d] : LiveAtExit(c, bs, d, v)
    <3>1. \A v \in s.live_out[d] : LiveAtExit(c, bs, d, v)
      BY <1>1 DEF OnlyLive
    <3>2. ASSUME d \in preds PROVE \A v \in found : LiveAtExit(c, bs, d, v)
      <4>1. b \in Range(c.succ[d])
        BY <3>2 DEF WellFormed, preds
      <4> QED BY <4>1, <1>10 DEF LiveAtExit
    <3> QED BY <3>1, <3>2, <1>5
  <2> QED BY <2>1, <2>2
<1> QED BY <1>6, <1>8, <1>9, <1>11 DEF SolverInv, t

LEMMA HeadTailRange ==
    ASSUME NEW S, NEW queue \in Seq(S), queue # <<>>
    PROVE  /\ Head(queue) \in S /\ Tail(queue) \in Seq(S)
           /\ Range(queue) = {Head(queue)} \union Range(Tail(queue))
<1> DEFINE n == Len(queue)
           rest == Tail(queue)
<1>1. /\ n \in Nat /\ n >= 1 /\ DOMAIN queue = 1 .. n /\ Head(queue) = queue[1] /\ \A i \in 1 .. n : queue[i] \in S
      /\ rest \in Seq(S) /\ DOMAIN rest = 1 .. n - 1 /\ \A i \in 1 .. n - 1 : rest[i] = queue[i + 1]
  BY EmptySeq, HeadTailProperties, LenProperties
<1> HIDE DEF rest, n
<1>2. Range(queue) \subseteq {queue[1]} \union Range(rest)
  <2> SUFFICES ASSUME NEW i \in 1 .. n, i # 1 PROVE queue[i] \in Range(rest)
    BY <1>1 DEF Range
  <2>1. i - 1 \in 1 .. n - 1 /\ rest[i - 1] = queue[(i - 1) + 1] /\ (i - 1) + 1 = i
    BY <1>1
  <2> QED BY <1>1, <2>1 DEF Range
<1>3. Range(rest) \subseteq Range(queue)
  <2>1. \A i \in 1 .. n - 1 : i + 1 \in 1 .. n
    BY <1>1
  <2> QED BY <1>1, <2>1 DEF Range
<1>4. queue[1] \in Range(queue)
  BY <1>1 DEF Range
<1> QED BY <1>1, <1>2, <1>3, <1>4 DEF rest

(* A visit that changes nothing.                                           *)
LEMMA SkipKeeps ==
    ASSUME NEW c, NEW bs, WellFormed(c, bs), NEW s, SolverInv(c, bs, s), s.next = 0, s.worklist # <<>>,
           LET b == Head(s.worklist) IN Transferred(s, bs, b) = s.live_in[b]
    PROVE  SolverInv(c, bs, [s EXCEPT !.worklist = Tail(@)])
<1> DEFINE b == Head(s.worklist)
           t == [s EXCEPT !.worklist = Tail(@)]
           N == Numbers(c)
<1>1. s \in SolverStates(c, bs) /\ Settled(c, bs, s) /\ PassedOn(c, s) /\ OnlyLive(c, bs, s)
  BY DEF SolverInv
<1>2. s.worklist \in Seq(N) /\ s.worklist # <<>>
  BY <1>1 DEF SolverStates
<1>3. Tail(s.worklist) \in Seq(N) /\ b \in N /\ Range(s.worklist) = {b} \union Range(Tail(s.worklist))
  BY <1>2, HeadTailRange
<1>4. /\ t.live_in = s.live_in /\ t.live_out = s.live_out /\ t.next = s.next
      /\ t.worklist = Tail(s.worklist) /\ t \in SolverStates(c, bs)
  BY <1>1, <1>3 DEF SolverStates
<1>5. (s.live_out[b] \union BlockUses(bs[b])) \ BlockDefs(bs[b]) \subseteq s.live_in[b]
  BY DEF Transferred
<1> HIDE DEF b, t
<1>6. Settled(c, bs, t)
  BY <1>1, <1>3, <1>4, <1>5 DEF Settled
<1> QED BY <1>1, <1>4, <1>6 DEF SolverInv, PassedOn, OnlyLive, t

LEMMA FirstKeeps ==
    ASSUME NEW c, NEW bs, WellFormed(c, bs), NEW s, SolverInv(c, bs, s), s.next # 0
    PROVE  SolverInv(c, bs, FirstVisit(s, bs, c, s.next))
<1> DEFINE b == s.next
           wanted == { p \in Range(c.pred[b]) : Revisit(b, p) }
           worklist == Queued(s.worklist, c.pred[b], wanted)
<1>1. s.worklist \in Seq(Numbers(c)) /\ b \in 0 .. c.size
  BY DEF SolverInv, SolverStates
<1>2. c.size \in Nat /\ b \in Numbers(c) /\ b - 1 \in 0 .. c.size
  BY <1>1 DEF WellFormed, Numbers
<1>3. c.pred[b] \in Seq(Numbers(c)) /\ \A p \in Range(c.pred[b]) : p \in Numbers(c)
  BY <1>2, RangeOfSeq DEF WellFormed
<1> HIDE DEF wanted
<1>4. /\ worklist \in Seq(Numbers(c))
      /\ Range(worklist) = Range(s.worklist) \union (Range(c.pred[b]) \intersect wanted)
  BY <1>1, <1>3, QueuedAre
<1> HIDE DEF worklist
<1>5. \A p \in Range(c.pred[b]) : p > b - 1 => p \in wanted
  BY <1>2, <1>3 DEF wanted, Revisit, Numbers
<1>6. \A d \in Numbers(c) : d > b - 1 => d = b \/ d > s.next
  BY <1>2 DEF Numbers
<1> HIDE DEF b
<1>7. SolverInv(c, bs, Visit(s, bs, c, b, b - 1, worklist))
  BY <1>2, <1>4, <1>5, <1>6, VisitKeeps
<1> QED BY <1>7, FirstVisitIs DEF b, worklist, wanted

LEMMA RevisitKeeps ==
    ASSUME NEW c, NEW bs, WellFormed(c, bs), NEW s, SolverInv(c, bs, s), s.next = 0, s.worklist # <<>>
    PROVE  SolverInv(c, bs, Revisited(s, bs, c, Head(s.worklist)))
<1> DEFINE b == Head(s.worklist)
           rest == Tail(s.worklist)
           worklist == Queued(rest, c.pred[b], Range(c.pred[b]))
<1>1. s \in SolverStates(c, bs) /\ s.worklist \in Seq(Numbers(c))
  BY DEF SolverInv, SolverStates
<1>2. rest \in Seq(Numbers(c)) /\ b \in Numbers(c) /\ Range(s.worklist) = {b} \union Range(rest)
  BY <1>1, HeadTailRange
<1>3. c.size \in Nat /\ c.pred[b] \in Seq(Numbers(c))
  BY <1>2 DEF WellFormed
<1> HIDE DEF rest, b
<1>4. worklist \in Seq(Numbers(c)) /\ Range(worklist) = Range(rest) \union Range(c.pred[b])
  BY <1>2, <1>3, QueuedAre
<1>5. Revisited(s, bs, c, b) = IF Transferred(s, bs, b) = s.live_in[b] THEN [s EXCEPT !.worklist = Tail(@)]
                               ELSE Visit(s, bs, c, b, s.next, worklist)
  BY <1>1, RevisitedIs DEF rest
<1> HIDE DEF worklist
<1>6. CASE Transferred(s, bs, b) = s.live_in[b]
  BY <1>5, <1>6, SkipKeeps DEF b
<1>7. CASE Transferred(s, bs, b) # s.live_in[b]
  <2>1. s.next \in 0 .. c.size /\ \A d \in Numbers(c) : d > s.next => d = b \/ d > s.next
    BY <1>3
  <2>2. \A d \in Range(s.worklist) : d = b \/ d \in Range(worklist)
    BY <1>2, <1>4
  <2>3. \A p \in Range(c.pred[b]) : p > s.next => p \in Range(worklist)
    BY <1>4
  <2>4. SolverInv(c, bs, Visit(s, bs, c, b, s.next, worklist))
    BY <1>2, <1>4, <2>1, <2>2, <2>3, VisitKeeps
  <2> QED BY <1>5, <1>7, <2>4 DEF b
<1> QED BY <1>6, <1>7

LEMMA UnsolvedHolds ==
    ASSUME NEW c, NEW bs, WellFormed(c, bs)
    PROVE  SolverInv(c, bs, Unsolved(c.size))
<1> DEFINE s == Unsolved(c.size)
<1>1. /\ s.live_in = [b \in Numbers(c) |-> {}] /\ s.live_out = [b \in Numbers(c) |-> {}]
      /\ s.next = c.size /\ s.worklist = <<>> /\ c.size \in Nat
      /\ s = [live_in |-> s.live_in, live_out |-> s.live_out, next |-> s.next, worklist |-> s.worklist]
  BY DEF Unsolved, Numbers, WellFormed
<1> HIDE DEF s
<1>2. s \in SolverStates(c, bs)
  <2>1. s.live_in \in [Numbers(c) -> SUBSET Used(c, bs)] /\ s.live_out \in [Numbers(c) -> SUBSET Used(c, bs)]
    BY <1>1
  <2>2. s.next \in 0 .. c.size /\ s.worklist \in Seq(Numbers(c))
    BY <1>1
  <2> QED BY <1>1, <2>1, <2>2 DEF SolverStates
<1>3. \A b \in Numbers(c) : ~(b > s.next)
  BY <1>1 DEF Numbers
<1> QED BY <1>1, <1>2, <1>3 DEF SolverInv, Settled, PassedOn, OnlyLive, s

(* What the invariant says when nothing is left to visit.                  *)
LEMMA SolvedMeans ==
    ASSUME NEW c, NEW bs, WellFormed(c, bs), NEW s, SolverInv(c, bs, s), Solved(s)
    PROVE  \A b \in Numbers(c) : \A v : /\ v \in s.live_in[b] <=> LiveAtEntry(c, bs, b, v)
                                        /\ v \in s.live_out[b] <=> LiveAtExit(c, bs, b, v)
<1>1. Settled(c, bs, s) /\ PassedOn(c, s) /\ OnlyLive(c, bs, s) /\ s.next = 0 /\ s.worklist = <<>>
  BY DEF SolverInv, Solved
<1>2. \A b \in Numbers(c) : /\ (s.live_out[b] \union BlockUses(bs[b])) \ BlockDefs(bs[b]) \subseteq s.live_in[b]
                            /\ \A p \in Range(c.pred[b]) : s.live_in[b] \subseteq s.live_out[p]
  <2>1. \A b \in Numbers(c) : b > s.next
    BY <1>1 DEF Numbers, WellFormed
  <2>2. Range(s.worklist) = {}
    BY <1>1 DEF Range
  <2> QED BY <1>1, <2>1, <2>2 DEF Settled, PassedOn
<1>3. ASSUME NEW v, NEW m \in Nat \ {0}, NEW path \in [1 .. m -> Numbers(c)], Carries(c, bs, v, m, path)
      PROVE  v \in s.live_in[path[1]]
  <2> DEFINE Back(k) == path[m - k]
             Missed == {k \in 0 .. m - 1 : v \notin s.live_in[Back(k)]}
  <2>1. \A k \in 0 .. m - 1 : m - k \in 1 .. m /\ Back(k) \in Numbers(c)
    OBVIOUS
  <2>2. v \in s.live_in[Back(0)]
    <3>1. path[m] \in Numbers(c) /\ UpwardExposed(bs[path[m]], v)
      BY <1>3 DEF Carries
    <3>2. v \in BlockUses(bs[path[m]]) \ BlockDefs(bs[path[m]])
      BY <3>1, ExposedIs DEF WellFormed
    <3> QED BY <1>2, <3>1, <3>2
  <2>3. ASSUME NEW k \in 1 .. m - 1, v \in s.live_in[Back(k - 1)] PROVE v \in s.live_in[Back(k)]
    <3> DEFINE i == m - k
    <3>1. i \in 1 .. m - 1 /\ Back(k) = path[i] /\ Back(k - 1) = path[i + 1]
      OBVIOUS
    <3>2. path[i] \in Numbers(c) /\ path[i + 1] \in Numbers(c)
      BY <3>1
    <3>3. path[i + 1] \in Range(c.succ[path[i]]) /\ v \notin BlockDefs(bs[path[i]])
      BY <1>3, <3>1 DEF Carries
    <3> HIDE DEF i
    <3>4. path[i] \in Range(c.pred[path[i + 1]])
      BY <3>2, <3>3 DEF WellFormed
    <3>5. v \in s.live_out[path[i]]
      BY <1>2, <2>3, <3>1, <3>2, <3>4
    <3> QED BY <1>2, <3>1, <3>2, <3>3, <3>5
  <2> HIDE DEF Back
  <2>4. Missed = {}
    <3> SUFFICES ASSUME Missed # {} PROVE FALSE
      OBVIOUS
    <3>1. PICK k \in Missed : \A j \in Missed : k <= j
      <4>1. Missed \subseteq Nat
        OBVIOUS
      <4> QED BY <4>1, LeastElement
    <3>2. k \in 1 .. m - 1 /\ k - 1 \in 0 .. m - 1
      BY <2>2
    <3>3. k - 1 \notin Missed
      BY <3>1, <3>2
    <3> QED BY <2>3, <3>2, <3>3
  <2>5. v \in s.live_in[Back(m - 1)]
    BY <2>4
  <2> QED BY <2>5 DEF Back
<1>4. \A b \in Numbers(c) : \A v : LiveAtEntry(c, bs, b, v) => v \in s.live_in[b]
  BY <1>3 DEF LiveAtEntry
<1>5. ASSUME NEW b \in Numbers(c), NEW v, LiveAtExit(c, bs, b, v) PROVE v \in s.live_out[b]
  <2>1. PICK next \in Range(c.succ[b]) : LiveAtEntry(c, bs, next, v)
    BY <1>5 DEF LiveAtExit
  <2>2. next \in Numbers(c)
    BY RangeOfSeq DEF WellFormed
  <2>3. b \in Range(c.pred[next])
    BY <2>2 DEF WellFormed
  <2> QED BY <1>2, <1>4, <2>1, <2>2, <2>3
<1> QED BY <1>1, <1>4, <1>5 DEF OnlyLive

(* SimpleLiveness: once the worklist is empty, live_in and live_out of a   *)
(* block have a value exactly if a path leads from its beginning or its    *)
(* end to a use of the value that is not defined on the way, in whatever   *)
(* graph, with whatever loops, and whatever the blocks use and define      *)
(* (BackwardDataflow::solve, SimpleLiveness::for_function).                *)
THEOREM LivenessFindsPaths == LivenessSpec => []LivenessIsPaths
<1> DEFINE Inv == WellFormed(cfg, blocks) /\ SolverInv(cfg, blocks, live)
<1>1. LivenessInit => Inv
  BY UnsolvedHolds DEF LivenessInit
<1>2. Inv /\ [LivenessNext]_<<cfg, blocks, live>> => Inv'
  <2> SUFFICES ASSUME Inv, [LivenessNext]_<<cfg, blocks, live>> PROVE Inv'
    OBVIOUS
  <2>1. CASE LivenessNext
    <3>1. cfg' = cfg /\ blocks' = blocks /\ live' = SolveStep(live, blocks, cfg) /\ ~Solved(live)
      BY <2>1 DEF LivenessNext
    <3>2. CASE live.next # 0
      BY <3>1, <3>2, FirstKeeps DEF SolveStep
    <3>3. CASE live.next = 0
      BY <3>1, <3>3, RevisitKeeps DEF SolveStep, Solved
    <3> QED BY <3>2, <3>3
  <2>2. CASE UNCHANGED <<cfg, blocks, live>>
    BY <2>2
  <2> QED BY <2>1, <2>2
<1>3. Inv => LivenessIsPaths
  BY SolvedMeans DEF LivenessIsPaths
<1> QED BY <1>1, <1>2, <1>3, PTL DEF LivenessSpec

-----------------------------------------------------------------------------
(* Dead code elimination marks, sweep by sweep, what is needed.            *)

VARIABLE pass

IsCode(bs) ==
    /\ Len(bs) \in Nat \ {0} /\ DOMAIN bs = 1 .. Len(bs)
    /\ \A b \in DOMAIN bs : Len(bs[b]) \in Nat /\ DOMAIN bs[b] = 1 .. Len(bs[b])

MarkInit == IsCode(blocks) /\ pass = NewPass(Len(blocks))
MarkNext == ~pass.done /\ pass' = MarkBlock(pass, blocks) /\ UNCHANGED blocks
MarkSpec == MarkInit /\ [][MarkNext]_<<blocks, pass>>

(* Values and phis that are enough for an instruction: they have what it   *)
(* is made of if it has an effect or makes one of them, and of a phi or a  *)
(* copy what those of its parts are made of that make one of them.         *)
Makes(ssa, vec) == Range(vec) \intersect ssa # {}
Lives(ssa, instr) ==
    /\ instr.pred # Never
    /\ instr.op \in Effects \/ \E k \in DOMAIN instr.dsts : Makes(ssa, instr.dsts[k])

Suffices(ssa, phi, instr) ==
    LET Has(k) == \A v \in Range(instr.srcs[k]) : IsSsa(v) => v \in ssa IN
    /\ Lives(ssa, instr) => instr.pred \subseteq ssa
    /\ Lives(ssa, instr) /\ instr.op \notin {"phisrcs", "parcopy"} => \A k \in DOMAIN instr.srcs : Has(k)
    /\ instr.op = "phisrcs" => \A k \in DOMAIN instr.srcs : instr.phis[k] \in phi => Has(k)
    /\ instr.op = "parcopy" => \A k \in DOMAIN instr.srcs : Makes(ssa, instr.dsts[k]) => Has(k)
    /\ instr.op = "phidsts" => \A k \in DOMAIN instr.dsts : Makes(ssa, instr.dsts[k]) => instr.phis[k] \in phi

Enough(ssa, phi, block) == \A ip \in DOMAIN block : Suffices(ssa, phi, block[ip])
EnoughForAll(ssa, phi, bs) == \A b \in DOMAIN bs : Enough(ssa, phi, bs[b])

(* When the pass is over, what it has marked is enough and the least that  *)
(* is: no less would do, whatever loops through phis there are.            *)
MarkedIsLeast ==
    pass.done => /\ EnoughForAll(pass.ssa, pass.phi, blocks)
                 /\ \A ssa, phi : EnoughForAll(ssa, phi, blocks) => pass.ssa \subseteq ssa /\ pass.phi \subseteq phi

(* What mark_instr adds.                                                   *)
Wants(p, instr) ==
    (UNION { { v \in Range(instr.srcs[k]) : IsSsa(v) } : k \in WantedSources(p, instr) })
    \union (IF IsInstrLive(p, instr) THEN instr.pred ELSE {})

Marked(p, ssa, phi, new_live) ==
    [ssa |-> ssa, phi |-> phi, next |-> p.next, new_live |-> new_live, done |-> p.done]

IsPass(p) == p = Marked(p, p.ssa, p.phi, p.new_live) /\ p.new_live \in BOOLEAN /\ p.done \in BOOLEAN

LEMMA MarkInstrIs ==
    ASSUME NEW p, IsPass(p), NEW instr
    PROVE  MarkInstr(p, instr)
           = Marked(p, p.ssa \union Wants(p, instr), p.phi \union WantedPhis(p, instr),
                    p.new_live \/ ~(Wants(p, instr) \subseteq p.ssa) \/ ~(WantedPhis(p, instr) \subseteq p.phi))
<1> DEFINE values == Wants(p, instr)
           phis == WantedPhis(p, instr)
           new == p.new_live \/ ~(values \subseteq p.ssa) \/ ~(phis \subseteq p.phi)
           ssa == p.ssa \union values
           phi == p.phi \union phis
           first == [p EXCEPT !.ssa = ssa]
           second == [first EXCEPT !.phi = phi]
           third == [second EXCEPT !.new_live = new]
<1>1. MarkInstr(p, instr) = third
  BY DEF MarkInstr, Wants
<1>2. p = [ssa |-> p.ssa, phi |-> p.phi, next |-> p.next, new_live |-> p.new_live, done |-> p.done]
  BY DEF IsPass, Marked
<1> HIDE DEF ssa, phi, new
<1>3. first = [ssa |-> ssa, phi |-> p.phi, next |-> p.next, new_live |-> p.new_live, done |-> p.done]
  BY <1>2
<1> HIDE DEF first
<1>4. second = [ssa |-> ssa, phi |-> phi, next |-> p.next, new_live |-> p.new_live, done |-> p.done]
  BY <1>3
<1> HIDE DEF second
<1>5. third = [ssa |-> ssa, phi |-> phi, next |-> p.next, new_live |-> new, done |-> p.done]
  BY <1>4
<1> QED BY <1>1, <1>5 DEF Marked, ssa, phi, new

LEMMA WantsAre ==
    ASSUME NEW p, NEW instr, NEW v
    PROVE  v \in Wants(p, instr)
           <=> (\E k \in WantedSources(p, instr) : v \in Range(instr.srcs[k]) /\ IsSsa(v))
               \/ (IsInstrLive(p, instr) /\ v \in instr.pred)
<1> DEFINE Of(k) == { w \in Range(instr.srcs[k]) : IsSsa(w) }
           pred == IF IsInstrLive(p, instr) THEN instr.pred ELSE {}
<1>1. v \in Wants(p, instr) <=> (\E k \in WantedSources(p, instr) : v \in Of(k)) \/ v \in pred
  <2> DEFINE sets == { Of(k) : k \in WantedSources(p, instr) }
  <2>1. Wants(p, instr) = (UNION sets) \union pred
    BY DEF Wants
  <2> HIDE DEF Of, pred
  <2>2. \A set : set \in sets <=> \E k \in WantedSources(p, instr) : set = Of(k)
    OBVIOUS
  <2> HIDE DEF sets
  <2>3. v \in UNION sets <=> \E set \in sets : v \in set
    OBVIOUS
  <2>4. (\E set \in sets : v \in set) <=> \E k \in WantedSources(p, instr) : v \in Of(k)
    BY <2>2
  <2> QED BY <2>1, <2>3, <2>4
<1>2. \A k : v \in Of(k) <=> v \in Range(instr.srcs[k]) /\ IsSsa(v)
  OBVIOUS
<1>3. v \in pred <=> IsInstrLive(p, instr) /\ v \in instr.pred
  OBVIOUS
<1> HIDE DEF Of, pred
<1> QED BY <1>1, <1>2, <1>3

(* Nothing is added exactly if what is marked is enough already.           *)
LEMMA AddsNothing ==
    ASSUME NEW p, NEW instr
    PROVE  Wants(p, instr) \subseteq p.ssa /\ WantedPhis(p, instr) \subseteq p.phi <=> Suffices(p.ssa, p.phi, instr)
<1> DEFINE Has(k) == \A v \in Range(instr.srcs[k]) : IsSsa(v) => v \in p.ssa
<1>1. \A vec : IsDstLive(p, vec) <=> Makes(p.ssa, vec)
  BY DEF IsDstLive, Makes
<1>2. IsInstrLive(p, instr) <=> Lives(p.ssa, instr)
  BY <1>1 DEF IsInstrLive, Lives
<1>3. Wants(p, instr) \subseteq p.ssa
      <=> (\A k \in WantedSources(p, instr) : Has(k)) /\ (Lives(p.ssa, instr) => instr.pred \subseteq p.ssa)
  <2>1. Wants(p, instr) \subseteq p.ssa <=> \A v : v \in Wants(p, instr) => v \in p.ssa
    OBVIOUS
  <2>2. instr.pred \subseteq p.ssa <=> \A v : v \in instr.pred => v \in p.ssa
    OBVIOUS
  <2>3. \A v : v \in Wants(p, instr)
               <=> (\E k \in WantedSources(p, instr) : v \in Range(instr.srcs[k]) /\ IsSsa(v))
                   \/ (Lives(p.ssa, instr) /\ v \in instr.pred)
    BY <1>2, WantsAre
  <2> QED BY <2>1, <2>2, <2>3
<1>4. WantedPhis(p, instr) \subseteq p.phi
      <=> (instr.op = "phidsts" => \A k \in DOMAIN instr.dsts : Makes(p.ssa, instr.dsts[k]) => instr.phis[k] \in p.phi)
  BY <1>1 DEF WantedPhis
<1>5. (\A k \in WantedSources(p, instr) : Has(k))
      <=> /\ Lives(p.ssa, instr) /\ instr.op \notin {"phisrcs", "parcopy"} => \A k \in DOMAIN instr.srcs : Has(k)
          /\ instr.op = "phisrcs" => \A k \in DOMAIN instr.srcs : instr.phis[k] \in p.phi => Has(k)
          /\ instr.op = "parcopy" => \A k \in DOMAIN instr.srcs : Makes(p.ssa, instr.dsts[k]) => Has(k)
  <2> HIDE DEF Has
  <2>1. CASE instr.op = "phisrcs"
    BY <2>1 DEF WantedSources
  <2>2. CASE instr.op = "parcopy"
    BY <2>2, <1>1 DEF WantedSources
  <2>3. CASE instr.op \notin {"phisrcs", "parcopy"}
    BY <2>3, <1>2 DEF WantedSources
  <2> QED BY <2>1, <2>2, <2>3
<1> QED BY <1>3, <1>4, <1>5 DEF Suffices

(* What is wanted of less is wanted of more.                               *)
LEMMA WantsLess ==
    ASSUME NEW p, NEW q, NEW instr, p.ssa \subseteq q.ssa, p.phi \subseteq q.phi
    PROVE  Wants(p, instr) \subseteq Wants(q, instr) /\ WantedPhis(p, instr) \subseteq WantedPhis(q, instr)
<1>1. \A vec : IsDstLive(p, vec) => IsDstLive(q, vec)
  BY DEF IsDstLive
<1>2. IsInstrLive(p, instr) => IsInstrLive(q, instr)
  BY <1>1 DEF IsInstrLive
<1>3. WantedSources(p, instr) \subseteq WantedSources(q, instr)
  <2>1. CASE instr.op = "phisrcs"
    BY <2>1 DEF WantedSources
  <2>2. CASE instr.op = "parcopy"
    BY <2>2, <1>1 DEF WantedSources
  <2>3. CASE instr.op \notin {"phisrcs", "parcopy"}
    BY <2>3, <1>2 DEF WantedSources
  <2> QED BY <2>1, <2>2, <2>3
<1>4. WantedPhis(p, instr) \subseteq WantedPhis(q, instr)
  BY <1>1 DEF WantedPhis
<1>5. Wants(p, instr) \subseteq Wants(q, instr)
  BY <1>2, <1>3 DEF Wants
<1> QED BY <1>4, <1>5

(* The instructions of a set of places, the last place last.               *)
MarkFold(start, instrs, T) ==
    MapThenFoldSet(LAMBDA x, y : With(y, LAMBDA q : MarkInstr(q, x)),
                   start, LAMBDA i : instrs[i], LAMBDA S : Max(S), T)

LEMMA MarkIsFold ==
    ASSUME NEW start, NEW instrs
    PROVE  Through(MarkInstr, start, instrs) = MarkFold(start, instrs, DOMAIN instrs)
BY DEF Through, FoldLeft, MarkFold

(* The recursive function behind the fold.                                 *)
MarkStep(start, instrs, S, g) ==
    [T \in SUBSET S |-> IF T = {} THEN start
                        ELSE With(g[T \ {Max(T)}],
                                  LAMBDA q : MarkInstr(q, instrs[Max(T)]))]

LEMMA MarkIsFixpoint ==
    ASSUME NEW start, NEW instrs, NEW S
    PROVE  MarkFold(start, instrs, S) = (CHOOSE g : g = MarkStep(start, instrs, S, g))[S]
BY DEF MarkFold, MapThenFoldSet, MarkStep

LEMMA MarkingIs ==
    ASSUME NEW p, NEW instr
    PROVE  With(p, LAMBDA q : MarkInstr(q, instr)) = MarkInstr(p, instr)
<1> DEFINE S == {MarkInstr(q, instr) : q \in {p}}
<1>1. S = {MarkInstr(p, instr)}
  OBVIOUS
<1>2. (CHOOSE y \in S : TRUE) = MarkInstr(p, instr)
  BY <1>1, ChosenOne
<1> QED BY <1>2 DEF With

(* The defining equation of the fold, which the recursive function has.    *)
MarkUnfolds(start, instrs, T) ==
    MarkFold(start, instrs, T) =
        IF T = {} THEN start
        ELSE MarkInstr(MarkFold(start, instrs, T \ {Max(T)}), instrs[Max(T)])

LEMMA MarkFoldUnfolds ==
    ASSUME NEW start, NEW instrs, NEW n \in Nat
    PROVE  MarkUnfolds(start, instrs, 1 .. n)
<1> DEFINE S == 1 .. n
           Fold(T) == MarkFold(start, instrs, T)
           Value(g, T) == IF T = {} THEN start ELSE MarkInstr(g[T \ {Max(T)}], instrs[Max(T)])
           Good == { T \in SUBSET S : MarkUnfolds(start, instrs, T) }
<1>1. \A T \in SUBSET S : T # {} => Max(T) \in T
  BY GreatestMember
<1>2. ASSUME NEW T, NEW g
      PROVE  MarkStep(start, instrs, T, g) = [U \in SUBSET T |-> Value(g, U)]
  BY MarkingIs DEF MarkStep
<1>3. ASSUME NEW T \in SUBSET S, \A U \in SUBSET T : U # T => U \in Good
      PROVE  MarkUnfolds(start, instrs, T)
  <2> DEFINE h == [U \in SUBSET T |-> IF U = {} THEN start ELSE MarkInstr(Fold(U \ {Max(U)}), instrs[Max(U)])]
             Step(g) == [U \in SUBSET T |-> Value(g, U)]
             c == CHOOSE g : g = MarkStep(start, instrs, T, g)
  <2>1. \A U \in SUBSET T : U # {} => /\ Max(U) \in U
                                      /\ U \ {Max(U)} \in SUBSET T /\ U \ {Max(U)} # T
    BY <1>1
  <2>2. \A U \in SUBSET T : U # T => h[U] = Fold(U)
    BY <1>3 DEF MarkUnfolds
  <2>3. h = Step(h)
    <3>1. \A U \in SUBSET T : h[U] = Value(h, U)
      BY <2>1, <2>2
    <3> QED BY <3>1
  <2> HIDE DEF h, Value
  <2>4. MarkStep(start, instrs, T, h) = h
    <3>1. MarkStep(start, instrs, T, h) = Step(h)
      BY <1>2
    <3> QED BY <2>3, <3>1
  <2>5. c = MarkStep(start, instrs, T, c)
    BY <2>4
  <2> HIDE DEF c
  <2>6. c = Step(c)
    <3>1. MarkStep(start, instrs, T, c) = Step(c)
      BY <1>2
    <3> QED BY <2>5, <3>1
  <2>7. c[T] = h[T]
    <3>1. c[{}] = h[{}]
      BY <2>3, <2>6 DEF Value
    <3>2. ASSUME NEW U \in SUBSET T, U # {}, c[U \ {Max(U)}] = h[U \ {Max(U)}]
          PROVE  c[U] = h[U]
      <4>1. c[U] = Value(c, U) /\ h[U] = Value(h, U)
        BY <2>3, <2>6
      <4> QED BY <3>2, <4>1 DEF Value
    <3> HIDE DEF Step
    <3> QED BY <3>1, <3>2, GreatestIsLast
  <2>8. Fold(T) = c[T]
    BY MarkIsFixpoint DEF c
  <2>9. h[T] = IF T = {} THEN start ELSE MarkInstr(Fold(T \ {Max(T)}), instrs[Max(T)])
    BY DEF h
  <2> QED BY <2>7, <2>8, <2>9 DEF MarkUnfolds
<1> HIDE DEF Good
<1>4. \A T \in SUBSET S : (\A U \in SUBSET T : U # T => U \in Good) => T \in Good
  BY <1>3 DEF Good
<1>5. IsFiniteSet(S)
  BY FS_Interval
<1> HIDE DEF S
<1>6. S \in Good
  <2>1. SUBSET S \subseteq Good
    BY <1>4, <1>5, SubsetInduction
  <2> QED BY <2>1
<1> QED BY <1>6 DEF Good, S

(* What holds after the instructions of a block, from any of the states    *)
(* that a block can be come to in.  More is marked only if it is noted;    *)
(* and what is enough stays enough for what is marked.                     *)
MarkedThrough(p, instrs, k, q) ==
    /\ IsPass(q) /\ q.next = p.next /\ q.done = p.done
    /\ ~q.new_live => /\ ~p.new_live /\ q.ssa = p.ssa /\ q.phi = p.phi
                      /\ \A i \in 1 .. k : Suffices(p.ssa, p.phi, instrs[i])
    /\ \A ssa, phi :
          p.ssa \subseteq ssa /\ p.phi \subseteq phi /\ (\A i \in 1 .. k : Suffices(ssa, phi, instrs[i]))
             => q.ssa \subseteq ssa /\ q.phi \subseteq phi

LEMMA MarkOneMore ==
    ASSUME NEW p, NEW instrs, NEW k \in Nat \ {0}, NEW q, MarkedThrough(p, instrs, k - 1, q)
    PROVE  MarkedThrough(p, instrs, k, MarkInstr(q, instrs[k]))
<1> DEFINE instr == instrs[k]
           r == MarkInstr(q, instr)
           values == Wants(q, instr)
           phis == WantedPhis(q, instr)
<1>1. /\ IsPass(q) /\ q.next = p.next /\ q.done = p.done
      /\ \A i \in 1 .. k : i = k \/ i \in 1 .. k - 1
      /\ k \in 1 .. k /\ \A i \in 1 .. k - 1 : i \in 1 .. k
  BY DEF MarkedThrough
<1>2. r = Marked(q, q.ssa \union values, q.phi \union phis,
                 q.new_live \/ ~(values \subseteq q.ssa) \/ ~(phis \subseteq q.phi))
  BY <1>1, MarkInstrIs
<1> HIDE DEF r
<1>3. /\ r.ssa = q.ssa \union values /\ r.phi = q.phi \union phis /\ r.next = q.next /\ r.done = q.done
      /\ r.new_live = (q.new_live \/ ~(values \subseteq q.ssa) \/ ~(phis \subseteq q.phi))
  BY <1>2 DEF Marked
<1>4. IsPass(r)
  <2>1. r.new_live \in BOOLEAN /\ r.done \in BOOLEAN
    BY <1>1, <1>3 DEF IsPass
  <2>2. r = Marked(r, r.ssa, r.phi, r.new_live)
    BY <1>2, <1>3 DEF Marked
  <2> QED BY <2>1, <2>2 DEF IsPass
<1> HIDE DEF values, phis
<1>5. ASSUME ~r.new_live
      PROVE  /\ ~p.new_live /\ r.ssa = p.ssa /\ r.phi = p.phi
             /\ \A i \in 1 .. k : Suffices(p.ssa, p.phi, instrs[i])
  <2>1. ~q.new_live /\ values \subseteq q.ssa /\ phis \subseteq q.phi
    BY <1>3, <1>5
  <2>2. /\ ~p.new_live /\ q.ssa = p.ssa /\ q.phi = p.phi
        /\ \A i \in 1 .. k - 1 : Suffices(p.ssa, p.phi, instrs[i])
    BY <2>1 DEF MarkedThrough
  <2>3. Suffices(p.ssa, p.phi, instr)
    BY <2>1, <2>2, AddsNothing DEF values, phis
  <2> HIDE DEF instr
  <2>4. \A i \in 1 .. k : Suffices(p.ssa, p.phi, instrs[i])
    BY <1>1, <2>2, <2>3 DEF instr
  <2> QED BY <1>3, <2>1, <2>2, <2>4
<1>6. ASSUME NEW ssa, NEW phi, p.ssa \subseteq ssa, p.phi \subseteq phi,
             \A i \in 1 .. k : Suffices(ssa, phi, instrs[i])
      PROVE  r.ssa \subseteq ssa /\ r.phi \subseteq phi
  <2> DEFINE all == [ssa |-> ssa, phi |-> phi]
  <2>1. q.ssa \subseteq ssa /\ q.phi \subseteq phi
    BY <1>1, <1>6 DEF MarkedThrough
  <2>2. all.ssa = ssa /\ all.phi = phi
    OBVIOUS
  <2> HIDE DEF all
  <2>3. Suffices(all.ssa, all.phi, instr)
    BY <1>1, <1>6, <2>2
  <2>4. Wants(all, instr) \subseteq all.ssa /\ WantedPhis(all, instr) \subseteq all.phi
    BY <2>3, AddsNothing
  <2>5. values \subseteq Wants(all, instr) /\ phis \subseteq WantedPhis(all, instr)
    BY <2>1, <2>2, WantsLess DEF values, phis
  <2> QED BY <1>3, <2>1, <2>2, <2>4, <2>5
<1> QED BY <1>1, <1>3, <1>4, <1>5, <1>6 DEF MarkedThrough, r

LEMMA MarkedAre ==
    ASSUME NEW p, IsPass(p), NEW instrs, NEW n \in Nat, DOMAIN instrs = 1 .. n
    PROVE  MarkedThrough(p, instrs, n, Through(MarkInstr, p, instrs))
<1> DEFINE Fold(k) == MarkFold(p, instrs, 1 .. k)
           Bad == {k \in 0 .. n : ~MarkedThrough(p, instrs, k, Fold(k))}
<1>1. Fold(0) = p
  BY MarkFoldUnfolds, 1 .. 0 = {} DEF MarkUnfolds
<1>2. \A k \in 1 .. n : Fold(k) = MarkInstr(Fold(k - 1), instrs[k])
  <2> SUFFICES ASSUME NEW k \in 1 .. n PROVE Fold(k) = MarkInstr(Fold(k - 1), instrs[k])
    OBVIOUS
  <2>1. k \in Nat /\ k >= 1 /\ k # 0
    OBVIOUS
  <2>2. 1 \in 1 .. k
    BY <2>1
  <2>3. 1 .. k # {}
    BY <2>2, Zenon
  <2>4. (1 .. k) \ {k} = 1 .. k - 1
    <3>1. \A i : i \in 1 .. k /\ i # k <=> i \in 1 .. k - 1
      BY <2>1
    <3> QED BY <3>1
  <2>5. Max(1 .. k) = k
    BY <2>1, GreatestNumber
  <2>6. MarkUnfolds(p, instrs, 1 .. k)
    BY <2>1, MarkFoldUnfolds
  <2> QED BY <2>3, <2>4, <2>5, <2>6 DEF MarkUnfolds
<1> HIDE DEF Fold
<1>3. MarkedThrough(p, instrs, 0, Fold(0))
  BY <1>1 DEF MarkedThrough
<1>4. ASSUME NEW k \in 1 .. n, MarkedThrough(p, instrs, k - 1, Fold(k - 1))
      PROVE  MarkedThrough(p, instrs, k, Fold(k))
  BY <1>2, <1>4, MarkOneMore
<1>5. Bad = {}
  <2> SUFFICES ASSUME Bad # {} PROVE FALSE
    OBVIOUS
  <2>1. PICK k \in Bad : \A m \in Bad : k <= m
    <3>1. Bad \subseteq Nat
      OBVIOUS
    <3> QED BY <3>1, LeastElement
  <2>2. k \in 1 .. n /\ k - 1 \in 0 .. n
    BY <1>3
  <2>3. k - 1 \notin Bad
    BY <2>1, <2>2
  <2> QED BY <1>4, <2>2, <2>3
<1>6. Through(MarkInstr, p, instrs) = Fold(n)
  BY MarkIsFold DEF Fold
<1> QED BY <1>5, <1>6

(* The last instruction of a block is marked first.                        *)
MarkAll(p, block) == Through(MarkInstr, p, Reverse(block))

BlockIsMarked(p, block, q) ==
    /\ IsPass(q) /\ q.next = p.next /\ q.done = p.done
    /\ ~q.new_live => /\ ~p.new_live /\ q.ssa = p.ssa /\ q.phi = p.phi
                      /\ Enough(p.ssa, p.phi, block)
    /\ \A ssa, phi : p.ssa \subseteq ssa /\ p.phi \subseteq phi /\ Enough(ssa, phi, block)
                     => q.ssa \subseteq ssa /\ q.phi \subseteq phi

LEMMA BlockMarked ==
    ASSUME NEW p, IsPass(p), NEW block, Len(block) \in Nat, DOMAIN block = 1 .. Len(block)
    PROVE  BlockIsMarked(p, block, MarkAll(p, block))
<1> DEFINE instrs == Reverse(block)
           n == Len(block)
<1>1. DOMAIN instrs = 1 .. n /\ \A i \in 1 .. n : instrs[i] = block[(n - i) + 1]
  BY DEF Reverse
<1> HIDE DEF instrs
<1>2. MarkedThrough(p, instrs, n, MarkAll(p, block))
  BY <1>1, MarkedAre DEF MarkAll, instrs
<1>3. \A ssa, phi : Enough(ssa, phi, block) <=> \A i \in 1 .. n : Suffices(ssa, phi, instrs[i])
  <2>1. \A i \in 1 .. n : (n - i) + 1 \in 1 .. n /\ (n - ((n - i) + 1)) + 1 = i
    OBVIOUS
  <2>2. \A i \in 1 .. n : instrs[(n - i) + 1] = block[i]
    BY <1>1, <2>1
  <2> HIDE DEF n
  <2> QED BY <1>1, <2>1, <2>2 DEF Enough, n
<1> QED BY <1>2, <1>3 DEF MarkedThrough, BlockIsMarked

(* The inductive invariant: while a sweep has marked nothing, what is      *)
(* marked is enough for every block it has been through; and nothing is    *)
(* marked that could be spared.                                            *)
MarkInv(bs, p) ==
    /\ IsPass(p) /\ p.next \in 0 .. Len(bs)
    /\ p.done <=> p.next = 0
    /\ p.done => ~p.new_live
    /\ ~p.new_live => \A b \in DOMAIN bs : b > p.next => Enough(p.ssa, p.phi, bs[b])
    /\ \A ssa, phi : EnoughForAll(ssa, phi, bs) => p.ssa \subseteq ssa /\ p.phi \subseteq phi

Swept(bs, q) == IF q.next = 0 THEN AfterSweep(q, Len(bs)) ELSE q

LEMMA MarkBlockIs ==
    ASSUME NEW p, NEW bs, NEW q, q = MarkAll(p, bs[p.next])
    PROVE  MarkBlock(p, bs) = Swept(bs, [q EXCEPT !.next = @ - 1])
<1> DEFINE r == [q EXCEPT !.next = @ - 1]
           Inner == {Swept(bs, x) : x \in {r}}
           After(x) == With([x EXCEPT !.next = @ - 1], LAMBDA y : Swept(bs, y))
           Outer == {After(x) : x \in {q}}
<1>1. MarkBlock(p, bs) = CHOOSE y \in Outer : TRUE
  BY DEF MarkBlock, MarkAll, With, Swept
<1>2. Outer = {After(q)}
  OBVIOUS
<1>3. After(q) = CHOOSE y \in Inner : TRUE
  BY DEF With
<1>4. Inner = {Swept(bs, r)}
  OBVIOUS
<1> HIDE DEF Inner, Outer, After, r
<1>5. (CHOOSE y \in Outer : TRUE) = After(q) /\ (CHOOSE y \in Inner : TRUE) = Swept(bs, r)
  BY <1>2, <1>4, ChosenOne
<1> QED BY <1>1, <1>3, <1>5 DEF r

LEMMA MarkBlockKeeps ==
    ASSUME NEW bs, IsCode(bs), NEW p, MarkInv(bs, p), ~p.done
    PROVE  MarkInv(bs, MarkBlock(p, bs))
<1> DEFINE b == p.next
           n == Len(bs)
           q == MarkAll(p, bs[b])
           r == Marked([q EXCEPT !.next = b - 1], q.ssa, q.phi, q.new_live)
           t == MarkBlock(p, bs)
<1>1. /\ IsPass(p) /\ n \in Nat \ {0} /\ DOMAIN bs = 1 .. n /\ b \in 1 .. n
      /\ Len(bs[b]) \in Nat /\ DOMAIN bs[b] = 1 .. Len(bs[b])
  <2>1. b \in 1 .. n
    BY DEF MarkInv, IsCode
  <2> QED BY <2>1 DEF MarkInv, IsCode
<1> HIDE DEF n, b
<1>2. /\ IsPass(q) /\ q.next = b /\ q.done = p.done
      /\ ~q.new_live => ~p.new_live /\ q.ssa = p.ssa /\ q.phi = p.phi /\ Enough(p.ssa, p.phi, bs[b])
      /\ \A ssa, phi : p.ssa \subseteq ssa /\ p.phi \subseteq phi /\ Enough(ssa, phi, bs[b])
                       => q.ssa \subseteq ssa /\ q.phi \subseteq phi
  <2>1. b = p.next /\ BlockIsMarked(p, bs[b], q)
    BY <1>1, BlockMarked DEF b
  <2> QED BY <2>1 DEF BlockIsMarked
<1>3. t = Swept(bs, [q EXCEPT !.next = @ - 1])
  BY MarkBlockIs DEF b
<1> HIDE DEF q, t
<1>4. [q EXCEPT !.next = @ - 1] = [ssa |-> q.ssa, phi |-> q.phi, next |-> b - 1, new_live |-> q.new_live, done |-> q.done]
  BY <1>2 DEF IsPass, Marked
<1> DEFINE s == [ssa |-> q.ssa, phi |-> q.phi, next |-> b - 1, new_live |-> q.new_live, done |-> q.done]
<1>5. t = IF b - 1 # 0 THEN s
          ELSE IF q.new_live THEN [s EXCEPT !.next = n, !.new_live = FALSE] ELSE [s EXCEPT !.done = TRUE]
  BY <1>3, <1>4 DEF Swept, AfterSweep, n
<1>6. /\ t.ssa = q.ssa /\ t.phi = q.phi
      /\ t.next = (IF b - 1 # 0 THEN b - 1 ELSE IF q.new_live THEN n ELSE 0)
      /\ t.new_live = (IF b - 1 # 0 THEN q.new_live ELSE FALSE)
      /\ t.done = (IF b - 1 # 0 \/ q.new_live THEN FALSE ELSE TRUE)
      /\ t = [ssa |-> t.ssa, phi |-> t.phi, next |-> t.next, new_live |-> t.new_live, done |-> t.done]
  <2>0. q.done = FALSE /\ q.new_live \in BOOLEAN
    BY <1>2 DEF IsPass
  <2>1. CASE b - 1 # 0
    BY <1>5, <2>0, <2>1
  <2>2. CASE b - 1 = 0 /\ q.new_live
    BY <1>5, <2>0, <2>2
  <2>3. CASE b - 1 = 0 /\ ~q.new_live
    BY <1>1, <1>5, <2>0, <2>3
  <2> QED BY <2>1, <2>2, <2>3
<1>7. IsPass(t) /\ t.next \in 0 .. n /\ (t.done <=> t.next = 0) /\ (t.done => ~t.new_live)
  <2>1. q.new_live \in BOOLEAN
    BY <1>2 DEF IsPass
  <2>2. IsPass(t)
    <3>1. t = Marked(t, t.ssa, t.phi, t.new_live)
      BY <1>6 DEF Marked
    <3>2. t.new_live \in BOOLEAN /\ t.done \in BOOLEAN
      BY <1>6, <2>1
    <3> QED BY <3>1, <3>2 DEF IsPass
  <2>3. t.next \in 0 .. n /\ (t.done <=> t.next = 0)
    BY <1>1, <1>6, <2>1
  <2> QED BY <1>6, <2>2, <2>3
<1>8. ASSUME ~t.new_live, NEW d \in DOMAIN bs, d > t.next PROVE Enough(t.ssa, t.phi, bs[d])
  <2>1. ~q.new_live /\ d >= b
    BY <1>1, <1>6, <1>8
  <2>2. /\ ~p.new_live /\ q.ssa = p.ssa /\ q.phi = p.phi
        /\ Enough(p.ssa, p.phi, bs[b])
    BY <1>2, <2>1
  <2>3. d = b \/ d > p.next
    BY <1>1, <2>1 DEF b
  <2> QED BY <1>6, <2>2, <2>3 DEF MarkInv
<1>9. ASSUME NEW ssa, NEW phi, EnoughForAll(ssa, phi, bs) PROVE t.ssa \subseteq ssa /\ t.phi \subseteq phi
  <2>1. p.ssa \subseteq ssa /\ p.phi \subseteq phi
    BY <1>9 DEF MarkInv
  <2>2. Enough(ssa, phi, bs[b])
    BY <1>1, <1>9 DEF EnoughForAll
  <2> QED BY <1>2, <1>6, <2>1, <2>2
<1> QED BY <1>7, <1>8, <1>9 DEF MarkInv, t, n

LEMMA NewPassHolds ==
    ASSUME NEW bs, IsCode(bs)
    PROVE  MarkInv(bs, NewPass(Len(bs)))
<1> DEFINE n == Len(bs)
           p == NewPass(n)
<1>1. n \in Nat \ {0} /\ DOMAIN bs = 1 .. n
  BY DEF IsCode
<1>2. /\ p = [ssa |-> p.ssa, phi |-> p.phi, next |-> p.next, new_live |-> p.new_live, done |-> p.done]
      /\ p.ssa = {} /\ p.phi = {} /\ p.next = n /\ ~p.new_live /\ ~p.done
      /\ p.new_live \in BOOLEAN /\ p.done \in BOOLEAN
  BY DEF NewPass
<1> HIDE DEF p, n
<1>3. IsPass(p)
  BY <1>2 DEF IsPass, Marked
<1>4. \A b \in DOMAIN bs : ~(b > p.next)
  BY <1>1, <1>2
<1>5. p.next \in 0 .. n /\ p.next # 0
  BY <1>1, <1>2
<1> QED BY <1>2, <1>3, <1>4, <1>5 DEF MarkInv, p, n

(* opt_dce, when it has swept without marking anything: the values and the *)
(* phis it has marked are enough for every instruction that has an effect  *)
(* and for all that those are made of, through phis and around loops, and  *)
(* no value or phi is marked without need, in whatever blocks              *)
(* (DeadCodePass::run, mark_instr).                                        *)
THEOREM DeadCodeMarksLeast == MarkSpec => []MarkedIsLeast
<1> DEFINE Inv == IsCode(blocks) /\ MarkInv(blocks, pass)
<1>1. MarkInit => Inv
  BY NewPassHolds DEF MarkInit
<1>2. Inv /\ [MarkNext]_<<blocks, pass>> => Inv'
  <2> SUFFICES ASSUME Inv, [MarkNext]_<<blocks, pass>> PROVE Inv'
    OBVIOUS
  <2>1. CASE MarkNext
    <3>1. ~pass.done /\ pass' = MarkBlock(pass, blocks) /\ blocks' = blocks
      BY <2>1 DEF MarkNext
    <3> QED BY <3>1, MarkBlockKeeps
  <2>2. CASE UNCHANGED <<blocks, pass>>
    BY <2>2
  <2> QED BY <2>1, <2>2
<1>3. Inv => MarkedIsLeast
  <2> SUFFICES ASSUME Inv, pass.done PROVE EnoughForAll(pass.ssa, pass.phi, blocks)
    BY DEF MarkedIsLeast, MarkInv
  <2>1. \A b \in DOMAIN blocks : b > pass.next
    BY DEF MarkInv, IsCode
  <2> QED BY <2>1 DEF MarkInv, EnoughForAll
<1> QED BY <1>1, <1>2, <1>3, PTL DEF MarkSpec
=============================================================================
