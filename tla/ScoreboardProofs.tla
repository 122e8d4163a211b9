-------------------------- MODULE ScoreboardProofs --------------------------
(***************************************************************************)
(* Scheduling after register allocation keeps what depends on each other   *)
(* in order; barriers stand for one dependency each; every operand is the  *)
(* one program order gives, and no late write lands on a newer one.  For   *)
(* any instructions, any number of registers and barriers (two or more),   *)
(* and programs and executions of any length.                              *)
(***************************************************************************)
EXTENDS Scoreboard, DelaysProofs

-----------------------------------------------------------------------------
-----------------------------------------------------------------------------
(* What comes in a chain is in order when neighbours are.                  *)
LEMMA ChainKeepsOrder ==
    ASSUME NEW n \in Nat, NEW chain, chain \subseteq 1 .. n, NEW pos \in [1 .. n -> Nat],
           \A x, y \in chain : x < y /\ Between(x, y) \intersect chain = {} => pos[x] < pos[y]
    PROVE  \A x, y \in chain : x < y => pos[x] < pos[y]
<1> SUFFICES ASSUME NEW x \in chain, NEW late \in chain, x < late, ~(pos[x] < pos[late])
             PROVE  FALSE
  OBVIOUS
<1> DEFINE T == {z \in chain : x < z /\ ~(pos[x] < pos[z])}
<1>1. T \subseteq Nat /\ T # {}
  <2>1. late \in T
    OBVIOUS
  <2>2. \A z \in chain : z \in Nat
    OBVIOUS
  <2>3. \A z \in T : z \in chain
    OBVIOUS
  <2> HIDE DEF T
  <2> QED BY <2>1, <2>2, <2>3
<1>2. PICK y \in T : \A m \in T : y <= m
  BY <1>1, LeastElement
<1> DEFINE Before == {w \in chain : x <= w /\ w < y}
<1>3. Before \subseteq 0 .. n /\ Before # {}
  <2>1. x \in Before
    BY <1>2
  <2>2. Before \subseteq 1 .. n
    OBVIOUS
  <2> QED BY <2>1, <2>2
<1>4. PICK w \in Before : \A m \in Before : m <= w
  BY <1>3, GreatestElement
<1>5. Between(w, y) \intersect chain = {}
  BY <1>2, <1>4 DEF Between
<1>6. pos[w] < pos[y]
  BY <1>2, <1>4, <1>5
<1>7. w = x \/ pos[x] < pos[w]
  BY <1>2, <1>4
<1> QED BY <1>2, <1>4, <1>6, <1>7

-----------------------------------------------------------------------------
(* The edges of the dependence graph.                                      *)
LEMMA UsesAre ==
    ASSUME NEW block, NEW i \in DOMAIN block
    PROVE  Uses(DepGraph(block), i) =
               {j \in DOMAIN block : i < j /\ Latencies(block, i, j) # {}}
<1> DEFINE Pairs == {e \in (DOMAIN block) \X (DOMAIN block) :
                       e[1] < e[2] /\ Latencies(block, e[1], e[2]) # {}}
           Edges == {<<e[1], e[2], Max(Latencies(block, e[1], e[2]))>> : e \in Pairs}
<1>1. DepGraph(block).edges = Edges
  BY DEF DepGraph
<1>2. \A k, j : <<k, j>> \in Pairs <=> k \in DOMAIN block /\ j \in DOMAIN block /\ k < j /\ Latencies(block, k, j) # {}
  OBVIOUS
<1>3. /\ \A e \in Edges : <<e[1], e[2]>> \in Pairs
      /\ \A k, j : <<k, j>> \in Pairs => \E e \in Edges : e[1] = k /\ e[2] = j
  <2>1. ASSUME NEW e \in Pairs
        PROVE  LET edge == <<e[1], e[2], Max(Latencies(block, e[1], e[2]))>>
               IN  edge \in Edges /\ edge[1] = e[1] /\ edge[2] = e[2] /\ e = <<e[1], e[2]>>
    OBVIOUS
  <2> HIDE DEF Pairs
  <2>2. ASSUME NEW e \in Edges PROVE <<e[1], e[2]>> \in Pairs
    <3>1. PICK d \in Pairs : e = <<d[1], d[2], Max(Latencies(block, d[1], d[2]))>>
      OBVIOUS
    <3>2. e[1] = d[1] /\ e[2] = d[2]
      BY <3>1
    <3> QED BY <2>1, <3>1, <3>2
  <2>3. ASSUME NEW k, NEW j, <<k, j>> \in Pairs PROVE \E e \in Edges : e[1] = k /\ e[2] = j
    <3>1. <<k, j>>[1] = k /\ <<k, j>>[2] = j
      OBVIOUS
    <3> QED BY <2>1, <2>3, <3>1
  <2> QED BY <2>2, <2>3
<1> HIDE DEF Pairs, Edges
<1>4. \A j : j \in Uses(DepGraph(block), i) <=> \E e \in Edges : e[1] = i /\ e[2] = j
  BY <1>1 DEF Uses
<1>5. \A j : j \in Uses(DepGraph(block), i) <=> <<i, j>> \in Pairs
  BY <1>3, <1>4
<1> QED BY <1>2, <1>5

-----------------------------------------------------------------------------
(* An order that respects the edges respects every dependence.             *)
Respects(block, pos) ==
    \A i, j \in DOMAIN block : i < j /\ Latencies(block, i, j) # {} => pos[i] < pos[j]

LEMMA EdgeOfWrite ==
    ASSUME NEW block, NEW i, NEW j, NEW r \in block[i].dsts, IsReader(block, i, j, r),
           r \in block[j].dsts \/ r \in Touched(block[j])
    PROVE  Latencies(block, i, j) # {}
<1>1. CASE r \in block[j].dsts
  <2>1. Signalled(block[i], InstrLatency(block[i], r)) \in WriteAfterWrite(block, i, j)
    BY <1>1 DEF WriteAfterWrite, IsNextWrite
  <2> QED BY <2>1 DEF Latencies
<1>2. CASE r \in block[j].srcs
  <2>1. Max({InstrLatency(block[i], r), EstimateVariableLatency(block[i])}) \in ReadAfterWrite(block, i, j)
    BY <1>2 DEF ReadAfterWrite
  <2> QED BY <2>1 DEF Latencies
<1>3. CASE r \in block[j].pred
  <2>1. Max({PawLatency, EstimateVariableLatency(block[i])}) \in GuardAfterWrite(block, i, j)
    BY <1>3 DEF GuardAfterWrite
  <2> QED BY <2>1 DEF Latencies
<1> QED BY <1>1, <1>2, <1>3 DEF Touched

LEMMA EdgeOfRead ==
    ASSUME NEW block, NEW i, NEW j, NEW r \in block[i].srcs, IsNextWrite(block, i, j, r)
    PROVE  Latencies(block, i, j) # {}
<1>1. Signalled(block[i], WarLatency) \in WriteAfterRead(block, i, j)
  BY DEF WriteAfterRead
<1> QED BY <1>1 DEF Latencies

LEMMA EdgeOfEffect ==
    ASSUME NEW block, NEW i, NEW j, Serialized(block, i, j)
    PROVE  Latencies(block, i, j) # {}
BY DEF Latencies

LEMMA WritesKeepOrder ==
    ASSUME NEW n \in Nat, NEW block, DOMAIN block = 1 .. n, NEW pos \in [1 .. n -> Nat],
           Respects(block, pos), NEW r
    PROVE  \A i, j \in 1 .. n :
              i < j /\ r \in block[i].dsts /\ r \in block[j].dsts => pos[i] < pos[j]
<1> DEFINE chain == {k \in 1 .. n : r \in block[k].dsts}
<1>1. ASSUME NEW i \in chain, NEW j \in chain, i < j, Between(i, j) \intersect chain = {}
      PROVE  pos[i] < pos[j]
  <2>1. ASSUME NEW k \in Between(i, j) PROVE r \notin block[k].dsts
    <3>1. k \in 1 .. n
      BY DEF Between
    <3>2. k \notin chain
      BY <1>1
    <3> QED BY <3>1, <3>2
  <2>2. IsReader(block, i, j, r)
    BY <2>1 DEF IsReader
  <2>3. Latencies(block, i, j) # {}
    BY <2>2, EdgeOfWrite
  <2> QED BY <1>1, <2>3 DEF Respects
<1>2. \A i, j \in chain : i < j => pos[i] < pos[j]
  <2>1. chain \subseteq 1 .. n
    OBVIOUS
  <2> HIDE DEF chain
  <2> QED BY <1>1, <2>1, ChainKeepsOrder
<1> QED BY <1>2

LEMMA EffectsKeepOrder ==
    ASSUME NEW n \in Nat, NEW block, DOMAIN block = 1 .. n, NEW pos \in [1 .. n -> Nat],
           Respects(block, pos)
    PROVE  \A i, j \in 1 .. n : i < j =>
              /\ IsMemory(block, i) /\ IsMemory(block, j) => pos[i] < pos[j]
              /\ IsBarrier(block, i) /\ IsBarrier(block, j) => pos[i] < pos[j]
<1> DEFINE memory == {k \in 1 .. n : IsMemory(block, k)}
           barriers == {k \in 1 .. n : IsBarrier(block, k)}
<1>1. \A i, j \in memory : i < j => pos[i] < pos[j]
  <2>1. ASSUME NEW i \in memory, NEW j \in memory, i < j, Between(i, j) \intersect memory = {}
        PROVE  pos[i] < pos[j]
    <3>1. \A k \in Between(i, j) : ~IsMemory(block, k)
      BY <2>1 DEF Between
    <3>2. Serialized(block, i, j)
      BY <2>1, <3>1 DEF Serialized
    <3> QED BY <2>1, <3>2, EdgeOfEffect DEF Respects
  <2>2. memory \subseteq 1 .. n
    OBVIOUS
  <2> HIDE DEF memory
  <2> QED BY <2>1, <2>2, ChainKeepsOrder
<1>2. \A i, j \in barriers : i < j => pos[i] < pos[j]
  <2>1. ASSUME NEW i \in barriers, NEW j \in barriers, i < j, Between(i, j) \intersect barriers = {}
        PROVE  pos[i] < pos[j]
    <3>1. \A k \in Between(i, j) : ~IsBarrier(block, k)
      BY <2>1 DEF Between
    <3>2. Serialized(block, i, j)
      BY <2>1, <3>1 DEF Serialized
    <3> QED BY <2>1, <3>2, EdgeOfEffect DEF Respects
  <2>2. barriers \subseteq 1 .. n
    OBVIOUS
  <2> HIDE DEF barriers
  <2> QED BY <2>1, <2>2, ChainKeepsOrder
<1> QED BY <1>1, <1>2

LEMMA DependenceKeepsOrder ==
    ASSUME NEW n \in Nat, NEW block, DOMAIN block = 1 .. n, NEW pos \in [1 .. n -> Nat],
           Respects(block, pos), NEW i \in 1 .. n, NEW j \in 1 .. n, i < j,
           ~(pos[i] < pos[j])
    PROVE  Independent(block[i], block[j])
<1>1. block[i].dsts \intersect (Touched(block[j]) \union block[j].dsts) = {}
  <2> SUFFICES ASSUME NEW r \in block[i].dsts, r \in Touched(block[j]) \/ r \in block[j].dsts
               PROVE  FALSE
    OBVIOUS
  <2> DEFINE Writers == {k \in 1 .. n : r \in block[k].dsts /\ i <= k /\ k < j}
  <2>1. Writers \subseteq 0 .. n /\ i \in Writers
    OBVIOUS
  <2>2. PICK w \in Writers : \A m \in Writers : m <= w
    BY <2>1, GreatestElement
  <2>3. IsReader(block, w, j, r)
    BY <2>2 DEF IsReader, Between
  <2>4. pos[w] < pos[j]
    BY <2>2, <2>3, EdgeOfWrite DEF Respects
  <2>5. w = i \/ pos[i] < pos[w]
    BY <2>2, WritesKeepOrder
  <2> QED BY <2>2, <2>4, <2>5
<1>2. block[i].srcs \intersect block[j].dsts = {}
  <2> SUFFICES ASSUME NEW r \in block[i].srcs, r \in block[j].dsts
               PROVE  FALSE
    OBVIOUS
  <2> DEFINE Writers == {k \in 1 .. n : r \in block[k].dsts /\ i < k}
  <2>1. Writers \subseteq Nat /\ j \in Writers
    OBVIOUS
  <2>2. PICK w \in Writers : \A m \in Writers : w <= m
    BY <2>1, LeastElement
  <2>3. IsNextWrite(block, i, w, r)
    BY <2>2 DEF IsNextWrite, IsReader, Between
  <2>4. pos[i] < pos[w]
    BY <2>2, <2>3, EdgeOfRead DEF Respects
  <2>5. w = j \/ pos[w] < pos[j]
    <3>1. w \in 1 .. n /\ r \in block[w].dsts /\ w <= j
      BY <2>1, <2>2
    <3>2. ASSUME w < j PROVE pos[w] < pos[j]
      <4> HIDE DEF Writers
      <4>1. \A x, y \in 1 .. n :
               x < y /\ r \in block[x].dsts /\ r \in block[y].dsts => pos[x] < pos[y]
        BY WritesKeepOrder
      <4> QED BY <3>1, <3>2, <4>1
    <3> QED BY <3>1, <3>2
  <2> QED BY <2>2, <2>4, <2>5
<1>3. ~(IsMemory(block, i) /\ IsMemory(block, j))
  BY EffectsKeepOrder
<1>4. ~IsBarrier(block, i)
  <2> SUFFICES ASSUME IsBarrier(block, i) PROVE FALSE
    OBVIOUS
  <2> DEFINE Barriers == {k \in 1 .. n : IsBarrier(block, k) /\ i <= k /\ k < j}
  <2>1. Barriers \subseteq 0 .. n /\ i \in Barriers
    OBVIOUS
  <2>2. PICK w \in Barriers : \A m \in Barriers : m <= w
    BY <2>1, GreatestElement
  <2>3. \A k \in Between(w, j) : ~IsBarrier(block, k)
    BY <2>2 DEF Between
  <2>4. pos[w] < pos[j]
    BY <2>2, <2>3, EdgeOfEffect DEF Respects, Serialized
  <2>5. w = i \/ pos[i] < pos[w]
    BY <2>2, EffectsKeepOrder
  <2> QED BY <2>2, <2>4, <2>5
<1>5. ~IsBarrier(block, j)
  <2> SUFFICES ASSUME IsBarrier(block, j) PROVE FALSE
    OBVIOUS
  <2> DEFINE Barriers == {k \in 1 .. n : IsBarrier(block, k) /\ i < k}
  <2>1. Barriers \subseteq Nat /\ j \in Barriers
    OBVIOUS
  <2>2. PICK w \in Barriers : \A m \in Barriers : w <= m
    BY <2>1, LeastElement
  <2>3. \A k \in Between(i, w) : ~IsBarrier(block, k)
    BY <2>2 DEF Between
  <2>4. pos[i] < pos[w]
    BY <2>2, <2>3, EdgeOfEffect DEF Respects, Serialized
  <2>5. w = j \/ pos[w] < pos[j]
    BY <2>1, <2>2, EffectsKeepOrder
  <2> QED BY <2>2, <2>4, <2>5
<1> QED BY <1>1, <1>2, <1>3, <1>4, <1>5 DEF Independent, IsMemory, IsBarrier

-----------------------------------------------------------------------------
(* The list scheduler: what is placed, from the end, has its uses placed   *)
(* behind it, and what waits is all that may come next.                    *)
OrderOk(block, state) ==
    /\ DOMAIN state = {"edges", "toEnd", "cycle", "order", "ready", "waiting"}
    /\ state.edges = DepGraph(block).edges
    /\ state.order \in Seq(DOMAIN block)
    /\ state.waiting = {i \in DOMAIN block :
           i \notin Range(state.order) /\ Uses(state, i) \subseteq Range(state.order)}
    /\ \A k, m \in DOMAIN state.order : state.order[k] = state.order[m] => k = m
    /\ \A k \in DOMAIN state.order : \A j \in Uses(state, state.order[k]) :
           \E m \in DOMAIN state.order : k < m /\ state.order[m] = j

LEMMA StartOk ==
    ASSUME NEW block
    PROVE  OrderOk(block, Start(block))
<1> DEFINE state == Start(block)
<1>1. /\ DOMAIN state = {"edges", "toEnd", "cycle", "order", "ready", "waiting"}
      /\ state.edges = DepGraph(block).edges
      /\ state.order = <<>>
      /\ state.waiting = {i \in DOMAIN block : Uses(DepGraph(block), i) = {}}
  BY DEF Start
<1> HIDE DEF state
<1>2. \A i : Uses(state, i) = Uses(DepGraph(block), i)
  BY <1>1 DEF Uses
<1>3. Range(state.order) = {} /\ DOMAIN state.order = {} /\ state.order \in Seq(DOMAIN block)
  BY <1>1 DEF Range
<1>4. OrderOk(block, state)
  BY <1>1, <1>2, <1>3 DEF OrderOk
<1> QED BY <1>4 DEF state

LEMMA PlaceOk ==
    ASSUME NEW n \in Nat, NEW block, DOMAIN block = 1 .. n,
           NEW state, OrderOk(block, state), NEW next \in state.waiting
    PROVE  OrderOk(block, Place(block, state, next))
<1> DEFINE seq == <<next>> \o state.order
           Into(i) == {e[3] : e \in {e \in state.edges : e[1] = i /\ e[2] = next}}
           Released == {i \in DOMAIN block : Into(i) # {} /\ Uses(state, i) \subseteq Range(seq)}
           new == Place(block, state, next)
<1>1. /\ DOMAIN new = DOMAIN state
      /\ new.edges = state.edges
      /\ new.order = seq
      /\ new.waiting = (state.waiting \ {next}) \union Released
  BY DEF Place, OrderOk
<1> HIDE DEF new
<1>2. \A i : Uses(new, i) = Uses(state, i)
  BY <1>1 DEF Uses
<1>3. /\ next \in DOMAIN block /\ next \notin Range(state.order)
      /\ Uses(state, next) \subseteq Range(state.order)
  BY DEF OrderOk
<1>4. /\ seq \in Seq(DOMAIN block)
      /\ DOMAIN seq = 1 .. Len(state.order) + 1 /\ Len(state.order) \in Nat
      /\ seq[1] = next
      /\ \A k \in DOMAIN state.order : k \in 1 .. Len(state.order) /\ seq[k + 1] = state.order[k]
      /\ \A k \in DOMAIN seq : k # 1 => k - 1 \in DOMAIN state.order /\ seq[k] = state.order[k - 1]
  BY <1>3 DEF OrderOk
<1> HIDE DEF seq
<1>5. Range(seq) = Range(state.order) \union {next}
  <2>1. ASSUME NEW i \in Range(seq) PROVE i \in Range(state.order) \union {next}
    <3>1. PICK k \in DOMAIN seq : i = seq[k]
      BY <2>1 DEF Range
    <3> QED BY <1>4, <3>1 DEF Range
  <2>2. ASSUME NEW i \in Range(state.order) PROVE i \in Range(seq)
    <3>1. PICK k \in DOMAIN state.order : i = state.order[k]
      BY <2>2 DEF Range
    <3>2. k + 1 \in DOMAIN seq /\ seq[k + 1] = i
      BY <1>4, <3>1
    <3> QED BY <3>2 DEF Range
  <2>3. 1 \in DOMAIN seq /\ seq[1] = next
    BY <1>4
  <2>4. next \in Range(seq)
    BY <2>3 DEF Range
  <2> QED BY <2>1, <2>2, <2>4
<1>6. \A i \in DOMAIN block : Into(i) # {} <=> next \in Uses(state, i)
  BY DEF Uses
<1>7. \A i \in DOMAIN block : Uses(state, i) = {j \in DOMAIN block : i < j /\ Latencies(block, i, j) # {}}
  <2>1. \A i \in DOMAIN block : Uses(state, i) = Uses(DepGraph(block), i)
    BY DEF Uses, OrderOk
  <2> QED BY <2>1, UsesAre
<1> HIDE DEF Into
<1>8. new.waiting = {i \in DOMAIN block : i \notin Range(seq) /\ Uses(new, i) \subseteq Range(seq)}
  <2>1. next \notin Uses(state, next)
    BY <1>3, <1>7
  <2>2. \A i \in Range(state.order) : i \in DOMAIN block /\ Uses(state, i) \subseteq Range(state.order)
    BY DEF OrderOk, Range
  <2>3. state.waiting = {i \in DOMAIN block :
           i \notin Range(state.order) /\ Uses(state, i) \subseteq Range(state.order)}
    BY DEF OrderOk
  <2>4. ASSUME NEW i \in Released PROVE i \notin Range(seq)
    BY <1>3, <1>5, <1>6, <2>1, <2>2
  <2>5. ASSUME NEW i \in DOMAIN block, i \notin Range(seq), Uses(state, i) \subseteq Range(seq)
        PROVE  i \in new.waiting
    BY <1>1, <1>5, <1>6, <2>3, <2>5
  <2> QED BY <1>1, <1>2, <1>5, <2>3, <2>4, <2>5
<1>9. \A k, m \in DOMAIN seq : seq[k] = seq[m] => k = m
  <2>1. \A k \in DOMAIN state.order : state.order[k] # next
    BY <1>3 DEF Range
  <2>2. \A k, m \in DOMAIN state.order : state.order[k] = state.order[m] => k = m
    BY DEF OrderOk
  <2>3. ASSUME NEW k \in DOMAIN seq, NEW m \in DOMAIN seq, seq[k] = seq[m], k # m
        PROVE  FALSE
    <3>1. CASE k = 1
      <4>1. m - 1 \in DOMAIN state.order /\ seq[m] = state.order[m - 1]
        BY <1>4, <2>3, <3>1
      <4> QED BY <1>4, <2>1, <2>3, <3>1, <4>1
    <3>2. CASE m = 1
      <4>1. k - 1 \in DOMAIN state.order /\ seq[k] = state.order[k - 1]
        BY <1>4, <2>3, <3>2
      <4> QED BY <1>4, <2>1, <2>3, <3>2, <4>1
    <3>3. CASE k # 1 /\ m # 1
      <4>1. /\ m - 1 \in DOMAIN state.order /\ seq[m] = state.order[m - 1]
            /\ k - 1 \in DOMAIN state.order /\ seq[k] = state.order[k - 1]
        BY <1>4, <3>3
      <4>2. k - 1 = m - 1
        BY <2>2, <2>3, <4>1
      <4> QED BY <1>4, <2>3, <4>2
    <3> QED BY <3>1, <3>2, <3>3
  <2> QED BY <2>3
<1>10. ASSUME NEW k \in DOMAIN seq, NEW j \in Uses(state, seq[k])
       PROVE  \E m \in DOMAIN seq : k < m /\ seq[m] = j
  <2>1. ASSUME NEW m \in DOMAIN state.order
        PROVE  m + 1 \in DOMAIN seq /\ 1 < m + 1 /\ seq[m + 1] = state.order[m]
    BY <1>4, <2>1
  <2>2. CASE k = 1
    <3>1. j \in Range(state.order)
      BY <1>3, <1>4, <1>10, <2>2
    <3>2. PICK m \in DOMAIN state.order : state.order[m] = j
      BY <3>1 DEF Range
    <3> QED BY <2>1, <2>2, <3>2
  <2>3. CASE k # 1
    <3>1. k - 1 \in DOMAIN state.order /\ seq[k] = state.order[k - 1]
      BY <1>4, <2>3
    <3>2. PICK m \in DOMAIN state.order : k - 1 < m /\ state.order[m] = j
      BY <1>10, <3>1 DEF OrderOk
    <3>3. k \in Nat /\ m \in Nat /\ k < m + 1
      BY <1>4, <3>2
    <3> QED BY <2>1, <3>2, <3>3
  <2> QED BY <2>2, <2>3
<1>11. OrderOk(block, new)
  <2>1. DOMAIN new = {"edges", "toEnd", "cycle", "order", "ready", "waiting"}
    BY <1>1 DEF OrderOk
  <2>2. new.edges = DepGraph(block).edges
    BY <1>1 DEF OrderOk
  <2>3. ASSUME NEW k \in DOMAIN seq, NEW j \in Uses(new, seq[k])
        PROVE  \E m \in DOMAIN seq : k < m /\ seq[m] = j
    BY <1>2, <1>10
  <2>4. new.order = seq /\ seq \in Seq(DOMAIN block)
    BY <1>1, <1>4
  <2>5. /\ DOMAIN new = {"edges", "toEnd", "cycle", "order", "ready", "waiting"}
        /\ new.edges = DepGraph(block).edges
        /\ new.order \in Seq(DOMAIN block)
        /\ new.waiting = {i \in DOMAIN block : i \notin Range(new.order) /\ Uses(new, i) \subseteq Range(new.order)}
    BY <1>8, <2>1, <2>2, <2>4
  <2>6. /\ \A k, m \in DOMAIN new.order : new.order[k] = new.order[m] => k = m
        /\ \A k \in DOMAIN new.order : \A j \in Uses(new, new.order[k]) :
              \E m \in DOMAIN new.order : k < m /\ new.order[m] = j
    BY <1>9, <2>3, <2>4
  <2> QED BY <2>5, <2>6 DEF OrderOk
<1> QED BY <1>11 DEF new

(* When nothing waits every instruction is placed, once.                   *)
LEMMA FinishedOrder ==
    ASSUME NEW n \in Nat, NEW block, DOMAIN block = 1 .. n,
           NEW state, OrderOk(block, state), state.waiting = {}
    PROVE  /\ Len(state.order) = n
           /\ state.order \in [1 .. n -> 1 .. n]
           /\ \E pos \in [1 .. n -> 1 .. n] :
                 /\ \A i \in 1 .. n : state.order[pos[i]] = i /\ pos[state.order[i]] = i
                 /\ Respects(block, pos)
<1> DEFINE seq == state.order
<1>1. /\ seq \in Seq(1 .. n) /\ Len(seq) \in Nat /\ DOMAIN seq = 1 .. Len(seq)
      /\ \A k, m \in DOMAIN seq : seq[k] = seq[m] => k = m
  BY DEF OrderOk
<1>2. \A i \in 1 .. n : Uses(state, i) = {j \in 1 .. n : i < j /\ Latencies(block, i, j) # {}}
  <2>1. \A i : Uses(state, i) = Uses(DepGraph(block), i)
    BY DEF Uses, OrderOk
  <2> QED BY <2>1, UsesAre
<1>3. 1 .. n \subseteq Range(seq)
  <2> DEFINE Left == (1 .. n) \ Range(seq)
  <2> SUFFICES ASSUME Left # {} PROVE FALSE
    OBVIOUS
  <2>1. Left \subseteq 0 .. n
    OBVIOUS
  <2>2. PICK last \in Left : \A m \in Left : m <= last
    BY <2>1, GreatestElement
  <2>3. \A j \in Uses(state, last) : j \in Range(seq)
    BY <1>2, <2>2
  <2>4. last \in state.waiting
    BY <2>2, <2>3 DEF OrderOk
  <2> QED BY <2>4
<1>4. Len(seq) = n
  <2>1. seq \in [1 .. Len(seq) -> 1 .. n]
    BY <1>1
  <2>2. \A i \in 1 .. n : \E k \in 1 .. Len(seq) : seq[k] = i
    BY <1>1, <1>3 DEF Range
  <2>3. seq \in Injection(1 .. Len(seq), 1 .. n)
    <3>1. \A k, m \in 1 .. Len(seq) : seq[k] = seq[m] => k = m
      BY <1>1
    <3> QED BY <2>1, <3>1 DEF Injection, IsInjective
  <2>4. seq \in Surjection(1 .. Len(seq), 1 .. n)
    BY <2>1, <2>2 DEF Surjection
  <2>5. IsFiniteSet(1 .. n) /\ Cardinality(1 .. n) = n /\ Cardinality(1 .. Len(seq)) = Len(seq)
    <3>1. /\ 0 \in Int /\ 1 \in Int /\ n \in Int /\ Len(seq) \in Int
      BY <1>1
    <3>2. /\ IsFiniteSet(1 .. n) /\ Cardinality(1 .. n) = IF 1 > n THEN 0 ELSE n - 1 + 1
          /\ Cardinality(1 .. Len(seq)) = IF 1 > Len(seq) THEN 0 ELSE Len(seq) - 1 + 1
      BY <3>1, FS_Interval
    <3> QED BY <1>1, <3>2
  <2> QED BY <2>3, <2>4, <2>5, FS_Injection
<1> DEFINE pos == [i \in 1 .. n |-> CHOOSE k \in 1 .. n : seq[k] = i]
<1>5. \A i \in 1 .. n : pos[i] \in 1 .. n /\ seq[pos[i]] = i
  <2>1. \A i \in 1 .. n : \E k \in 1 .. n : seq[k] = i
    BY <1>1, <1>3, <1>4 DEF Range
  <2> QED BY <2>1
<1>6. seq \in [1 .. n -> 1 .. n]
  BY <1>1, <1>4
<1>7. pos \in [1 .. n -> 1 .. n]
  BY <1>5
<1> HIDE DEF pos
<1>8. ASSUME NEW i \in 1 .. n PROVE pos[seq[i]] = i
  <2>1. seq[i] \in 1 .. n /\ i \in DOMAIN seq
    BY <1>1, <1>4, <1>6
  <2>2. pos[seq[i]] \in DOMAIN seq /\ seq[pos[seq[i]]] = seq[i]
    BY <1>1, <1>4, <1>5, <2>1
  <2> QED BY <1>1, <2>1, <2>2
<1>9. Respects(block, pos)
  <2> SUFFICES ASSUME NEW i \in 1 .. n, NEW j \in 1 .. n, i < j, Latencies(block, i, j) # {}
               PROVE  pos[i] < pos[j]
    BY DEF Respects
  <2>1. /\ j \in Uses(state, i)
        /\ pos[i] \in DOMAIN seq /\ seq[pos[i]] = i
    <3>1. j \in Uses(state, i)
      BY <1>2
    <3>2. pos[i] \in DOMAIN seq /\ seq[pos[i]] = i
      BY <1>1, <1>4, <1>5
    <3> QED BY <3>1, <3>2
  <2>2. PICK m \in DOMAIN seq : pos[i] < m /\ seq[m] = j
    BY <2>1 DEF OrderOk
  <2>3. m = pos[j]
    BY <1>1, <1>4, <1>5, <2>2
  <2> QED BY <2>2, <2>3
<1> QED BY <1>4, <1>5, <1>6, <1>7, <1>8, <1>9

-----------------------------------------------------------------------------
(* The function while it is written and scheduled.                         *)
CodeOk ==
    /\ program \in Seq(InstructionSet)
    /\ Len(program) <= MaxInstrs
    /\ scheduled \in 0 .. MaxInstrs
    /\ scheduled > 0 => Len(program) = MaxInstrs
    /\ list # << >> =>
          /\ Len(program) = MaxInstrs
          /\ scheduled < MaxInstrs
          /\ OrderOk(Block, list)

LEMMA BlockIs ==
    ASSUME CodeOk, Len(program) = MaxInstrs, scheduled < MaxInstrs
    PROVE  LET end == BlockEnd(program, labels, scheduled + 1) IN
           /\ end \in scheduled + 1 .. MaxInstrs
           /\ Block \in Seq(InstructionSet)
           /\ Len(Block) = end - scheduled
           /\ DOMAIN Block = 1 .. end - scheduled
           /\ \A k \in 1 .. end - scheduled : Block[k] = program[scheduled + k]
           /\ \A k \in scheduled + 1 .. end : BlockEnd(program, labels, k) = end
<1> DEFINE end == BlockEnd(program, labels, scheduled + 1)
<1>1. /\ MaxInstrs \in Nat /\ scheduled \in Nat /\ scheduled + 1 \in 1 .. Len(program)
      /\ program \in Seq(InstructionSet)
  BY BoundsAssumption DEF CodeOk
<1>2. /\ end \in scheduled + 1 .. MaxInstrs
      /\ \A k \in scheduled + 1 .. end : BlockEnd(program, labels, k) = end
  BY <1>1, BlockEndIs
<1> HIDE DEF end
<1>3. /\ end \in Int /\ scheduled + 1 \in Int
      /\ \A i \in scheduled + 1 .. end : program[i] \in InstructionSet
      /\ end - (scheduled + 1) + 1 = end - scheduled
      /\ scheduled + 1 <= end
  BY <1>1, <1>2
<1>4. /\ Block \in Seq(InstructionSet)
      /\ Len(Block) = end - scheduled
      /\ \A i \in 1 .. end - scheduled : Block[i] = program[(scheduled + 1) + i - 1]
  <2>1. Block = SubSeq(program, scheduled + 1, end)
    BY DEF Block, end
  <2> QED BY <1>3, <2>1, SubSeqProperties
<1>5. \A k \in 1 .. end - scheduled : Block[k] = program[scheduled + k]
  <2>1. \A k \in 1 .. end - scheduled : (scheduled + 1) + k - 1 = scheduled + k
    BY <1>1, <1>3
  <2> QED BY <1>4, <2>1
<1> QED BY <1>2, <1>4, <1>5 DEF end

LEMMA FinishIs ==
    ASSUME CodeOk, FinishBlock
    PROVE  LET end == BlockEnd(program, labels, scheduled + 1)
               n == end - scheduled IN
           /\ n \in Nat /\ list.order \in [1 .. n -> 1 .. n]
           /\ program' \in Seq(InstructionSet)
           /\ Len(program') = MaxInstrs
           /\ \A ip \in 1 .. MaxInstrs :
                 program'[ip] = IF scheduled < ip /\ ip <= end
                                THEN program[scheduled + list.order[ip - scheduled]]
                                ELSE program[ip]
<1> DEFINE end == BlockEnd(program, labels, scheduled + 1)
           n == end - scheduled
           before == SubSeq(program, 1, scheduled)
           placed == InOrder(Block, list.order)
           behind == SubSeq(program, end + 1, MaxInstrs)
<1>1. /\ list # << >> /\ list.waiting = {} /\ scheduled' = end
      /\ program' = before \o placed \o behind
      /\ Len(program) = MaxInstrs /\ scheduled < MaxInstrs /\ OrderOk(Block, list)
  BY DEF FinishBlock, CodeOk
<1>2. /\ end \in scheduled + 1 .. MaxInstrs
      /\ Block \in Seq(InstructionSet)
      /\ DOMAIN Block = 1 .. n
      /\ \A k \in 1 .. n : Block[k] = program[scheduled + k]
  BY <1>1, BlockIs
<1>3. /\ MaxInstrs \in Nat /\ scheduled \in 0 .. MaxInstrs /\ end \in Nat /\ n \in Nat
      /\ program \in Seq(InstructionSet)
      /\ \A i \in 1 .. MaxInstrs : program[i] \in InstructionSet
  BY <1>1, <1>2, BoundsAssumption DEF CodeOk
<1> HIDE DEF end, n
<1>4. Len(list.order) = n /\ list.order \in [1 .. n -> 1 .. n] /\ DOMAIN list.order = 1 .. n
  BY <1>1, <1>2, <1>3, FinishedOrder
<1>5. before \in Seq(InstructionSet) /\ Len(before) = scheduled
      /\ \A i \in 1 .. scheduled : before[i] = program[i]
  <2>1. \A i \in 1 .. scheduled : program[i] \in InstructionSet
    BY <1>3
  <2>2. 1 \in Int /\ scheduled \in Int
    BY <1>3
  <2>3. /\ before \in Seq(InstructionSet)
        /\ Len(before) = IF 1 <= scheduled THEN scheduled - 1 + 1 ELSE 0
        /\ \A i \in 1 .. scheduled - 1 + 1 : before[i] = program[1 + i - 1]
    BY <2>1, <2>2, SubSeqProperties
  <2>4. scheduled - 1 + 1 = scheduled /\ (~(1 <= scheduled) => scheduled = 0)
        /\ \A i \in 1 .. scheduled : 1 + i - 1 = i
    BY <1>3
  <2> QED BY <2>3, <2>4
<1>6. placed \in Seq(InstructionSet) /\ Len(placed) = n
      /\ \A i \in 1 .. n : placed[i] = program[scheduled + list.order[i]]
  <2>1. placed = [k \in 1 .. n |-> Block[list.order[k]]]
    BY <1>4 DEF InOrder
  <2>2. \A i \in 1 .. n : Block[i] \in InstructionSet
    <3> DEFINE block == Block
    <3>1. block \in Seq(InstructionSet) /\ DOMAIN block = 1 .. n
      BY <1>2
    <3> HIDE DEF block
    <3>2. \A i \in DOMAIN block : block[i] \in InstructionSet
      BY <3>1, LenProperties
    <3> QED BY <3>1, <3>2 DEF block
  <2>3. placed \in [1 .. n -> InstructionSet]
    BY <1>4, <2>1, <2>2
  <2>4. \A i \in 1 .. n : placed[i] = program[scheduled + list.order[i]]
    BY <1>2, <1>4, <2>1
  <2> HIDE DEF placed
  <2>5. placed \in Seq(InstructionSet) /\ Len(placed) = n
    BY <1>3, <2>3
  <2> QED BY <2>4, <2>5
<1>7. behind \in Seq(InstructionSet) /\ Len(behind) = MaxInstrs - end
      /\ \A i \in 1 .. MaxInstrs - end : behind[i] = program[end + i]
  <2>1. \A i \in end + 1 .. MaxInstrs : program[i] \in InstructionSet
    BY <1>3
  <2>2. end + 1 \in Int /\ MaxInstrs \in Int
    BY <1>3
  <2>3. /\ behind \in Seq(InstructionSet)
        /\ Len(behind) = IF end + 1 <= MaxInstrs THEN MaxInstrs - (end + 1) + 1 ELSE 0
        /\ \A i \in 1 .. MaxInstrs - (end + 1) + 1 : behind[i] = program[(end + 1) + i - 1]
    BY <2>1, <2>2, SubSeqProperties
  <2>4. /\ MaxInstrs - (end + 1) + 1 = MaxInstrs - end
        /\ ~(end + 1 <= MaxInstrs) => MaxInstrs - end = 0
        /\ \A i \in 1 .. MaxInstrs - end : (end + 1) + i - 1 = end + i
    BY <1>2, <1>3
  <2> QED BY <2>3, <2>4
<1> HIDE DEF before, placed, behind
<1>8. /\ before \o placed \in Seq(InstructionSet) /\ Len(before \o placed) = end
      /\ \A i \in 1 .. end : (before \o placed)[i] =
             IF i <= scheduled THEN before[i] ELSE placed[i - scheduled]
  <2>1. scheduled + n = end
    BY <1>3 DEF n
  <2>2. before \in Seq(InstructionSet) /\ placed \in Seq(InstructionSet)
    BY <1>5, <1>6
  <2>3. /\ before \o placed \in Seq(InstructionSet)
        /\ Len(before \o placed) = Len(before) + Len(placed)
        /\ \A i \in 1 .. Len(before) + Len(placed) : (before \o placed)[i] =
              IF i <= Len(before) THEN before[i] ELSE placed[i - Len(before)]
    BY <2>2, ConcatProperties
  <2> QED BY <1>5, <1>6, <2>1, <2>3
<1>9. /\ program' \in Seq(InstructionSet) /\ Len(program') = MaxInstrs
      /\ \A i \in 1 .. MaxInstrs : program'[i] =
             IF i <= end THEN (before \o placed)[i] ELSE behind[i - end]
  <2>1. end + (MaxInstrs - end) = MaxInstrs
    BY <1>3
  <2> DEFINE front == before \o placed
  <2>2. front \in Seq(InstructionSet) /\ behind \in Seq(InstructionSet)
    BY <1>7, <1>8
  <2>3. program' = front \o behind
    BY <1>1
  <2>4. Len(front) = end /\ Len(behind) = MaxInstrs - end
    BY <1>7, <1>8
  <2> HIDE DEF front
  <2>5. /\ front \o behind \in Seq(InstructionSet)
        /\ Len(front \o behind) = Len(front) + Len(behind)
        /\ \A i \in 1 .. Len(front) + Len(behind) : (front \o behind)[i] =
              IF i <= Len(front) THEN front[i] ELSE behind[i - Len(front)]
    BY <2>2, ConcatProperties
  <2>6. /\ program' \in Seq(InstructionSet) /\ Len(program') = MaxInstrs
        /\ \A i \in 1 .. MaxInstrs : program'[i] = IF i <= end THEN front[i] ELSE behind[i - end]
    BY <2>1, <2>3, <2>4, <2>5
  <2> QED BY <2>6 DEF front
<1>10. ASSUME NEW ip \in 1 .. MaxInstrs
       PROVE  program'[ip] = IF scheduled < ip /\ ip <= end
                             THEN program[scheduled + list.order[ip - scheduled]]
                             ELSE program[ip]
  <2>1. CASE ip <= scheduled
    BY <1>2, <1>3, <1>5, <1>8, <1>9, <2>1
  <2>2. CASE scheduled < ip /\ ip <= end
    <3>1. ip - scheduled \in 1 .. n
      BY <1>3, <2>2 DEF n
    <3>2. ip \in 1 .. end /\ ~(ip <= scheduled)
      BY <1>3, <2>2
    <3>3. program'[ip] = placed[ip - scheduled]
      BY <1>8, <1>9, <2>2, <3>2
    <3> QED BY <1>6, <2>2, <3>1, <3>3
  <2>3. CASE end < ip
    <3>1. ip - end \in 1 .. MaxInstrs - end /\ end + (ip - end) = ip
      BY <1>3, <2>3
    <3>2. ~(ip <= end) /\ ip \in Int
      BY <1>3, <2>3
    <3>3. program'[ip] = behind[ip - end]
      BY <1>9, <3>2
    <3> QED BY <1>7, <3>1, <3>2, <3>3
  <2> QED BY <1>3, <2>1, <2>2, <2>3
<1> QED BY <1>3, <1>4, <1>9, <1>10 DEF end, n

LEMMA ListingKeepsCode ==
    ASSUME CodeOk,
           Write \/ StartBlock \/ ScheduleNext \/ FinishBlock
           \/ UNCHANGED <<program, labels, scheduled, list>>
    PROVE  CodeOk'
<1>1. MaxInstrs \in Nat /\ scheduled \in 0 .. MaxInstrs /\ program \in Seq(InstructionSet)
  BY BoundsAssumption DEF CodeOk
<1>2. CASE Write
  <2>1. PICK instr \in InstructionSet : program' = Append(program, instr)
    BY <1>2, InstructionsAssumption DEF Write
  <2>2. /\ program' \in Seq(InstructionSet) /\ Len(program') = Len(program) + 1
        /\ Len(program) < MaxInstrs /\ scheduled' = scheduled /\ list' = list
    BY <1>1, <1>2, <2>1 DEF Write
  <2>3. scheduled = 0 /\ list = << >> /\ Len(program) + 1 <= MaxInstrs
    BY <1>1, <2>2 DEF CodeOk
  <2> QED BY <1>1, <2>2, <2>3 DEF CodeOk
<1>3. CASE StartBlock
  <2>1. /\ Len(program) = MaxInstrs /\ scheduled < MaxInstrs /\ list' = Start(Block)
        /\ program' = program /\ labels' = labels /\ scheduled' = scheduled
    BY <1>3 DEF StartBlock
  <2>2. Block' = Block
    BY <2>1 DEF Block
  <2>3. OrderOk(Block', list')
    BY <2>1, <2>2, StartOk
  <2> QED BY <2>1, <2>3 DEF CodeOk
<1>4. CASE ScheduleNext
  <2>1. /\ program' = program /\ labels' = labels /\ scheduled' = scheduled /\ list # << >>
        /\ Len(program) = MaxInstrs /\ scheduled < MaxInstrs /\ OrderOk(Block, list)
    BY <1>4 DEF ScheduleNext, CodeOk
  <2>2. PICK next \in FastForward(Block, list).waiting : list' = Place(Block, FastForward(Block, list), next)
    BY <1>4 DEF ScheduleNext
  <2>3. OrderOk(Block, FastForward(Block, list))
    <3> DEFINE state == FastForward(Block, list)
    <3>1. DOMAIN list = {"edges", "toEnd", "cycle", "order", "ready", "waiting"}
      BY <2>1 DEF OrderOk
    <3>2. /\ DOMAIN state = DOMAIN list /\ state.edges = list.edges
          /\ state.order = list.order /\ state.waiting = list.waiting
      BY <3>1 DEF FastForward
    <3> HIDE DEF state
    <3>3. \A i : Uses(state, i) = Uses(list, i)
      BY <3>2 DEF Uses
    <3>4. OrderOk(Block, state)
      BY <2>1, <3>2, <3>3 DEF OrderOk
    <3> QED BY <3>4 DEF state
  <2>4. OrderOk(Block, list')
    <3>1. \E n \in Nat : DOMAIN Block = 1 .. n
      <4>1. /\ DOMAIN Block = 1 .. BlockEnd(program, labels, scheduled + 1) - scheduled
            /\ BlockEnd(program, labels, scheduled + 1) \in scheduled + 1 .. MaxInstrs
        BY <2>1, BlockIs
      <4> QED BY <1>1, <4>1
    <3> QED BY <2>2, <2>3, <3>1, PlaceOk
  <2>5. Block' = Block
    BY <2>1 DEF Block
  <2> QED BY <2>1, <2>4, <2>5 DEF CodeOk
<1>5. CASE FinishBlock
  <2>1. program' \in Seq(InstructionSet) /\ Len(program') = MaxInstrs
    BY <1>5, FinishIs
  <2>2. scheduled' \in scheduled + 1 .. MaxInstrs
    <3>1. Len(program) = MaxInstrs /\ scheduled < MaxInstrs
      BY <1>5 DEF FinishBlock, CodeOk
    <3> QED BY <1>5, <3>1, BlockIs DEF FinishBlock
  <2>3. list' = << >>
    BY <1>5 DEF FinishBlock
  <2> QED BY <1>1, <2>1, <2>2, <2>3 DEF CodeOk
<1>6. CASE UNCHANGED <<program, labels, scheduled, list>>
  BY <1>6 DEF CodeOk, Block
<1> QED BY <1>2, <1>3, <1>4, <1>5, <1>6

(* The new order of a block is a permutation that keeps dependences.       *)
LEMMA FinishReorders ==
    ASSUME CodeOk, FinishBlock
    PROVE  Reordered(Independent)
<1> DEFINE end == BlockEnd(program, labels, scheduled + 1)
           n == end - scheduled
           seq == list.order
           Inside(ip) == scheduled < ip /\ ip <= end
           from == [ip \in 1 .. MaxInstrs |->
                      IF Inside(ip) THEN scheduled + seq[ip - scheduled] ELSE ip]
<1>1. /\ Len(program) = MaxInstrs /\ scheduled < MaxInstrs /\ MaxInstrs \in Nat
      /\ scheduled \in 0 .. MaxInstrs /\ program \in Seq(InstructionSet)
      /\ OrderOk(Block, list) /\ list.waiting = {}
  BY BoundsAssumption DEF FinishBlock, CodeOk
<1>2. /\ end \in scheduled + 1 .. MaxInstrs
      /\ DOMAIN Block = 1 .. n
      /\ \A k \in 1 .. n : Block[k] = program[scheduled + k]
      /\ \A k \in scheduled + 1 .. end : BlockEnd(program, labels, k) = end
  BY <1>1, BlockIs
<1> HIDE DEF end
<1>3. n \in Nat
  BY <1>1, <1>2
<1>4. seq \in [1 .. n -> 1 .. n]
  BY <1>1, <1>2, <1>3, FinishedOrder
<1>5. PICK pos \in [1 .. n -> 1 .. n] :
          /\ \A i \in 1 .. n : seq[pos[i]] = i /\ pos[seq[i]] = i
          /\ Respects(Block, pos)
  BY <1>1, <1>2, <1>3, FinishedOrder
<1>6. DOMAIN program = 1 .. MaxInstrs /\ DOMAIN program' = 1 .. MaxInstrs
  <2>1. program' \in Seq(InstructionSet) /\ Len(program') = MaxInstrs
    BY FinishIs
  <2> QED BY <1>1, <2>1, LenProperties
<1>7. \A ip \in 1 .. MaxInstrs : program'[ip] = program[from[ip]]
  <2>1. \A ip \in 1 .. MaxInstrs :
           program'[ip] = IF Inside(ip) THEN program[scheduled + seq[ip - scheduled]] ELSE program[ip]
    BY FinishIs DEF end
  <2> QED BY <2>1
<1> HIDE DEF n, seq
<1>8. ASSUME NEW ip \in 1 .. MaxInstrs, Inside(ip)
      PROVE  /\ ip - scheduled \in 1 .. n
             /\ from[ip] = scheduled + seq[ip - scheduled]
             /\ from[ip] \in 1 .. MaxInstrs /\ Inside(from[ip])
             /\ from[ip] - scheduled = seq[ip - scheduled]
  <2>1. ip - scheduled \in 1 .. n
    BY <1>1, <1>2, <1>8 DEF n
  <2>2. seq[ip - scheduled] \in 1 .. n
    BY <1>4, <2>1
  <2>3. from[ip] = scheduled + seq[ip - scheduled]
    BY <1>8
  <2>4. /\ scheduled + seq[ip - scheduled] \in 1 .. MaxInstrs
        /\ Inside(scheduled + seq[ip - scheduled])
        /\ (scheduled + seq[ip - scheduled]) - scheduled = seq[ip - scheduled]
    BY <1>1, <1>2, <2>2 DEF n
  <2> HIDE DEF from
  <2> QED BY <2>1, <2>3, <2>4
<1>9. ASSUME NEW ip \in 1 .. MaxInstrs, ~Inside(ip)
      PROVE  from[ip] = ip
  BY <1>9
<1> HIDE DEF from
<1>10. from \in [1 .. MaxInstrs -> 1 .. MaxInstrs] /\ IsInjective(from)
  <2>1. from \in [1 .. MaxInstrs -> 1 .. MaxInstrs]
    BY <1>8, <1>9 DEF from
  <2>2. ASSUME NEW i \in 1 .. MaxInstrs, NEW j \in 1 .. MaxInstrs, from[i] = from[j]
        PROVE  i = j
    <3>1. CASE Inside(i) /\ Inside(j)
      <4>1. /\ i - scheduled \in 1 .. n /\ j - scheduled \in 1 .. n
            /\ seq[i - scheduled] = seq[j - scheduled]
        BY <1>8, <2>2, <3>1
      <4>2. i - scheduled = j - scheduled
        BY <1>5, <4>1
      <4> QED BY <1>1, <4>2
    <3>2. CASE ~(Inside(i) /\ Inside(j))
      BY <1>8, <1>9, <2>2, <3>2
    <3> QED BY <3>1, <3>2
  <2> QED BY <2>1, <2>2 DEF IsInjective
<1>11. ASSUME NEW ip \in 1 .. MaxInstrs
       PROVE  BlockEnd(program, labels, from[ip]) = BlockEnd(program, labels, ip)
  <2>1. CASE Inside(ip)
    <3>1. ip \in scheduled + 1 .. end /\ from[ip] \in scheduled + 1 .. end
      BY <1>1, <1>2, <1>8, <2>1
    <3> QED BY <1>2, <3>1
  <2>2. CASE ~Inside(ip)
    BY <1>9, <2>2
  <2> QED BY <2>1, <2>2
<1>12. ASSUME NEW i \in 1 .. MaxInstrs, NEW j \in 1 .. MaxInstrs, i < j, from[i] > from[j]
       PROVE  Independent(program[from[j]], program[from[i]])
  <2>1. Inside(i) /\ Inside(j)
    <3>1. CASE ~Inside(i) /\ ~Inside(j)
      BY <1>9, <1>12, <3>1
    <3>2. CASE Inside(i) /\ ~Inside(j)
      <4>1. from[j] = j /\ from[i] <= end /\ end < j /\ from[i] \in Nat
        BY <1>1, <1>2, <1>8, <1>9, <1>12, <3>2
      <4> QED BY <1>2, <1>12, <4>1
    <3>3. CASE ~Inside(i) /\ Inside(j)
      <4>1. from[i] = i /\ scheduled < from[j] /\ i <= scheduled /\ from[j] \in Nat
        BY <1>1, <1>2, <1>8, <1>9, <1>12, <3>3
      <4> QED BY <1>1, <1>12, <4>1
    <3> QED BY <3>1, <3>2, <3>3
  <2> DEFINE x == seq[j - scheduled]
             y == seq[i - scheduled]
  <2>2. /\ i - scheduled \in 1 .. n /\ j - scheduled \in 1 .. n
        /\ from[i] = scheduled + y /\ from[j] = scheduled + x
    BY <1>8, <2>1
  <2>3. x \in 1 .. n /\ y \in 1 .. n /\ pos[x] = j - scheduled /\ pos[y] = i - scheduled
    BY <1>4, <1>5, <2>2
  <2> HIDE DEF x, y
  <2>4. x < y /\ ~(pos[x] < pos[y])
    BY <1>1, <1>12, <2>2, <2>3
  <2>5. pos \in [1 .. n -> Nat]
    BY <1>5
  <2>6. Independent(Block[x], Block[y])
    BY <1>2, <1>3, <1>5, <2>3, <2>4, <2>5, DependenceKeepsOrder DEF n
  <2> QED BY <1>2, <2>2, <2>3, <2>6 DEF n
<1> QED BY <1>6, <1>7, <1>10, <1>11, <1>12 DEF Reordered

-----------------------------------------------------------------------------
(* Dependencies are numbered by instruction, reads odd and writes even.    *)
LEMMA DepsAre ==
    /\ \A i \in Int : ~IsWrite(Rd(i)) /\ IsWrite(Wr(i)) /\ ReadDep(Wr(i)) = Rd(i)
    /\ \A i, j \in Int : /\ Rd(i) = Rd(j) => i = j
                         /\ Wr(i) = Wr(j) => i = j
                         /\ Rd(i) # Wr(j)
    /\ \A i \in 1 .. MaxInstrs : Rd(i) \in Deps /\ Wr(i) \in Deps
BY BoundsAssumption DEF IsWrite, Rd, Wr, ReadDep, Deps

-----------------------------------------------------------------------------
(* calc_delays changes nothing but the delays and its own state.           *)
LEMMA CalcDelaysIs ==
    ASSUME CalcDelays
    PROVE  UNCHANGED <<assignVars, machineVars>>
BY DEF CalcDelays, StartDelays, VisitBlock, VisitInstr, FinishVisit, TellPred, SetDelays

-----------------------------------------------------------------------------
(* The first walk.  An operation that signals is waited for in time: its   *)
(* write dependency by whoever needs or replaces the result and by a       *)
(* branch, its read dependency, or the write behind it, by whoever         *)
(* overwrites a source and by a branch.                                    *)
Ops == {i \in 1 .. analysed : OpNeedsScoreboard(program[i])}

Written(i, j) == firstWait[Wr(i)] \in i + 1 .. j
HasRead(i, j) ==
    \/ firstWait[Rd(i)] \in i + 1 .. j
    \/ program[i].dsts # {} /\ Written(i, j)

Signalling(dep) == \E i \in Ops : dep \in Signals(program[i], i)

WaitsAreReal ==
    \A i \in 1 .. MaxInstrs : \A dep \in {Rd(i), Wr(i)} :
        firstWait[dep] # None =>
            /\ i \in Ops /\ dep \in Signals(program[i], i)
            /\ firstWait[dep] \in i + 1 .. analysed

Outstanding(i) ==
    /\ program[i].dsts # {} => Wr(i) \in active \/ Written(i, analysed)
    /\ program[i].srcs # {} => Rd(i) \in active \/ HasRead(i, analysed)

Tracked(i) ==
    /\ \A r \in program[i].dsts : Wr(i) \in uses[r] \/ Written(i, analysed)
    /\ \A r \in program[i].srcs :
          \/ Rd(i) \in uses[r]
          \/ r \in program[i].dsts /\ Wr(i) \in uses[r]
          \/ HasRead(i, analysed)

InTime(i, j) ==
    /\ program[i].dsts \intersect (Touched(program[j]) \union program[j].dsts) # {} => Written(i, j)
    /\ program[i].srcs \intersect program[j].dsts # {} => HasRead(i, j)
    /\ IsBranch(program[j]) =>
          /\ program[i].dsts # {} => Written(i, j)
          /\ program[i].srcs # {} => HasRead(i, j)

AnalysisOk ==
    /\ analysed \in 0 .. MaxInstrs
    /\ analysed > 0 => scheduled = MaxInstrs
    /\ firstWait \in [Deps -> 0 .. MaxInstrs]
    /\ \A r \in Registers : \A dep \in uses[r] : Signalling(dep)
    /\ \A dep \in active : Signalling(dep) /\ firstWait[dep] = None
    /\ WaitsAreReal
    /\ \A i \in Ops : /\ Outstanding(i) /\ Tracked(i)
                      /\ \A j \in i + 1 .. analysed : InTime(i, j)

-----------------------------------------------------------------------------
(* The second walk.  A barrier an operation was given stands for its       *)
(* dependency until somebody has waited for it, the first who needs to at  *)
(* the latest, and nobody is given it before.                              *)
UsedBars(i) == {sched[i].rd, sched[i].wr} \ {None}
WaitedFor(bar, i, j) == \E k \in i + 1 .. j : bar \in sched[k].wait

Stands(bar, dep, i) ==
    /\ barDep[bar] = dep \/ WaitedFor(bar, i, Len(sched))
    /\ firstWait[dep] <= Len(sched) => WaitedFor(bar, i, firstWait[dep])

Assigned(i) ==
    /\ sched[i].rd = None <=> firstWait[Rd(i)] = None
    /\ sched[i].wr = None <=> firstWait[Wr(i)] = None
    /\ sched[i].rd # None => sched[i].rd # sched[i].wr /\ Stands(sched[i].rd, Rd(i), i)
    /\ sched[i].wr # None => Stands(sched[i].wr, Wr(i), i)

BarsOk ==
    /\ sched \in Seq([wait : SUBSET Bars, rd : Bars \union {None}, wr : Bars \union {None}])
    /\ Len(sched) <= MaxInstrs
    /\ Len(sched) > 0 => analysed = MaxInstrs
    /\ barDep \in [Bars -> 0 .. 2 * Len(sched)]
    /\ \A i \in 1 .. Len(sched) :
          /\ Assigned(i)
          /\ \A j \in i + 1 .. Len(sched) :
                \A bar \in UsedBars(i) \intersect UsedBars(j) : WaitedFor(bar, i, j)

-----------------------------------------------------------------------------
(* The machine.  No barrier an operation in flight has yet to signal has   *)
(* been waited for since it was issued; so none is behind a branch.        *)
Idle(op) == op.stage = "write" /\ program[op.ip].dsts = {}

Behind(op) ==
    /\ op.ip < pc
    /\ \A k \in op.ip + 1 .. pc - 1 : Pending(op) \intersect sched[k].wait = {}

FlyingOk(op) ==
    /\ op = [ip |-> op.ip, stage |-> op.stage, wanted |-> op.wanted, version |-> op.version]
    /\ op.ip \in 1 .. MaxInstrs /\ OpNeedsScoreboard(program[op.ip])
    /\ op.stage \in {"read", "write"}
    /\ op.stage = "read" => program[op.ip].srcs # {}
    /\ ~Idle(op) => Behind(op)

MachineOk ==
    /\ delays # << >> => Len(sched) = MaxInstrs
    /\ flying # {} => delays # << >>
    /\ pc \in 1 .. MaxInstrs + 1
    /\ \A op \in flying : FlyingOk(op)
    /\ \A op1, op2 \in flying :
          ~Idle(op1) /\ ~Idle(op2) /\ op1.ip = op2.ip => op1 = op2

(* The pass that sets the delays is done when they are set.                *)
DelaysOk ==
    /\ flow # << >> =>
          /\ Len(sched) = MaxInstrs
          /\ FlowInv(program, labels, Bars, sched, flow)
    /\ delays # << >> =>
          /\ flow # << >> /\ Solved(flow)
          /\ delays = DelaysOf(program, labels, flow)

(* The values: the newest write of a register is the one in flight.        *)
Newest == \A op \in flying : \A r \in program[op.ip].dsts : order[r] = op.version

SourcesKept ==
    \A op \in flying : op.stage = "read" =>
        \A r \in program[op.ip].srcs : contents[r] = op.wanted[r]

SInv ==
    /\ CodeOk /\ AnalysisOk /\ BarsOk /\ DelaysOk
    /\ MachineOk /\ Newest /\ WritesInOrder /\ SourcesKept

-----------------------------------------------------------------------------
(* add_waits: a dependency that is waited for gets its first waiter, and a *)
(* read is forgotten only with the write behind it.                        *)
LEMMA AddWaitsIs ==
    ASSUME NEW ip \in 1 .. MaxInstrs, NEW signalled, NEW waits,
           firstWait \in [Deps -> 0 .. MaxInstrs],
           AddWaits(ip, signalled, waits)
    PROVE  /\ firstWait' \in [Deps -> 0 .. MaxInstrs]
           /\ \A dep \in Deps : firstWait[dep] # None => firstWait'[dep] = firstWait[dep]
           /\ \A dep \in Deps : firstWait'[dep] # firstWait[dep] =>
                 dep \in waits /\ firstWait'[dep] = ip
           /\ \A dep \in Deps \intersect signalled : firstWait[dep] = None =>
                 \/ dep \in waits /\ firstWait'[dep] = ip
                 \/ dep \notin waits /\ dep \in active'
                 \/ \E wr \in waits : IsWrite(wr) /\ ReadDep(wr) = dep
           /\ \A dep \in active' : dep \in signalled
           /\ \A dep \in active' \intersect Deps : firstWait'[dep] = firstWait[dep]
<1>1. MaxInstrs \in Nat
  BY BoundsAssumption
<1>2. /\ firstWait' = [dep \in Deps |-> IF dep \in Kept(signalled, waits) THEN ip ELSE firstWait[dep]]
      /\ active' = Unread(signalled, waits) \ Kept(signalled, waits)
  BY DEF AddWaits
<1>3. \A dep : dep \in Kept(signalled, waits) <=>
         dep \in waits /\ firstWait[dep] = None /\ dep \in Unread(signalled, waits)
  BY DEF Kept
<1>4. \A dep : dep \in Unread(signalled, waits) <=>
         dep \in signalled /\ ~(\E wr \in waits : IsWrite(wr) /\ ReadDep(wr) = dep)
  BY DEF Unread, Writes
<1>5. firstWait' \in [Deps -> 0 .. MaxInstrs]
  BY <1>1, <1>2
<1>6. ASSUME NEW dep \in Deps \intersect signalled, firstWait[dep] = None
      PROVE  \/ dep \in waits /\ firstWait'[dep] = ip
             \/ dep \notin waits /\ dep \in active'
             \/ \E wr \in waits : IsWrite(wr) /\ ReadDep(wr) = dep
  BY <1>2, <1>3, <1>4, <1>6
<1>7. /\ \A dep \in active' : dep \in signalled
      /\ \A dep \in active' \intersect Deps : firstWait'[dep] = firstWait[dep]
  BY <1>2, <1>4
<1>8. \A dep \in Deps : firstWait[dep] # None => firstWait'[dep] = firstWait[dep]
  BY <1>2, <1>3
<1>9. \A dep \in Deps : firstWait'[dep] # firstWait[dep] => dep \in waits /\ firstWait'[dep] = ip
  BY <1>2, <1>3
<1> QED BY <1>5, <1>6, <1>7, <1>8, <1>9

(* What a step of the walk does, whatever kind of instruction it is at.    *)
Walk(ip, signalled, waits) ==
    /\ ip = analysed + 1 /\ analysed' = ip /\ ip \in 1 .. MaxInstrs
    /\ program' = program
    /\ AddWaits(ip, signalled, waits)
    /\ \A dep : dep \in signalled <=>
          dep \in active \/ (OpNeedsScoreboard(program[ip]) /\ dep \in Signals(program[ip], ip))
    /\ \A dep \in waits : Signalling(dep)
    /\ \A r \in Registers : \A dep \in uses'[r] :
          dep \in uses[r] \/ (OpNeedsScoreboard(program[ip]) /\ dep \in Signals(program[ip], ip))
    /\ \A r \in Registers : \A dep \in uses[r] : dep \in uses'[r] \/ dep \in waits
    /\ OpNeedsScoreboard(program[ip]) =>
          /\ \A r \in program[ip].dsts : Wr(ip) \in uses'[r]
          /\ \A r \in program[ip].srcs : Rd(ip) \in uses'[r] \/ (r \in program[ip].dsts /\ Wr(ip) \in uses'[r])
    /\ IF IsBranch(program[ip]) THEN active \subseteq waits
       ELSE /\ \A r \in Touched(program[ip]) \union program[ip].dsts :
                  \A dep \in uses[r] : IsWrite(dep) => dep \in waits
            /\ \A r \in program[ip].dsts : \A dep \in uses[r] : dep \in waits

LEMMA TypedCode ==
    ASSUME CodeOk, NEW i \in 1 .. Len(program)
    PROVE  /\ program[i].srcs \subseteq Registers /\ program[i].dsts \subseteq Registers
           /\ program[i].pred \subseteq Registers /\ program[i] \in InstructionSet
<1>1. program[i] \in InstructionSet
  BY DEF CodeOk
<1> QED BY <1>1 DEF InstructionSet

LEMMA SignalsAre ==
    ASSUME NEW instr, NEW i \in Int, NEW dep \in Signals(instr, i)
    PROVE  \/ dep = Rd(i) /\ instr.srcs # {}
           \/ dep = Wr(i) /\ instr.dsts # {}
BY DEF Signals

LEMMA WalkKeepsAnalysis ==
    ASSUME CodeOk, AnalysisOk, Len(program) = MaxInstrs, scheduled = MaxInstrs, scheduled' = scheduled,
           NEW ip, NEW signalled, NEW waits, Walk(ip, signalled, waits)
    PROVE  AnalysisOk'
<1> DEFINE instr == program[ip]
<1>1. /\ MaxInstrs \in Nat /\ analysed \in Nat /\ ip = analysed + 1 /\ ip \in 1 .. MaxInstrs
      /\ analysed' = ip /\ program' = program
  BY BoundsAssumption DEF Walk, AnalysisOk
<1>2. /\ firstWait' \in [Deps -> 0 .. MaxInstrs]
      /\ \A dep \in Deps : firstWait[dep] # None => firstWait'[dep] = firstWait[dep]
      /\ \A dep \in Deps : firstWait'[dep] # firstWait[dep] =>
            dep \in waits /\ firstWait'[dep] = ip
      /\ \A dep \in Deps \intersect signalled : firstWait[dep] = None =>
            \/ dep \in waits /\ firstWait'[dep] = ip
            \/ dep \notin waits /\ dep \in active'
            \/ \E wr \in waits : IsWrite(wr) /\ ReadDep(wr) = dep
      /\ \A dep \in active' : dep \in signalled
      /\ \A dep \in active' \intersect Deps : firstWait'[dep] = firstWait[dep]
  BY <1>1, AddWaitsIs DEF Walk, AnalysisOk
<1>3. /\ \A i \in Ops : i \in 1 .. analysed /\ i \in 1 .. MaxInstrs /\ OpNeedsScoreboard(program[i])
      /\ \A i \in Ops' : i \in Ops \/ (i = ip /\ OpNeedsScoreboard(instr))
      /\ \A i \in Ops : i \in Ops'
      /\ OpNeedsScoreboard(instr) => ip \in Ops'
      /\ ip \notin Ops
  BY <1>1 DEF Ops
<1>4. ASSUME NEW i \in Ops, NEW j, Written(i, j) PROVE Written(i, j)'
  BY <1>2, <1>3, <1>4, DepsAre DEF Written, None
<1>5. ASSUME NEW i \in Ops, NEW j, HasRead(i, j) PROVE HasRead(i, j)'
  <2>1. i \in 1 .. MaxInstrs /\ Rd(i) \in Deps
    BY <1>3, DepsAre
  <2>2. CASE firstWait[Rd(i)] \in i + 1 .. j
    <3>1. firstWait'[Rd(i)] = firstWait[Rd(i)]
      BY <1>1, <1>2, <2>1, <2>2 DEF None
    <3> QED BY <2>2, <3>1 DEF HasRead
  <2>3. CASE program[i].dsts # {} /\ Written(i, j)
    BY <1>1, <1>4, <2>3 DEF HasRead
  <2> QED BY <1>5, <2>2, <2>3 DEF HasRead
<1>6. ASSUME NEW i \in Ops, Written(i, analysed) PROVE Written(i, ip)'
  BY <1>1, <1>3, <1>4, <1>6 DEF Written
<1>7. ASSUME NEW i \in Ops, HasRead(i, analysed) PROVE HasRead(i, ip)'
  BY <1>1, <1>3, <1>5, <1>7 DEF HasRead, Written
<1>8. ASSUME NEW dep \in waits
      PROVE  \E i \in Ops : \/ dep = Rd(i) /\ program[i].srcs # {}
                            \/ dep = Wr(i) /\ program[i].dsts # {}
  <2>1. PICK i \in Ops : dep \in Signals(program[i], i)
    BY <1>8 DEF Walk, Signalling
  <2>2. i \in Int
    BY <1>1, <1>3
  <2>3. \/ dep = Rd(i) /\ program[i].srcs # {}
        \/ dep = Wr(i) /\ program[i].dsts # {}
    BY <2>1, <2>2, SignalsAre
  <2> QED BY <2>1, <2>3
(* Whoever is waited for now is settled.                                   *)
<1>9. ASSUME NEW i \in Ops, Wr(i) \in waits
      PROVE  Written(i, ip)' /\ program[i].dsts # {}
  <2>1. i \in Int /\ Wr(i) \in Deps /\ IsWrite(Wr(i))
    BY <1>1, <1>3, DepsAre
  <2>2. program[i].dsts # {}
    <3>1. PICK k \in Ops : \/ Wr(i) = Rd(k) /\ program[k].srcs # {}
                           \/ Wr(i) = Wr(k) /\ program[k].dsts # {}
      BY <1>8, <1>9
    <3>2. k \in Int
      BY <1>1, <1>3
    <3> QED BY <2>1, <3>1, <3>2, DepsAre
  <2>3. CASE Written(i, analysed)
    BY <1>6, <2>2, <2>3
  <2>4. CASE ~Written(i, analysed)
    <3>1. Wr(i) \in active /\ firstWait[Wr(i)] = None
      BY <2>2, <2>4 DEF AnalysisOk, Outstanding
    <3>2. Wr(i) \in Deps \intersect signalled
      BY <2>1, <3>1 DEF Walk
    <3>3. ~\E wr \in waits : IsWrite(wr) /\ ReadDep(wr) = Wr(i)
      <4> SUFFICES ASSUME NEW wr \in waits, IsWrite(wr), ReadDep(wr) = Wr(i) PROVE FALSE
        OBVIOUS
      <4>1. PICK k \in Ops : wr = Rd(k) \/ wr = Wr(k)
        BY <1>8
      <4>2. k \in Int
        BY <1>1, <1>3
      <4>3. wr = Wr(k)
        BY <4>1, <4>2, DepsAre
      <4> QED BY <2>1, <4>2, <4>3, DepsAre
    <3>4. firstWait'[Wr(i)] = ip
      BY <1>2, <1>9, <3>1, <3>2, <3>3
    <3> QED BY <1>1, <1>3, <2>2, <3>4 DEF Written
  <2> QED BY <2>3, <2>4
<1>10. ASSUME NEW i \in Ops, NEW wr \in waits, IsWrite(wr), ReadDep(wr) = Rd(i)
       PROVE  HasRead(i, ip)'
  <2>1. PICK k \in Ops : wr = Rd(k) \/ wr = Wr(k)
    BY <1>8
  <2>2. k \in Int /\ i \in Int
    BY <1>1, <1>3
  <2>3. wr = Wr(k)
    BY <1>10, <2>1, <2>2, DepsAre
  <2>4. k = i
    BY <1>10, <2>2, <2>3, DepsAre
  <2>5. Written(i, ip)' /\ program[i].dsts # {}
    BY <1>9, <2>3, <2>4
  <2> QED BY <1>1, <2>5 DEF HasRead
<1>11. ASSUME NEW i \in Ops, Rd(i) \in waits
       PROVE  HasRead(i, ip)'
  <2>1. i \in Int /\ Rd(i) \in Deps
    BY <1>1, <1>3, DepsAre
  <2>2. program[i].srcs # {}
    <3>1. PICK k \in Ops : \/ Rd(i) = Rd(k) /\ program[k].srcs # {}
                           \/ Rd(i) = Wr(k) /\ program[k].dsts # {}
      BY <1>8, <1>11
    <3>2. k \in Int
      BY <1>1, <1>3
    <3> QED BY <2>1, <3>1, <3>2, DepsAre
  <2>3. CASE HasRead(i, analysed)
    BY <1>7, <2>3
  <2>4. CASE ~HasRead(i, analysed)
    <3>1. Rd(i) \in active /\ firstWait[Rd(i)] = None
      BY <2>2, <2>4 DEF AnalysisOk, Outstanding
    <3>2. Rd(i) \in Deps \intersect signalled
      BY <2>1, <3>1 DEF Walk
    <3>3. \/ firstWait'[Rd(i)] = ip
          \/ \E wr \in waits : IsWrite(wr) /\ ReadDep(wr) = Rd(i)
      BY <1>2, <1>11, <3>1, <3>2
    <3>4. CASE firstWait'[Rd(i)] = ip
      BY <1>1, <1>3, <3>4 DEF HasRead
    <3> QED BY <1>10, <3>3, <3>4
  <2> QED BY <2>3, <2>4
<1>12. ASSUME NEW i \in Ops PROVE Outstanding(i)'
  <2>1. i \in Int /\ Rd(i) \in Deps /\ Wr(i) \in Deps
    BY <1>1, <1>3, DepsAre
  <2>2. ASSUME program[i].dsts # {} PROVE Wr(i) \in active' \/ Written(i, ip)'
    <3>1. CASE Written(i, analysed)
      BY <1>6, <3>1
    <3>2. CASE Wr(i) \in active
      <4>1. Wr(i) \in Deps \intersect signalled /\ firstWait[Wr(i)] = None
        BY <2>1, <3>2 DEF Walk, AnalysisOk
      <4>2. \A wr \in waits : ~(IsWrite(wr) /\ ReadDep(wr) = Wr(i))
        <5> SUFFICES ASSUME NEW wr \in waits, IsWrite(wr), ReadDep(wr) = Wr(i) PROVE FALSE
          OBVIOUS
        <5>1. PICK k \in Ops : wr = Rd(k) \/ wr = Wr(k)
          BY <1>8
        <5>2. k \in Int
          BY <1>1, <1>3
        <5>3. wr = Wr(k)
          BY <5>1, <5>2, DepsAre
        <5> QED BY <2>1, <5>2, <5>3, DepsAre
      <4> QED BY <1>2, <1>9, <4>1, <4>2
    <3> QED BY <2>2, <3>1, <3>2 DEF AnalysisOk, Outstanding
  <2>3. ASSUME program[i].srcs # {} PROVE Rd(i) \in active' \/ HasRead(i, ip)'
    <3>1. CASE HasRead(i, analysed)
      BY <1>7, <3>1
    <3>2. CASE Rd(i) \in active
      <4>1. Rd(i) \in Deps \intersect signalled /\ firstWait[Rd(i)] = None
        BY <2>1, <3>2 DEF Walk, AnalysisOk
      <4> QED BY <1>2, <1>10, <1>11, <4>1
    <3> QED BY <2>3, <3>1, <3>2 DEF AnalysisOk, Outstanding
  <2> QED BY <1>1, <2>2, <2>3 DEF Outstanding
(* Nobody waits for the instruction the walk is at.                        *)
<1>13. /\ Rd(ip) \notin waits /\ Wr(ip) \notin waits
       /\ \A wr \in waits : ~(IsWrite(wr) /\ ReadDep(wr) \in {Rd(ip), Wr(ip)})
       /\ firstWait[Rd(ip)] = None /\ firstWait[Wr(ip)] = None
       /\ Rd(ip) \in Deps /\ Wr(ip) \in Deps
  <2>1. ASSUME NEW dep \in waits, dep = Rd(ip) \/ dep = Wr(ip) PROVE FALSE
    <3>1. PICK k \in Ops : dep = Rd(k) \/ dep = Wr(k)
      BY <1>8
    <3>2. k \in Int /\ k # ip /\ ip \in Int
      BY <1>1, <1>3
    <3> QED BY <2>1, <3>1, <3>2, DepsAre
  <2>2. ASSUME NEW wr \in waits, IsWrite(wr), ReadDep(wr) \in {Rd(ip), Wr(ip)} PROVE FALSE
    <3>1. PICK k \in Ops : wr = Rd(k) \/ wr = Wr(k)
      BY <1>8
    <3>2. k \in Int /\ k # ip /\ ip \in Int
      BY <1>1, <1>3
    <3>3. wr = Wr(k) /\ ReadDep(wr) = Rd(k)
      BY <2>2, <3>1, <3>2, DepsAre
    <3> QED BY <2>2, <3>2, <3>3, DepsAre
  <2>3. firstWait[Rd(ip)] = None /\ firstWait[Wr(ip)] = None
    BY <1>1, <1>3 DEF AnalysisOk, WaitsAreReal
  <2>4. Rd(ip) \in Deps /\ Wr(ip) \in Deps
    BY <1>1, DepsAre
  <2> QED BY <2>1, <2>2, <2>3, <2>4
<1>14. ASSUME OpNeedsScoreboard(instr) PROVE Outstanding(ip)'
  <2>1. ASSUME NEW dep \in Signals(instr, ip), dep \in {Rd(ip), Wr(ip)} PROVE dep \in active'
    <3>1. dep \in Deps \intersect signalled /\ firstWait[dep] = None /\ dep \notin waits
      BY <1>13, <1>14, <2>1 DEF Walk
    <3> QED BY <1>2, <1>13, <2>1, <3>1
  <2>2. /\ instr.dsts # {} => Wr(ip) \in Signals(instr, ip)
        /\ instr.srcs # {} => Rd(ip) \in Signals(instr, ip)
    BY DEF Signals
  <2> QED BY <1>1, <2>1, <2>2 DEF Outstanding
<1>15. ASSUME NEW i \in Ops PROVE Tracked(i)'
  <2>0. program[i].srcs \subseteq Registers /\ program[i].dsts \subseteq Registers
    BY <1>1, <1>3, TypedCode
  <2>1. ASSUME NEW r \in Registers, Wr(i) \in uses[r] PROVE Wr(i) \in uses'[r] \/ Written(i, ip)'
    BY <1>9, <2>1 DEF Walk
  <2>2. ASSUME NEW r \in program[i].dsts PROVE Wr(i) \in uses'[r] \/ Written(i, ip)'
    BY <1>6, <2>0, <2>1, <2>2 DEF AnalysisOk, Tracked
  <2>3. ASSUME NEW r \in program[i].srcs
        PROVE  \/ Rd(i) \in uses'[r]
               \/ r \in program[i].dsts /\ Wr(i) \in uses'[r]
               \/ HasRead(i, ip)'
    <3>1. CASE Rd(i) \in uses[r]
      BY <1>11, <2>0, <2>3, <3>1 DEF Walk
    <3>2. CASE r \in program[i].dsts /\ Wr(i) \in uses[r]
      <4>1. Written(i, ip)' => HasRead(i, ip)'
        BY <1>1, <3>2 DEF HasRead
      <4> QED BY <2>0, <2>1, <2>3, <3>2, <4>1
    <3>3. CASE HasRead(i, analysed)
      BY <1>7, <3>3
    <3> QED BY <2>3, <3>1, <3>2, <3>3 DEF AnalysisOk, Tracked
  <2> QED BY <1>1, <2>2, <2>3 DEF Tracked
<1>16. ASSUME OpNeedsScoreboard(instr) PROVE Tracked(ip)'
  BY <1>1, <1>16 DEF Walk, Tracked
<1>17. ASSUME NEW dep, Signalling(dep) PROVE Signalling(dep)'
  BY <1>1, <1>3, <1>17 DEF Signalling
<1>18. ASSUME NEW dep, OpNeedsScoreboard(instr), dep \in Signals(instr, ip) PROVE Signalling(dep)'
  BY <1>1, <1>3, <1>18 DEF Signalling
<1>19. \A r \in Registers : \A dep \in uses'[r] : Signalling(dep)'
  BY <1>17, <1>18 DEF Walk, AnalysisOk
<1>20. ASSUME NEW dep \in active' PROVE Signalling(dep)' /\ firstWait'[dep] = None
  <2>1. \/ dep \in active
        \/ OpNeedsScoreboard(instr) /\ dep \in Signals(instr, ip)
    BY <1>2, <1>20 DEF Walk
  <2>2. Signalling(dep)'
    BY <1>17, <1>18, <2>1 DEF AnalysisOk
  <2>3. firstWait[dep] = None /\ dep \in Deps
    <3>1. CASE dep \in active
      <4>1. firstWait[dep] = None /\ Signalling(dep)
        BY <3>1 DEF AnalysisOk
      <4>2. PICK i \in Ops : dep \in Signals(program[i], i)
        BY <4>1 DEF Signalling
      <4>3. dep = Rd(i) \/ dep = Wr(i)
        BY <1>1, <1>3, <4>2, SignalsAre
      <4> QED BY <1>3, <4>1, <4>3, DepsAre
    <3>2. CASE OpNeedsScoreboard(instr) /\ dep \in Signals(instr, ip)
      <4>1. dep = Rd(ip) \/ dep = Wr(ip)
        BY <1>1, <3>2, SignalsAre
      <4> QED BY <1>13, <4>1
    <3> QED BY <2>1, <3>1, <3>2
  <2> QED BY <1>2, <1>20, <2>2, <2>3
<1>21. WaitsAreReal'
  <2> SUFFICES ASSUME NEW i \in 1 .. MaxInstrs, NEW dep \in {Rd(i), Wr(i)}, firstWait'[dep] # None
               PROVE  /\ i \in Ops' /\ dep \in Signals(program[i], i)
                      /\ firstWait'[dep] \in i + 1 .. ip
    BY <1>1 DEF WaitsAreReal
  <2>1. dep \in Deps /\ i \in Int
    BY DepsAre
  <2>2. CASE firstWait[dep] # None
    <3>1. i \in Ops /\ dep \in Signals(program[i], i) /\ firstWait[dep] \in i + 1 .. analysed
      BY <2>2 DEF AnalysisOk, WaitsAreReal
    <3>2. firstWait'[dep] = firstWait[dep]
      BY <1>2, <2>1, <2>2
    <3> QED BY <1>1, <1>3, <3>1, <3>2
  <2>3. CASE firstWait[dep] = None
    <3>1. dep \in waits /\ firstWait'[dep] = ip
      BY <1>2, <2>1, <2>3
    <3>2. PICK k \in Ops : dep \in Signals(program[k], k)
      BY <3>1 DEF Walk, Signalling
    <3>3. k \in Int /\ (dep = Rd(k) \/ dep = Wr(k))
      BY <1>1, <1>3, <3>2, SignalsAre
    <3>4. k = i
      BY <2>1, <3>3, DepsAre
    <3>5. ip \in i + 1 .. ip
      BY <1>1, <1>3, <3>2, <3>4
    <3> QED BY <1>3, <3>1, <3>2, <3>4, <3>5
  <2> QED BY <2>2, <2>3
<1>22. ASSUME NEW i \in Ops, NEW j \in i + 1 .. analysed PROVE InTime(i, j)'
  <2>1. InTime(i, j)
    BY <1>22 DEF AnalysisOk
  <2> QED BY <1>1, <1>4, <1>5, <2>1 DEF InTime
<1>23. ASSUME NEW i \in Ops PROVE InTime(i, ip)'
  <2>0. /\ program[i].srcs \subseteq Registers /\ program[i].dsts \subseteq Registers
        /\ i \in Int /\ IsWrite(Wr(i))
    BY <1>1, <1>3, TypedCode, DepsAre
  <2>1. CASE IsBranch(instr)
    <3>1. ASSUME program[i].dsts # {} PROVE Written(i, ip)'
      <4>1. CASE Written(i, analysed)
        BY <1>6, <4>1
      <4>2. CASE Wr(i) \in active
        BY <1>9, <2>1, <4>2 DEF Walk
      <4> QED BY <3>1, <4>1, <4>2 DEF AnalysisOk, Outstanding
    <3>2. ASSUME program[i].srcs # {} PROVE HasRead(i, ip)'
      <4>1. CASE HasRead(i, analysed)
        BY <1>7, <4>1
      <4>2. CASE Rd(i) \in active
        BY <1>11, <2>1, <4>2 DEF Walk
      <4> QED BY <3>2, <4>1, <4>2 DEF AnalysisOk, Outstanding
    <3>3. /\ program[i].dsts \intersect (Touched(instr) \union instr.dsts) # {} => program[i].dsts # {}
          /\ program[i].srcs \intersect instr.dsts # {} => program[i].srcs # {}
      OBVIOUS
    <3> QED BY <1>1, <3>1, <3>2, <3>3 DEF InTime
  <2>2. CASE ~IsBranch(instr)
    <3>1. ASSUME NEW r \in program[i].dsts, r \in Touched(instr) \union instr.dsts PROVE Written(i, ip)'
      <4>1. CASE Written(i, analysed)
        BY <1>6, <4>1
      <4>2. CASE Wr(i) \in uses[r]
        <5>1. Wr(i) \in waits
          BY <2>0, <2>2, <3>1, <4>2 DEF Walk
        <5> QED BY <1>9, <5>1
      <4> QED BY <3>1, <4>1, <4>2 DEF AnalysisOk, Tracked
    <3>2. ASSUME NEW r \in program[i].srcs, r \in instr.dsts PROVE HasRead(i, ip)'
      <4>1. CASE HasRead(i, analysed)
        BY <1>7, <4>1
      <4>2. CASE Rd(i) \in uses[r]
        <5>1. Rd(i) \in waits
          BY <2>2, <3>2, <4>2 DEF Walk
        <5> QED BY <1>11, <5>1
      <4>3. CASE r \in program[i].dsts /\ Wr(i) \in uses[r]
        <5>1. Wr(i) \in waits
          BY <2>0, <2>2, <3>2, <4>3 DEF Walk
        <5>2. Written(i, ip)'
          BY <1>9, <5>1
        <5> QED BY <1>1, <4>3, <5>2 DEF HasRead
      <4> QED BY <3>2, <4>1, <4>2, <4>3 DEF AnalysisOk, Tracked
    <3> QED BY <1>1, <2>2, <3>1, <3>2 DEF InTime
  <2> QED BY <2>1, <2>2
<1>24. ASSUME NEW i \in Ops', NEW j \in i + 1 .. ip PROVE InTime(i, j)'
  <2>1. CASE i \in Ops
    <3>1. j = ip \/ j \in i + 1 .. analysed
      BY <1>1, <1>3, <1>24, <2>1
    <3> QED BY <1>22, <1>23, <2>1, <3>1
  <2>2. CASE i = ip
    BY <1>1, <1>24, <2>2
  <2> QED BY <1>3, <2>1, <2>2
<1>25. ASSUME NEW i \in Ops' PROVE Outstanding(i)' /\ Tracked(i)'
  BY <1>3, <1>12, <1>14, <1>15, <1>16
<1>26. /\ analysed' \in 0 .. MaxInstrs
       /\ analysed' > 0 => scheduled' = MaxInstrs
  BY <1>1
<1> QED BY <1>1, <1>2, <1>19, <1>20, <1>21, <1>24, <1>25, <1>26 DEF AnalysisOk

LEMMA CandidatesAre ==
    ASSUME CodeOk, AnalysisOk, NEW i \in 1 .. Len(program)
    PROVE  /\ \A dep \in Candidates(program[i]) : Signalling(dep)
           /\ \A r \in Touched(program[i]) \union program[i].dsts :
                 \A dep \in uses[r] : IsWrite(dep) => dep \in Candidates(program[i])
           /\ \A r \in program[i].dsts : uses[r] \subseteq Candidates(program[i])
<1> DEFINE instr == program[i]
<1>1. /\ instr.srcs \subseteq Registers /\ instr.dsts \subseteq Registers
      /\ instr.pred \subseteq Registers
  BY TypedCode
<1>2. Touched(instr) \subseteq Registers
  BY <1>1 DEF Touched
<1>3. \A dep : dep \in Candidates(instr) <=>
         \/ \E r \in Touched(instr) : dep \in uses[r] /\ IsWrite(dep)
         \/ \E r \in instr.dsts : dep \in uses[r]
  <2> DEFINE consumed == UNION {Writes(uses[r]) : r \in Touched(instr)}
             replaced == UNION {uses[r] : r \in instr.dsts}
  <2>1. Candidates(instr) = consumed \union replaced
    BY DEF Candidates
  <2>2. \A dep : dep \in consumed <=> \E r \in Touched(instr) : dep \in Writes(uses[r])
    OBVIOUS
  <2>3. \A dep : dep \in replaced <=> \E r \in instr.dsts : dep \in uses[r]
    OBVIOUS
  <2>4. \A r, dep : dep \in Writes(uses[r]) <=> dep \in uses[r] /\ IsWrite(dep)
    BY DEF Writes
  <2> HIDE DEF consumed, replaced, instr
  <2> QED BY <2>1, <2>2, <2>3, <2>4
<1>4. \A dep \in Candidates(instr) : Signalling(dep)
  BY <1>1, <1>2, <1>3 DEF AnalysisOk
<1> QED BY <1>3, <1>4

LEMMA AnalyseWalks ==
    ASSUME CodeOk, AnalysisOk, Analyse
    PROVE  \E ip, signalled, waits : Walk(ip, signalled, waits)
<1> DEFINE ip == analysed + 1
           instr == program[ip]
<1>1. /\ MaxInstrs \in Nat /\ analysed \in Nat /\ ip \in 1 .. MaxInstrs /\ analysed' = ip
      /\ program' = program /\ scheduled = MaxInstrs /\ Len(program) = MaxInstrs
  BY BoundsAssumption DEF Analyse, AnalysisOk, CodeOk
<1>2. \/ AnalyseBranch(instr, ip)
      \/ AnalyseScoreboard(instr, ip)
      \/ AnalyseFixed(instr, ip)
  BY <1>1 DEF Analyse
<1>3. /\ \A dep \in Candidates(instr) : Signalling(dep)
      /\ \A r \in Touched(instr) \union instr.dsts :
            \A dep \in uses[r] : IsWrite(dep) => dep \in Candidates(instr)
      /\ \A r \in instr.dsts : uses[r] \subseteq Candidates(instr)
  BY <1>1, CandidatesAre
<1>4. \A dep \in active : Signalling(dep)
  BY DEF AnalysisOk
<1>5. \A r \in Registers : \A dep \in uses[r] : dep \in ClearWrite(uses[r]) \/ IsWrite(dep)
  BY DEF ClearWrite, Writes
<1>6. \A r \in Registers : ClearWrite(uses[r]) \subseteq uses[r]
  BY DEF ClearWrite
<1> HIDE DEF ip, instr
<1>7. CASE AnalyseBranch(instr, ip)
  <2>1. /\ IsBranch(instr) /\ AddWaits(ip, active, active) /\ uses' = uses
    BY <1>7 DEF AnalyseBranch
  <2>2. ~OpNeedsScoreboard(instr)
    BY <2>1 DEF IsBranch, Branches, OpNeedsScoreboard, Scoreboarded, Memory
  <2>3. Walk(ip, active, active)
    BY <1>1, <1>4, <2>1, <2>2 DEF Walk, ip, instr
  <2> QED BY <2>3
<1>8. CASE AnalyseScoreboard(instr, ip)
  <2>1. /\ OpNeedsScoreboard(instr) /\ uses' = [r \in Registers |-> ScoreboardUse(instr, ip, r)]
        /\ AddWaits(ip, active \union Signals(instr, ip), Candidates(instr))
    BY <1>8 DEF AnalyseScoreboard
  <2>2. ~IsBranch(instr)
    BY <2>1 DEF IsBranch, Branches, OpNeedsScoreboard, Scoreboarded, Memory
  <2>3. ASSUME NEW r \in Registers
        PROVE  /\ r \in instr.dsts => uses'[r] = {Wr(ip)}
               /\ r \in instr.srcs /\ r \notin instr.dsts => uses'[r] = ClearWrite(uses[r]) \union {Rd(ip)}
               /\ r \in instr.pred /\ r \notin instr.srcs /\ r \notin instr.dsts => uses'[r] = ClearWrite(uses[r])
               /\ r \notin instr.pred /\ r \notin instr.srcs /\ r \notin instr.dsts => uses'[r] = uses[r]
    <3>1. uses'[r] = ScoreboardUse(instr, ip, r)
      BY <2>1
    <3> QED BY <3>1 DEF ScoreboardUse
  <2>4. /\ \A r \in instr.dsts : Wr(ip) \in Signals(instr, ip)
        /\ \A r \in instr.srcs : Rd(ip) \in Signals(instr, ip)
    BY DEF Signals
  <2>5. instr.srcs \subseteq Registers /\ instr.dsts \subseteq Registers
    BY <1>1, TypedCode DEF instr
  <2>6. ASSUME NEW r \in Registers, NEW dep \in uses'[r]
        PROVE  dep \in uses[r] \/ dep \in Signals(instr, ip)
    BY <1>6, <2>3, <2>4, <2>6
  <2>7. ASSUME NEW r \in Registers, NEW dep \in uses[r]
        PROVE  dep \in uses'[r] \/ dep \in Candidates(instr)
    <3>1. CASE r \in instr.dsts
      BY <1>3, <2>7, <3>1
    <3>2. CASE r \notin instr.dsts /\ r \in instr.srcs \union instr.pred
      <4>1. r \in Touched(instr)
        BY <3>2 DEF Touched
      <4> QED BY <1>3, <1>5, <2>3, <2>7, <3>2, <4>1
    <3>3. CASE r \notin instr.dsts /\ r \notin instr.srcs \union instr.pred
      BY <2>3, <2>7, <3>3
    <3> QED BY <3>1, <3>2, <3>3
  <2>8. /\ \A r \in instr.dsts : Wr(ip) \in uses'[r]
        /\ \A r \in instr.srcs : Rd(ip) \in uses'[r] \/ (r \in instr.dsts /\ Wr(ip) \in uses'[r])
    BY <2>3, <2>5
  <2>9. Walk(ip, active \union Signals(instr, ip), Candidates(instr))
    BY <1>1, <1>3, <2>1, <2>2, <2>6, <2>7, <2>8 DEF Walk, ip, instr
  <2> QED BY <2>9
<1>9. CASE AnalyseFixed(instr, ip)
  <2>1. /\ ~IsBranch(instr) /\ ~OpNeedsScoreboard(instr)
        /\ uses' = [r \in Registers |-> FixedUse(instr, r)]
        /\ AddWaits(ip, active, Candidates(instr))
    BY <1>9 DEF AnalyseFixed
  <2>2. ASSUME NEW r \in Registers
        PROVE  /\ r \in instr.dsts => uses'[r] = {}
               /\ r \in Touched(instr) /\ r \notin instr.dsts => uses'[r] = ClearWrite(uses[r])
               /\ r \notin Touched(instr) /\ r \notin instr.dsts => uses'[r] = uses[r]
    <3>1. uses'[r] = FixedUse(instr, r)
      BY <2>1
    <3> QED BY <3>1 DEF FixedUse
  <2>3. ASSUME NEW r \in Registers, NEW dep \in uses'[r] PROVE dep \in uses[r]
    BY <1>6, <2>2, <2>3
  <2>4. ASSUME NEW r \in Registers, NEW dep \in uses[r]
        PROVE  dep \in uses'[r] \/ dep \in Candidates(instr)
    <3>1. CASE r \in instr.dsts
      BY <1>3, <2>4, <3>1
    <3>2. CASE r \notin instr.dsts /\ r \in Touched(instr)
      BY <1>3, <1>5, <2>2, <2>4, <3>2
    <3>3. CASE r \notin instr.dsts /\ r \notin Touched(instr)
      BY <2>2, <2>4, <3>3
    <3> QED BY <3>1, <3>2, <3>3
  <2>5. Walk(ip, active, Candidates(instr))
    BY <1>1, <1>3, <2>1, <2>3, <2>4 DEF Walk, ip, instr
  <2> QED BY <2>5
<1> QED BY <1>2, <1>7, <1>8, <1>9

LEMMA AnalysisHolds ==
    ASSUME CodeOk, AnalysisOk, [Next]_vars
    PROVE  AnalysisOk'
<1>1. CASE Analyse
  <2>1. \E ip, signalled, waits : Walk(ip, signalled, waits)
    BY <1>1, AnalyseWalks
  <2>2. scheduled = MaxInstrs /\ scheduled' = scheduled /\ Len(program) = MaxInstrs
    BY <1>1, BoundsAssumption DEF Analyse, CodeOk, AnalysisOk
  <2> QED BY <2>1, <2>2, WalkKeepsAnalysis
<1>2. CASE Write \/ StartBlock \/ ScheduleNext \/ FinishBlock
  <2>1. analysed = 0 /\ analysed' = 0 /\ uses' = uses /\ active' = active /\ firstWait' = firstWait
    <3>1. Len(program) < MaxInstrs \/ scheduled < MaxInstrs
      BY <1>2, BoundsAssumption DEF Write, StartBlock, ScheduleNext, FinishBlock, CodeOk
    <3>2. analysed = 0
      BY <3>1, BoundsAssumption DEF AnalysisOk, CodeOk
    <3> QED BY <1>2, <3>2 DEF Write, StartBlock, ScheduleNext, FinishBlock
  <2>2. Ops = {} /\ Ops' = {}
    BY <2>1 DEF Ops
  <2>3. \A r \in Registers : uses[r] = {}
    BY <2>2 DEF AnalysisOk, Signalling
  <2>4. active = {}
    BY <2>2 DEF AnalysisOk, Signalling
  <2>5. \A i \in 1 .. MaxInstrs : \A dep \in {Rd(i), Wr(i)} : firstWait[dep] = None
    BY <2>2 DEF AnalysisOk, WaitsAreReal
  <2>6. WaitsAreReal'
    BY <2>1, <2>5 DEF WaitsAreReal
  <2> QED BY <2>1, <2>2, <2>3, <2>4, <2>6 DEF AnalysisOk
<1>3. CASE UNCHANGED <<program, scheduled, analysed, uses, active, firstWait>>
  BY <1>3 DEF AnalysisOk, Ops, Signalling, WaitsAreReal, Outstanding, Tracked, InTime, Written, HasRead
<1>4. Next \/ UNCHANGED vars
  OBVIOUS
<1>5. \/ Analyse \/ Write \/ StartBlock \/ ScheduleNext \/ FinishBlock
      \/ UNCHANGED <<program, labels, scheduled, list, analysed, uses, active, firstWait>>
  BY <1>4, CalcDelaysIs
     DEF Next, Assign, IssueOff, IssueFixed, IssueScoreboard, IssueBranch,
         ReadSources, WriteDestinations, vars, passVars, assignVars
<1> QED BY <1>1, <1>2, <1>3, <1>5

-----------------------------------------------------------------------------
(* The barriers: a free one, or the one that stands for the oldest.        *)
LEMMA PickBarIs ==
    ASSUME NEW bars \in [Bars -> Nat]
    PROVE  /\ PickBar(bars) \in Bars
           /\ Free(bars) # {} => bars[PickBar(bars)] = None
           /\ Free(bars) = {} => \A other \in Bars : bars[PickBar(bars)] <= bars[other]
<1>1. Bars \subseteq Nat /\ 1 \in Bars
  BY BarsAssumption DEF Bars
<1>2. CASE Free(bars) # {}
  <2>1. Free(bars) \subseteq Nat
    BY <1>1 DEF Free
  <2>2. PICK bar \in Free(bars) : \A other \in Free(bars) : bar <= other
    BY <1>2, <2>1, LeastElement
  <2>3. bar \in Bars
    BY <2>2 DEF Free
  <2>4. PickBar(bars) \in Free(bars) /\ PickBar(bars) \in Bars
    BY <1>2, <2>2, <2>3 DEF PickBar
  <2> QED BY <1>2, <2>4 DEF Free
<1>3. CASE Free(bars) = {}
  <2> DEFINE values == {bars[bar] : bar \in Bars}
  <2>1. values \subseteq Nat /\ values # {}
    BY <1>1
  <2>2. PICK least \in values : \A other \in values : least <= other
    BY <2>1, LeastElement
  <2>3. PICK bar \in Bars : \A other \in Bars : bars[bar] <= bars[other]
    BY <2>2
  <2>4. PickBar(bars) \in Bars /\ \A other \in Bars : bars[PickBar(bars)] <= bars[other]
    BY <1>3, <2>3 DEF PickBar
  <2> QED BY <1>3, <2>4
<1> QED BY <1>2, <1>3

LEMMA AllocateIs ==
    ASSUME NEW bars \in [Bars -> Nat], NEW dep \in Nat, NEW ip
    PROVE  LET given == Allocate(bars, dep, ip) IN
           /\ given.wait \subseteq Bars
           /\ given.bars \in [Bars -> Nat]
           /\ \/ /\ ~WaitedAfter(dep, ip) /\ given.bar = None /\ given.bars = bars
              \/ /\ WaitedAfter(dep, ip) /\ given.bar \in Bars
                 /\ given.bar = PickBar(bars)
                 /\ bars[given.bar] = None \/ given.bar \in given.wait
                 /\ given.bars[given.bar] = dep
                 /\ \A bar \in Bars : bar # given.bar => given.bars[bar] = bars[bar]
<1>1. CASE ~WaitedAfter(dep, ip)
  BY <1>1 DEF Allocate
<1>2. CASE WaitedAfter(dep, ip)
  <2> DEFINE bar == PickBar(bars)
             given == Allocate(bars, dep, ip)
  <2>1. given = [bar |-> bar, wait |-> Reused(bars), bars |-> [bars EXCEPT ![bar] = dep]]
    BY <1>2 DEF Allocate
  <2>2. /\ bar \in Bars
        /\ Free(bars) # {} => bars[bar] = None
    BY PickBarIs
  <2>3. Reused(bars) \subseteq Bars /\ (bars[bar] = None \/ bar \in Reused(bars))
    BY <2>2 DEF Reused
  <2> HIDE DEF bar
  <2>4. /\ given.bar = bar /\ given.wait = Reused(bars) /\ given.bars = [bars EXCEPT ![bar] = dep]
    BY <2>1
  <2>5. /\ given.bars \in [Bars -> Nat] /\ given.bars[bar] = dep
        /\ \A other \in Bars : other # bar => given.bars[other] = bars[other]
    BY <2>2, <2>4
  <2> HIDE DEF given
  <2> QED BY <1>2, <2>2, <2>3, <2>4, <2>5 DEF bar, given
<1> QED BY <1>1, <1>2

(* What a step of the second walk does, whatever the instruction.          *)
Give(ip, deps) ==
    /\ ip = Len(sched) + 1 /\ ip \in 1 .. MaxInstrs
    /\ deps \in [wait : SUBSET Bars, rd : Bars \union {None}, wr : Bars \union {None}]
    /\ sched' = Append(sched, deps)
    /\ barDep' \in [Bars -> 0 .. 2 * ip]
    /\ \A bar \in Bars : bar \in deps.wait \/ barDep[bar] = None \/ barDep'[bar] = barDep[bar]
    /\ \A bar \in {deps.rd, deps.wr} \ {None} : bar \in deps.wait \/ barDep[bar] = None
    /\ \A bar \in Bars : barDep[bar] \in Deps /\ firstWait[barDep[bar]] = ip => bar \in deps.wait
    /\ deps.rd = None <=> ~WaitedAfter(Rd(ip), ip)
    /\ deps.wr = None <=> ~WaitedAfter(Wr(ip), ip)
    /\ deps.rd # None => deps.rd # deps.wr /\ barDep'[deps.rd] = Rd(ip)
    /\ deps.wr # None => barDep'[deps.wr] = Wr(ip)

LEMMA AssignGives ==
    ASSUME CodeOk, AnalysisOk, BarsOk, Assign
    PROVE  \E ip, deps : Give(ip, deps)
<1> DEFINE ip == Len(sched) + 1
           waited == AfterWaits(ip)
<1>1. /\ MaxInstrs \in Nat /\ Len(sched) \in Nat /\ ip \in 1 .. MaxInstrs /\ analysed = MaxInstrs
      /\ barDep \in [Bars -> 0 .. 2 * Len(sched)]
  BY BoundsAssumption DEF Assign, BarsOk
<1>2. /\ waited \in [Bars -> 0 .. 2 * Len(sched)]
      /\ \A bar \in Bars : bar \in Freed(ip) \/ waited[bar] = barDep[bar]
      /\ Freed(ip) \subseteq Bars
  BY <1>1 DEF AfterWaits, Freed, None
<1>3. \A bar \in Bars : barDep[bar] \in Deps /\ firstWait[barDep[bar]] = ip => bar \in Freed(ip)
  BY DEF Freed, InstrWaits
<1>4. /\ Rd(ip) \in Nat /\ Wr(ip) \in Nat /\ Rd(ip) <= 2 * ip /\ Wr(ip) <= 2 * ip
      /\ 2 * Len(sched) < Rd(ip) /\ 2 * Len(sched) <= 2 * ip /\ Rd(ip) # None /\ Wr(ip) # None
  BY <1>1 DEF Rd, Wr, None
<1> HIDE DEF waited
<1>5. CASE AssignScoreboard(ip)
  <2> DEFINE rd == Allocate(waited, Rd(ip), ip)
             wr == Allocate(rd.bars, Wr(ip), ip)
             deps == [wait |-> Freed(ip) \union rd.wait \union wr.wait, rd |-> rd.bar, wr |-> wr.bar]
  <2>1. barDep' = wr.bars /\ sched' = Append(sched, deps)
    BY <1>5 DEF AssignScoreboard, waited
  <2>2. /\ rd.wait \subseteq Bars
        /\ rd.bars \in [Bars -> Nat]
        /\ \/ /\ ~WaitedAfter(Rd(ip), ip) /\ rd.bar = None /\ rd.bars = waited
           \/ /\ WaitedAfter(Rd(ip), ip) /\ rd.bar \in Bars
              /\ waited[rd.bar] = None \/ rd.bar \in rd.wait
              /\ rd.bars[rd.bar] = Rd(ip)
              /\ \A bar \in Bars : bar # rd.bar => rd.bars[bar] = waited[bar]
    <3>1. waited \in [Bars -> Nat]
      BY <1>2
    <3> QED BY <1>4, <3>1, AllocateIs
  <2>3. /\ wr.wait \subseteq Bars
        /\ wr.bars \in [Bars -> Nat]
        /\ \/ /\ ~WaitedAfter(Wr(ip), ip) /\ wr.bar = None /\ wr.bars = rd.bars
           \/ /\ WaitedAfter(Wr(ip), ip) /\ wr.bar \in Bars
              /\ wr.bar = PickBar(rd.bars)
              /\ rd.bars[wr.bar] = None \/ wr.bar \in wr.wait
              /\ wr.bars[wr.bar] = Wr(ip)
              /\ \A bar \in Bars : bar # wr.bar => wr.bars[bar] = rd.bars[bar]
    BY <1>4, <2>2, AllocateIs
  <2>4. deps.wait = Freed(ip) \union rd.wait \union wr.wait /\ deps.rd = rd.bar /\ deps.wr = wr.bar
    OBVIOUS
  <2>5. deps \in [wait : SUBSET Bars, rd : Bars \union {None}, wr : Bars \union {None}]
    BY <1>2, <2>2, <2>3
  <2> HIDE DEF rd, wr, deps
  (* The barrier just given is the newest: another is taken.               *)
  <2>6. ASSUME rd.bar # None, wr.bar # None PROVE rd.bar # wr.bar
    <3>1. /\ rd.bar \in Bars /\ rd.bars[rd.bar] = Rd(ip) /\ wr.bar = PickBar(rd.bars)
          /\ \A bar \in Bars : bar # rd.bar => rd.bars[bar] = waited[bar]
      BY <2>2, <2>3, <2>6
    <3>2. /\ Free(rd.bars) # {} => rd.bars[PickBar(rd.bars)] = None
          /\ Free(rd.bars) = {} => \A other \in Bars : rd.bars[PickBar(rd.bars)] <= rd.bars[other]
      BY <2>2, PickBarIs
    <3>3. PICK other \in Bars : other # rd.bar
      BY BarsAssumption DEF Bars
    <3>4. rd.bars[other] < Rd(ip) /\ rd.bars[other] \in Nat
      BY <1>1, <1>2, <1>4, <3>1, <3>3
    <3> QED BY <1>4, <3>1, <3>2, <3>4
  <2>7. ASSUME NEW bar \in Bars, barDep[bar] # None
        PROVE  bar \in deps.wait \/ barDep'[bar] = barDep[bar]
    <3>1. CASE bar \in Freed(ip)
      BY <2>4, <3>1
    <3>2. CASE bar \notin Freed(ip)
      <4>1. waited[bar] = barDep[bar]
        BY <1>2, <3>2
      <4>2. bar \in rd.wait \/ rd.bars[bar] = barDep[bar]
        BY <2>2, <2>7, <4>1
      <4>3. bar \in rd.wait \/ bar \in wr.wait \/ wr.bars[bar] = barDep[bar]
        BY <2>3, <2>7, <4>2
      <4> QED BY <2>1, <2>4, <4>3
    <3> QED BY <3>1, <3>2
  <2>8. ASSUME NEW bar \in {deps.rd, deps.wr} \ {None}
        PROVE  bar \in deps.wait \/ barDep[bar] = None
    <3>1. bar \in Bars
      BY <2>2, <2>3, <2>4, <2>8
    <3>2. CASE bar = deps.rd
      <4>1. waited[bar] = None \/ bar \in rd.wait
        BY <2>2, <2>4, <2>8, <3>2
      <4> QED BY <1>2, <2>4, <3>1, <4>1
    <3>3. CASE bar = deps.wr /\ bar # deps.rd
      <4>1. rd.bars[bar] = None \/ bar \in wr.wait
        BY <2>3, <2>4, <2>8, <3>3
      <4>2. rd.bars[bar] = waited[bar]
        BY <2>2, <2>4, <3>1, <3>3
      <4> QED BY <1>2, <2>4, <3>1, <4>1, <4>2
    <3> QED BY <2>8, <3>2, <3>3
  <2>9. barDep' \in [Bars -> 0 .. 2 * ip]
    <3>1. ASSUME NEW bar \in Bars PROVE rd.bars[bar] \in 0 .. 2 * ip
      <4>1. rd.bars[bar] = Rd(ip) \/ rd.bars[bar] = waited[bar]
        BY <2>2
      <4> QED BY <1>1, <1>2, <1>4, <4>1
    <3>2. ASSUME NEW bar \in Bars PROVE wr.bars[bar] \in 0 .. 2 * ip
      <4>1. wr.bars[bar] = Wr(ip) \/ wr.bars[bar] = rd.bars[bar]
        BY <2>3
      <4> QED BY <1>1, <1>4, <3>1, <4>1
    <3> QED BY <2>1, <2>3, <3>2
  <2>10. /\ deps.rd = None <=> ~WaitedAfter(Rd(ip), ip)
         /\ deps.wr = None <=> ~WaitedAfter(Wr(ip), ip)
    BY <2>2, <2>3, <2>4, BarsAssumption DEF Bars, None
  <2>11. /\ deps.rd # None => deps.rd # deps.wr /\ barDep'[deps.rd] = Rd(ip)
         /\ deps.wr # None => barDep'[deps.wr] = Wr(ip)
    <3>1. ASSUME deps.rd # None PROVE deps.rd # deps.wr
      BY <2>4, <2>6, <3>1
    <3>2. ASSUME deps.rd # None PROVE barDep'[deps.rd] = Rd(ip)
      BY <2>1, <2>2, <2>3, <2>4, <3>1, <3>2
    <3>3. ASSUME deps.wr # None PROVE barDep'[deps.wr] = Wr(ip)
      BY <2>1, <2>3, <2>4, <3>3
    <3> QED BY <3>1, <3>2, <3>3
  <2>12. \A bar \in Bars : barDep[bar] \in Deps /\ firstWait[barDep[bar]] = ip => bar \in deps.wait
    BY <1>3, <2>4
  <2>13. Give(ip, deps)
    BY <1>1, <2>1, <2>5, <2>7, <2>8, <2>9, <2>10, <2>11, <2>12 DEF Give
  <2> QED BY <2>13
<1>6. CASE AssignOther(ip)
  <2> DEFINE deps == [wait |-> Freed(ip), rd |-> None, wr |-> None]
  <2>1. barDep' = waited /\ sched' = Append(sched, deps) /\ ~OpNeedsScoreboard(program[ip])
    BY <1>6 DEF AssignOther, waited
  <2>2. deps.wait = Freed(ip) /\ deps.rd = None /\ deps.wr = None
    OBVIOUS
  <2>3. deps \in [wait : SUBSET Bars, rd : Bars \union {None}, wr : Bars \union {None}]
    BY <1>2
  <2> HIDE DEF deps
  <2>4. ~WaitedAfter(Rd(ip), ip) /\ ~WaitedAfter(Wr(ip), ip)
    <3>1. firstWait[Rd(ip)] = None /\ firstWait[Wr(ip)] = None
      BY <1>1, <2>1 DEF AnalysisOk, WaitsAreReal, Ops
    <3> QED BY <1>1, <3>1 DEF WaitedAfter, None
  <2>5. barDep' \in [Bars -> 0 .. 2 * ip]
    BY <1>1, <1>2, <1>4, <2>1
  <2>6. \A bar \in Bars : bar \in deps.wait \/ barDep'[bar] = barDep[bar]
    BY <1>2, <2>1, <2>2
  <2>7. Give(ip, deps)
    BY <1>1, <1>3, <2>1, <2>2, <2>3, <2>4, <2>5, <2>6 DEF Give
  <2> QED BY <2>7
<1> QED BY <1>5, <1>6 DEF Assign


LEMMA GiveKeepsBars ==
    ASSUME CodeOk, AnalysisOk, BarsOk, analysed = MaxInstrs, analysed' = analysed,
           firstWait' = firstWait, NEW ip, NEW deps, Give(ip, deps)
    PROVE  BarsOk'
<1> DEFINE n == Len(sched)
           Given == [wait : SUBSET Bars, rd : Bars \union {None}, wr : Bars \union {None}]
<1>1. /\ MaxInstrs \in Nat /\ n \in Nat /\ ip = n + 1 /\ ip \in 1 .. MaxInstrs
      /\ sched \in Seq(Given) /\ deps \in Given
      /\ barDep \in [Bars -> 0 .. 2 * n] /\ barDep' \in [Bars -> 0 .. 2 * ip]
      /\ firstWait \in [Deps -> 0 .. MaxInstrs]
  BY BoundsAssumption DEF BarsOk, Give, AnalysisOk
<1>2. /\ sched' \in Seq(Given) /\ Len(sched') = ip
      /\ \A k \in 1 .. n : sched'[k] = sched[k]
      /\ sched'[ip] = deps
  <2> HIDE DEF Given
  <2>1. sched' = Append(sched, deps)
    BY DEF Give
  <2> QED BY <1>1, <2>1
<1>3. ASSUME NEW i \in 1 .. n
      PROVE  /\ i \in 1 .. MaxInstrs /\ i < ip /\ sched[i] \in Given
             /\ Rd(i) \in Deps /\ Wr(i) \in Deps
             /\ Rd(i) # None /\ Wr(i) # None
  <2>1. i \in 1 .. MaxInstrs /\ i < ip /\ sched[i] \in Given
    <3> HIDE DEF Given
    <3> QED BY <1>1
  <2>2. Rd(i) \in Deps /\ Wr(i) \in Deps
    BY <2>1, DepsAre
  <2>3. Rd(i) # None /\ Wr(i) # None
    BY <2>2, BoundsAssumption DEF Deps, None
  <2> QED BY <2>1, <2>2, <2>3
<1> HIDE DEF n, Given
<1>4. ASSUME NEW i \in 1 .. n, NEW j \in 1 .. n, NEW bar, WaitedFor(bar, i, j)
      PROVE  WaitedFor(bar, i, j)'
  <2>1. PICK k \in i + 1 .. j : bar \in sched[k].wait
    BY <1>4 DEF WaitedFor
  <2>2. n \in Nat /\ k \in 1 .. n
    BY <1>1, <2>1
  <2> QED BY <1>2, <2>1, <2>2 DEF WaitedFor
<1>5. ASSUME NEW i \in 1 .. n, NEW bar, WaitedFor(bar, i, n)
      PROVE  WaitedFor(bar, i, ip)'
  BY <1>1, <1>2, <1>5 DEF WaitedFor
<1>6. ASSUME NEW i \in 1 .. n, NEW bar \in deps.wait
      PROVE  WaitedFor(bar, i, ip)'
  BY <1>1, <1>2, <1>3 DEF WaitedFor
<1>7. ASSUME NEW i \in 1 .. n, NEW bar \in Bars, NEW dep \in Deps, Stands(bar, dep, i),
             firstWait[dep] # None
      PROVE  Stands(bar, dep, i)'
  <2>1. firstWait[dep] \in 1 .. MaxInstrs /\ dep # None
      <3>1. firstWait[dep] \in 0 .. MaxInstrs /\ MaxInstrs \in Nat
      BY <1>1
    <3> QED BY <1>7, <3>1 DEF None, Deps
  <2>2. barDep[bar] = dep \/ WaitedFor(bar, i, n)
    BY <1>7 DEF Stands, n
  <2>3. barDep'[bar] = dep \/ WaitedFor(bar, i, ip)'
    <3>1. CASE WaitedFor(bar, i, n)
      BY <1>5, <3>1
    <3>2. CASE barDep[bar] = dep
      <4>1. bar \in deps.wait \/ barDep'[bar] = barDep[bar]
        BY <2>1, <3>2 DEF Give
      <4> QED BY <1>6, <3>2, <4>1
    <3> QED BY <2>2, <3>1, <3>2
  <2>4. ASSUME firstWait[dep] <= ip PROVE WaitedFor(bar, i, firstWait[dep])'
    <3>1. CASE firstWait[dep] <= n
      <4>1. firstWait[dep] \in 1 .. n
        BY <1>1, <2>1, <3>1
      <4>2. WaitedFor(bar, i, firstWait[dep])
        BY <1>7, <3>1 DEF Stands, n
      <4> QED BY <1>4, <4>1, <4>2
    <3>2. CASE firstWait[dep] = ip
      <4>1. CASE barDep[bar] = dep
        BY <1>6, <3>2, <4>1 DEF Give
      <4>2. CASE WaitedFor(bar, i, n)
        BY <1>5, <3>2, <4>2
      <4> QED BY <2>2, <4>1, <4>2
    <3> QED BY <1>1, <2>1, <2>4, <3>1, <3>2
  <2> QED BY <1>2, <2>3, <2>4 DEF Stands
<1>8. ASSUME NEW i \in 1 .. n PROVE Assigned(i)'
  <2>1. Assigned(i) /\ sched'[i] = sched[i] /\ sched[i].rd \in Bars \union {None} /\ sched[i].wr \in Bars \union {None}
    BY <1>2, <1>3 DEF BarsOk, n, Given
  <2>2. sched[i].rd # None => Stands(sched[i].rd, Rd(i), i)'
    BY <1>3, <1>7, <2>1 DEF Assigned
  <2>3. sched[i].wr # None => Stands(sched[i].wr, Wr(i), i)'
    BY <1>3, <1>7, <2>1 DEF Assigned
  <2>4. /\ sched[i].rd = None <=> firstWait[Rd(i)] = None
        /\ sched[i].wr = None <=> firstWait[Wr(i)] = None
        /\ sched[i].rd # None => sched[i].rd # sched[i].wr
    BY <2>1 DEF Assigned
  <2> QED BY <2>1, <2>2, <2>3, <2>4 DEF Assigned
<1>9. Assigned(ip)'
  <2>1. Rd(ip) \in Deps /\ Wr(ip) \in Deps
    BY <1>1, DepsAre
  <2>2. /\ firstWait[Rd(ip)] # None => firstWait[Rd(ip)] > ip
        /\ firstWait[Wr(ip)] # None => firstWait[Wr(ip)] > ip
    BY <1>1 DEF AnalysisOk, WaitsAreReal
  <2>3. /\ deps.rd = None <=> firstWait[Rd(ip)] = None
        /\ deps.wr = None <=> firstWait[Wr(ip)] = None
    BY <1>1, <2>2 DEF Give, WaitedAfter, None
  <2>4. deps.rd # None => deps.rd # deps.wr /\ barDep'[deps.rd] = Rd(ip) /\ ~(firstWait[Rd(ip)] <= ip)
    BY <1>1, <2>1, <2>2, <2>3 DEF Give
  <2>5. deps.wr # None => barDep'[deps.wr] = Wr(ip) /\ ~(firstWait[Wr(ip)] <= ip)
    BY <1>1, <2>1, <2>2, <2>3 DEF Give
  <2> QED BY <1>2, <2>3, <2>4, <2>5 DEF Assigned, Stands
<1>10. ASSUME NEW i \in 1 .. n, NEW j \in i + 1 .. n, NEW bar \in UsedBars(i)' \intersect UsedBars(j)'
       PROVE  WaitedFor(bar, i, j)'
  <2>1. j \in 1 .. n /\ sched'[i] = sched[i] /\ sched'[j] = sched[j]
    BY <1>1, <1>2
  <2>2. bar \in UsedBars(i) \intersect UsedBars(j)
    BY <2>1 DEF UsedBars
  <2>3. WaitedFor(bar, i, j)
    BY <2>2 DEF BarsOk, n
  <2> QED BY <1>4, <2>1, <2>3
<1>11. ASSUME NEW i \in 1 .. n, NEW bar \in UsedBars(i)' \intersect UsedBars(ip)'
       PROVE  WaitedFor(bar, i, ip)'
  <2>1. /\ bar \in {sched[i].rd, sched[i].wr} \ {None}
        /\ bar \in {deps.rd, deps.wr} \ {None}
    BY <1>2 DEF UsedBars
  <2>2. bar \in deps.wait \/ barDep[bar] = None
    BY <2>1 DEF Give
  <2>3. Assigned(i)
    BY DEF BarsOk, n
  <2>4. \/ Stands(bar, Rd(i), i)
        \/ Stands(bar, Wr(i), i)
    BY <2>1, <2>3 DEF Assigned
  <2>5. CASE barDep[bar] = None
    <3>1. WaitedFor(bar, i, n)
      BY <1>3, <2>4, <2>5 DEF Stands, n
    <3> QED BY <1>5, <3>1
  <2> QED BY <1>6, <2>2, <2>5
<1>12. \A i \in 1 .. ip :
          /\ Assigned(i)'
          /\ \A j \in i + 1 .. ip :
                \A bar \in UsedBars(i)' \intersect UsedBars(j)' : WaitedFor(bar, i, j)'
  <2> SUFFICES ASSUME NEW i \in 1 .. ip
               PROVE  /\ Assigned(i)'
                      /\ \A j \in i + 1 .. ip :
                            \A bar \in UsedBars(i)' \intersect UsedBars(j)' : WaitedFor(bar, i, j)'
    OBVIOUS
  <2>1. CASE i = ip
    <3>1. i + 1 .. ip = {}
      BY <1>1, <2>1
    <3> QED BY <1>9, <2>1, <3>1
  <2>2. CASE i \in 1 .. n
    <3>1. \A j \in i + 1 .. ip : j \in i + 1 .. n \/ j = ip
      BY <1>1, <2>2
    <3> QED BY <1>8, <1>10, <1>11, <2>2, <3>1
  <2> QED BY <1>1, <2>1, <2>2
<1>13. Len(sched') <= MaxInstrs /\ (Len(sched') > 0 => analysed' = MaxInstrs)
  BY <1>1, <1>2
<1> QED BY <1>1, <1>2, <1>12, <1>13 DEF BarsOk, Given

LEMMA BarsHold ==
    ASSUME CodeOk, AnalysisOk, BarsOk, [Next]_vars
    PROVE  BarsOk'
<1>1. CASE Assign
  <2>1. PICK ip, deps : Give(ip, deps)
    BY <1>1, AssignGives
  <2>2. analysed = MaxInstrs /\ analysed' = analysed /\ firstWait' = firstWait
    BY <1>1 DEF Assign
  <2> QED BY <2>1, <2>2, GiveKeepsBars
<1>2. CASE Analyse
  <2>1. Len(sched) = 0 /\ sched' = sched /\ barDep' = barDep /\ Len(sched') = 0
    <3>1. Len(sched) \in Nat /\ MaxInstrs \in Nat /\ analysed # MaxInstrs /\ sched' = sched /\ barDep' = barDep
      BY <1>2, BoundsAssumption DEF Analyse, BarsOk, AnalysisOk
    <3> QED BY <3>1 DEF BarsOk
  <2>2. \A i \in 1 .. Len(sched') : FALSE
    BY <2>1
  <2> QED BY <2>1, <2>2, BoundsAssumption DEF BarsOk
<1>3. CASE UNCHANGED <<sched, barDep, firstWait, analysed>>
  <2>1. \A bar, i, j : WaitedFor(bar, i, j)' <=> WaitedFor(bar, i, j)
    BY <1>3 DEF WaitedFor
  <2>2. \A i : UsedBars(i)' = UsedBars(i)
    BY <1>3 DEF UsedBars
  <2>3. \A i : Assigned(i)' <=> Assigned(i)
    BY <1>3, <2>1 DEF Assigned, Stands
  <2> QED BY <1>3, <2>1, <2>2, <2>3 DEF BarsOk
<1>4. Next \/ UNCHANGED vars
  OBVIOUS
<1>5. Assign \/ Analyse \/ UNCHANGED <<sched, barDep, firstWait, analysed>>
  BY <1>4, CalcDelaysIs
     DEF Next, Write, StartBlock, ScheduleNext, FinishBlock, IssueOff, IssueFixed,
         IssueScoreboard, IssueBranch, ReadSources, WriteDestinations, vars, passVars, assignVars
<1> QED BY <1>1, <1>2, <1>3, <1>5


-----------------------------------------------------------------------------
(* The delays.  The pass sees the code as it is when all is assigned, and  *)
(* nothing changes that any more.                                          *)
LEMMA CodeAssigned ==
    ASSUME CodeOk, AnalysisOk, BarsOk, Len(sched) = MaxInstrs
    PROVE  /\ IsCode(program, Bars, sched)
           /\ ~Write /\ ~StartBlock /\ ~ScheduleNext /\ ~FinishBlock /\ ~Analyse /\ ~Assign
<1>1. MaxInstrs \in Nat /\ Len(program) \in Nat /\ program \in Seq(InstructionSet)
  BY BoundsAssumption DEF CodeOk
<1>2. analysed = MaxInstrs
  <2>1. analysed \in 0 .. MaxInstrs /\ (MaxInstrs > 0 => analysed = MaxInstrs)
    BY DEF AnalysisOk, BarsOk
  <2> QED BY <1>1, <2>1
<1>3. scheduled = MaxInstrs
  <2>1. scheduled \in 0 .. MaxInstrs /\ (MaxInstrs > 0 => scheduled = MaxInstrs)
    BY <1>2 DEF AnalysisOk, CodeOk
  <2> QED BY <1>1, <2>1
<1>4. Len(program) = MaxInstrs
  <2>1. Len(program) <= MaxInstrs /\ (MaxInstrs > 0 => Len(program) = MaxInstrs)
    BY <1>3 DEF CodeOk
  <2> QED BY <1>1, <2>1
<1>5. IsCode(program, Bars, sched)
  BY <1>1, <1>4, BarsAssumption DEF IsCode, BarsOk, Bars, None
<1>6. ~Write /\ ~StartBlock /\ ~Analyse /\ ~Assign
  BY <1>1, <1>2, <1>3, <1>4 DEF Write, StartBlock, Analyse, Assign
<1>7. list = << >>
  BY <1>1, <1>3 DEF CodeOk
<1>8. ~ScheduleNext /\ ~FinishBlock
  BY <1>7 DEF ScheduleNext, FinishBlock
<1> QED BY <1>5, <1>6, <1>8

LEMMA DelaysHold ==
    ASSUME CodeOk, AnalysisOk, BarsOk, DelaysOk, [Next]_vars
    PROVE  DelaysOk'
<1> DEFINE Inv(f) == FlowInv(program, labels, Bars, sched, f)
<1>1. CASE UNCHANGED <<program, labels, sched, flow, delays>>
  BY <1>1 DEF DelaysOk
<1>2. CASE UNCHANGED <<flow, delays>> /\ (Write \/ StartBlock \/ ScheduleNext \/ FinishBlock \/ Analyse \/ Assign)
  <2>1. Len(sched) # MaxInstrs
    BY <1>2, CodeAssigned
  <2>2. flow = << >> /\ delays = << >>
    BY <2>1 DEF DelaysOk
  <2> QED BY <1>2, <2>2 DEF DelaysOk
<1>3. CASE CalcDelays
  <2>1. program' = program /\ labels' = labels /\ sched' = sched
    BY <1>3, CalcDelaysIs DEF assignVars
  <2>2. Len(sched) = MaxInstrs
    BY <1>3 DEF CalcDelays, StartDelays, VisitBlock, VisitInstr, FinishVisit, TellPred, SetDelays, DelaysOk
  <2>3. IsCode(program, Bars, sched)
    BY <2>2, CodeAssigned
  <2>4. flow # << >> => Inv(flow)
    BY DEF DelaysOk
  <2> HIDE DEF Inv
  <2>5. ASSUME Inv(flow'), delays' = delays, ~(flow # << >> /\ Solved(flow)) PROVE DelaysOk'
    <3>1. delays = << >>
      BY <2>5 DEF DelaysOk
    <3> QED BY <2>1, <2>2, <2>5, <3>1 DEF DelaysOk, Inv
  <2>6. CASE StartDelays
    <3>1. flow' = Unsolved(program, labels, Bars) /\ delays' = delays /\ flow = << >>
      BY <2>6 DEF StartDelays
    <3>2. Inv(flow')
      BY <2>3, <3>1, UnsolvedKeeps DEF Inv
    <3> QED BY <2>5, <3>1, <3>2
  <2>7. CASE VisitBlock
    <3>1. /\ flow' = EnterBlock(program, labels, flow) /\ delays' = delays /\ flow # << >>
          /\ Idling(flow) /\ ~Solved(flow)
      BY <2>7 DEF VisitBlock
    <3>2. Inv(flow')
      BY <2>3, <2>4, <3>1, EnterKeeps DEF Inv
    <3> QED BY <2>5, <3>1, <3>2
  <2>8. CASE VisitInstr
    <3>1. /\ flow' = ProcessInstr(program, sched, flow) /\ delays' = delays /\ flow # << >>
          /\ flow.block # 0 /\ flow.at >= flow.block
      BY <2>8 DEF VisitInstr
    <3>2. Inv(flow')
      BY <2>3, <2>4, <3>1, InstrKeeps DEF Inv
    <3> QED BY <2>5, <3>1, <3>2 DEF Solved, Idling
  <2>9. CASE FinishVisit
    <3>1. /\ flow' = LeaveBlock(program, labels, flow) /\ delays' = delays /\ flow # << >>
          /\ flow.block # 0 /\ flow.at < flow.block
      BY <2>9 DEF FinishVisit
    <3>2. Inv(flow')
      BY <2>3, <2>4, <3>1, LeaveKeeps DEF Inv
    <3> QED BY <2>5, <3>1, <3>2 DEF Solved, Idling
  <2>10. CASE TellPred
    <3>1. flow' = JoinPred(flow) /\ delays' = delays /\ flow # << >> /\ flow.joins # {}
      BY <2>10 DEF TellPred
    <3>2. Inv(flow')
      BY <2>3, <2>4, <3>1, JoinKeeps DEF Inv
    <3> QED BY <2>5, <3>1, <3>2 DEF Solved, Idling
  <2>11. CASE SetDelays
    <3>1. flow' = flow /\ flow # << >> /\ Solved(flow) /\ delays' = DelaysOf(program, labels, flow)
      BY <2>11 DEF SetDelays
    <3> QED BY <2>1, <2>2, <2>4, <3>1 DEF DelaysOk, Inv
  <2> QED BY <1>3, <2>6, <2>7, <2>8, <2>9, <2>10, <2>11 DEF CalcDelays
<1>4. Next \/ UNCHANGED vars
  OBVIOUS
<1>5. \/ UNCHANGED <<program, labels, sched, flow, delays>>
      \/ UNCHANGED <<flow, delays>> /\ (Write \/ StartBlock \/ ScheduleNext \/ FinishBlock \/ Analyse \/ Assign)
      \/ CalcDelays
  BY <1>4 DEF Next, Write, StartBlock, ScheduleNext, FinishBlock, Analyse, Assign, IssueOff, IssueFixed,
              IssueScoreboard, IssueBranch, ReadSources, WriteDestinations,
              vars, passVars, assignVars, delayVars
<1> QED BY <1>1, <1>2, <1>3, <1>5

-----------------------------------------------------------------------------
(* The machine runs when all is assigned.                                  *)
LEMMA Running ==
    ASSUME CodeOk, AnalysisOk, BarsOk, MachineOk, delays # << >>, MaxInstrs > 0
    PROVE  /\ Len(sched) = MaxInstrs /\ analysed = MaxInstrs
           /\ scheduled = MaxInstrs /\ Len(program) = MaxInstrs
<1>1. MaxInstrs \in Nat /\ Len(sched) = MaxInstrs
  BY BoundsAssumption DEF MachineOk
<1>2. analysed = MaxInstrs
  BY <1>1 DEF BarsOk
<1>3. scheduled = MaxInstrs
  BY <1>1, <1>2 DEF AnalysisOk
<1> QED BY <1>1, <1>2, <1>3 DEF CodeOk

LEMMA InFlight ==
    ASSUME CodeOk, AnalysisOk, BarsOk, MachineOk, NEW op \in flying
    PROVE  /\ FlyingOk(op) /\ op.ip \in 1 .. MaxInstrs /\ op.ip \in Ops
           /\ Len(sched) = MaxInstrs /\ analysed = MaxInstrs /\ Len(program) = MaxInstrs
           /\ Assigned(op.ip) /\ op.ip \in 1 .. Len(sched)
           /\ ~Idle(op) /\ sched[op.ip].wr # None => sched[op.ip].wr \in Pending(op)
           /\ op.stage = "read" /\ sched[op.ip].rd # None => sched[op.ip].rd \in Pending(op)
           /\ Pending(op) \subseteq UsedBars(op.ip)
<1>1. FlyingOk(op) /\ op.ip \in 1 .. MaxInstrs /\ OpNeedsScoreboard(program[op.ip]) /\ delays # << >>
  BY DEF MachineOk, FlyingOk
<1>2. Len(sched) = MaxInstrs /\ analysed = MaxInstrs /\ Len(program) = MaxInstrs
  <2>1. MaxInstrs > 0
    BY <1>1, BoundsAssumption
  <2> QED BY <1>1, <2>1, Running
<1>3. Assigned(op.ip) /\ op.ip \in 1 .. Len(sched)
  BY <1>1, <1>2 DEF BarsOk
<1>4. op.ip \in Ops
  BY <1>1, <1>2 DEF Ops
<1>5. /\ sched[op.ip].wr # None => sched[op.ip].wr \in Pending(op)
      /\ op.stage = "read" /\ sched[op.ip].rd # None => sched[op.ip].rd \in Pending(op)
      /\ Pending(op) \subseteq UsedBars(op.ip)
  BY DEF Pending, UsedBars
<1> QED BY <1>1, <1>2, <1>3, <1>4, <1>5

(* What an operation in flight has yet to do nobody has waited for.        *)
LEMMA NobodyWaited ==
    ASSUME CodeOk, AnalysisOk, BarsOk, MachineOk,
           NEW op \in flying, ~Idle(op), NEW j \in 1 .. MaxInstrs + 1,
           \A k \in op.ip + 1 .. j : Pending(op) \intersect sched[k].wait = {}
    PROVE  /\ ~Written(op.ip, j)
           /\ op.stage = "read" => ~HasRead(op.ip, j)
<1> DEFINE ip == op.ip
<1>1. /\ ip \in 1 .. MaxInstrs /\ Len(sched) = MaxInstrs /\ analysed = MaxInstrs /\ MaxInstrs \in Nat
      /\ Assigned(ip)
      /\ sched[ip].wr # None => sched[ip].wr \in Pending(op)
      /\ op.stage = "read" /\ sched[ip].rd # None => sched[ip].rd \in Pending(op)
  BY InFlight, BoundsAssumption
<1>2. Rd(ip) \in Deps /\ Wr(ip) \in Deps /\ firstWait \in [Deps -> 0 .. MaxInstrs]
  BY <1>1, DepsAre DEF AnalysisOk
<1>3. ASSUME NEW dep \in Deps, NEW bar \in Pending(op), Stands(bar, dep, ip),
             firstWait[dep] \in ip + 1 .. j
      PROVE  FALSE
  <2>1. firstWait[dep] <= Len(sched)
    BY <1>1, <1>2, <1>3
  <2>2. PICK k \in ip + 1 .. firstWait[dep] : bar \in sched[k].wait
    BY <1>3, <2>1 DEF Stands, WaitedFor
  <2>3. k \in ip + 1 .. j
    BY <1>1, <1>3, <2>2
  <2> QED BY <1>3, <2>2, <2>3
<1>4. ~Written(ip, j)
  <2> SUFFICES ASSUME Written(ip, j) PROVE FALSE
    OBVIOUS
  <2>1. firstWait[Wr(ip)] \in ip + 1 .. j /\ firstWait[Wr(ip)] # None
    BY <1>1 DEF Written, None
  <2>2. sched[ip].wr # None /\ Stands(sched[ip].wr, Wr(ip), ip)
    BY <1>1, <2>1 DEF Assigned
  <2> QED BY <1>1, <1>2, <1>3, <2>1, <2>2
<1>5. ASSUME op.stage = "read", HasRead(ip, j) PROVE FALSE
  <2>1. firstWait[Rd(ip)] \in ip + 1 .. j /\ firstWait[Rd(ip)] # None
    BY <1>1, <1>4, <1>5 DEF HasRead, None
  <2>2. sched[ip].rd # None /\ Stands(sched[ip].rd, Rd(ip), ip)
    BY <1>1, <2>1 DEF Assigned
  <2> QED BY <1>1, <1>2, <1>3, <1>5, <2>1, <2>2
<1> QED BY <1>4, <1>5

(* What can issue depends on nothing in flight.                            *)
LEMMA SafeToIssue ==
    ASSUME CodeOk, AnalysisOk, BarsOk, MachineOk, Ready, NEW op \in flying
    PROVE  /\ program[op.ip].dsts \intersect (Touched(program[pc]) \union program[pc].dsts) = {}
           /\ op.stage = "read" => program[op.ip].srcs \intersect program[pc].dsts = {}
           /\ ~Idle(op) => op.ip < pc /\ ~IsBranch(program[pc])
           /\ ~Idle(op) => \A k \in op.ip + 1 .. pc : Pending(op) \intersect sched[k].wait = {}
<1> DEFINE ip == op.ip
<1>1. CASE Idle(op)
  BY <1>1 DEF Idle
<1>2. CASE ~Idle(op)
  <2>1. /\ ip \in 1 .. MaxInstrs /\ ip \in Ops /\ analysed = MaxInstrs /\ Behind(op)
        /\ MaxInstrs \in Nat /\ pc \in 1 .. MaxInstrs /\ ip < pc
        /\ op.stage = "read" => program[ip].srcs # {}
        /\ op.stage # "read" => op.stage = "write"
    BY <1>2, InFlight, BoundsAssumption DEF FlyingOk, Behind, MachineOk, Ready
  <2>2. ASSUME NEW k \in ip + 1 .. pc PROVE Pending(op) \intersect sched[k].wait = {}
    <3>1. k \in ip + 1 .. pc - 1 \/ k = pc
      BY <2>1
    <3> QED BY <2>1, <3>1 DEF Behind, Ready
  <2>3. ~Written(ip, pc) /\ (op.stage = "read" => ~HasRead(ip, pc))
    BY <1>2, <2>1, <2>2, NobodyWaited
  <2>4. pc \in ip + 1 .. analysed
    BY <2>1
  <2>5. InTime(ip, pc)
    BY <2>1, <2>4 DEF AnalysisOk
  <2>6. ~IsBranch(program[pc])
    <3>1. program[ip].dsts # {} \/ op.stage = "read"
      BY <1>2, <2>1 DEF Idle
    <3> QED BY <2>1, <2>3, <2>5, <3>1 DEF InTime
  <2> QED BY <2>1, <2>2, <2>3, <2>5, <2>6 DEF InTime
<1> QED BY <1>1, <1>2

(* What is about to be written is not about to be read.                    *)
LEMMA SafeToWrite ==
    ASSUME CodeOk, AnalysisOk, BarsOk, MachineOk,
           NEW reader \in flying, NEW writer \in flying,
           reader.stage = "read", writer.stage = "write"
    PROVE  program[reader.ip].srcs \intersect program[writer.ip].dsts = {}
<1> SUFFICES ASSUME program[reader.ip].srcs \intersect program[writer.ip].dsts # {}
             PROVE  FALSE
  OBVIOUS
<1>1. ~Idle(reader) /\ ~Idle(writer)
  BY DEF Idle
<1>2. /\ reader.ip \in 1 .. MaxInstrs /\ reader.ip \in Ops /\ Behind(reader)
      /\ writer.ip \in 1 .. MaxInstrs /\ writer.ip \in Ops /\ Behind(writer)
      /\ analysed = MaxInstrs /\ MaxInstrs \in Nat /\ pc \in 1 .. MaxInstrs + 1
      /\ reader.ip < pc /\ writer.ip < pc
  BY <1>1, InFlight, BoundsAssumption DEF FlyingOk, Behind, MachineOk
<1>3. reader.ip # writer.ip
  BY <1>1 DEF MachineOk
<1>4. CASE writer.ip < reader.ip
  <2>1. \A k \in writer.ip + 1 .. reader.ip : k \in writer.ip + 1 .. pc - 1
    BY <1>2
  <2>2. ~Written(writer.ip, reader.ip)
    BY <1>1, <1>2, <2>1, NobodyWaited DEF Behind
  <2>3. reader.ip \in writer.ip + 1 .. analysed
    BY <1>2, <1>4
  <2>4. InTime(writer.ip, reader.ip)
    BY <1>2, <2>3 DEF AnalysisOk
  <2> QED BY <2>2, <2>4 DEF InTime, Touched
<1>5. CASE reader.ip < writer.ip
  <2>1. \A k \in reader.ip + 1 .. writer.ip : k \in reader.ip + 1 .. pc - 1
    BY <1>2
  <2>2. ~HasRead(reader.ip, writer.ip)
    BY <1>1, <1>2, <2>1, NobodyWaited DEF Behind
  <2>3. writer.ip \in reader.ip + 1 .. analysed
    BY <1>2, <1>5
  <2>4. InTime(reader.ip, writer.ip)
    BY <1>2, <2>3 DEF AnalysisOk
  <2> QED BY <2>2, <2>4 DEF InTime
<1> QED BY <1>2, <1>3, <1>4, <1>5


-----------------------------------------------------------------------------
(* Every step keeps the machine's part of the invariant.                   *)
Values == MachineOk /\ Newest /\ WritesInOrder /\ SourcesKept

Passes == Write \/ StartBlock \/ ScheduleNext \/ FinishBlock \/ Analyse \/ Assign \/ CalcDelays

LEMMA PassesKeepValues ==
    ASSUME SInv, Passes
    PROVE  Values'
<1>1. delays = << >>
  <2> SUFFICES ASSUME delays # << >> PROVE FALSE
    OBVIOUS
  <2>1. CASE CalcDelays
    <3>1. flow # << >> /\ Solved(flow)
      BY DEF SInv, DelaysOk
    <3> QED BY <2>1, <3>1 DEF CalcDelays, StartDelays, VisitBlock, VisitInstr, FinishVisit, TellPred,
                              SetDelays, Solved, Idling
  <2>2. CASE ~CalcDelays
    <3>1. MaxInstrs > 0
      BY <2>2, BoundsAssumption DEF SInv, MachineOk, CodeOk, AnalysisOk, BarsOk, Passes, Write,
                                    StartBlock, ScheduleNext, FinishBlock, Analyse, Assign
    <3>2. /\ Len(sched) = MaxInstrs /\ analysed = MaxInstrs
          /\ scheduled = MaxInstrs /\ Len(program) = MaxInstrs
      BY <3>1, Running DEF SInv
    <3> QED BY <2>2, <3>2, BoundsAssumption DEF SInv, CodeOk, Passes, Write, StartBlock,
                                                ScheduleNext, FinishBlock, Analyse, Assign
  <2> QED BY <2>1, <2>2
<1>2. flying = {}
  BY <1>1 DEF SInv, MachineOk
<1>3. /\ pc' = pc /\ flying' = {} /\ contents' = contents /\ order' = order
      /\ delays' # << >> => Len(sched') = MaxInstrs
  <2>1. pc' = pc /\ flying' = {} /\ contents' = contents /\ order' = order
    BY <1>2, CalcDelaysIs DEF Passes, Write, StartBlock, ScheduleNext, FinishBlock, Analyse, Assign,
                              machineVars
  <2>2. delays' # << >> => Len(sched') = MaxInstrs
    <3>1. CASE CalcDelays
      <4>1. delays' # << >> => SetDelays
        BY <1>1, <3>1 DEF CalcDelays, StartDelays, VisitBlock, VisitInstr, FinishVisit, TellPred
      <4>2. sched' = sched
        BY <3>1, CalcDelaysIs DEF assignVars
      <4> QED BY <4>1, <4>2 DEF SetDelays, SInv, DelaysOk
    <3>2. CASE ~CalcDelays
      BY <1>1, <3>2 DEF Passes, Write, StartBlock, ScheduleNext, FinishBlock, Analyse, Assign, delayVars
    <3> QED BY <3>1, <3>2
  <2> QED BY <2>1, <2>2
<1>4. \A r \in Registers : contents[r] = order[r]
  BY <1>2 DEF SInv, WritesInOrder
<1>5. MachineOk'
  BY <1>3 DEF SInv, MachineOk
<1> QED BY <1>3, <1>4, <1>5 DEF Values, Newest, WritesInOrder, SourcesKept

(* The part of the invariant about operations, and what it depends on.     *)
LEMMA SameCode ==
    ASSUME UNCHANGED passVars
    PROVE  /\ \A op : Pending(op)' = Pending(op)
           /\ \A op : Idle(op)' <=> Idle(op)
           /\ program' = program /\ sched' = sched /\ delays' = delays
<1>1. program' = program /\ sched' = sched /\ delays' = delays
  BY DEF passVars, assignVars, delayVars
<1> QED BY <1>1 DEF Pending, Idle

LEMMA StillFlying ==
    ASSUME SInv, Ready, UNCHANGED passVars, pc' = pc + 1, NEW op \in flying
    PROVE  FlyingOk(op)'
<1>1. FlyingOk(op)
  BY DEF SInv, MachineOk
<1>2. ASSUME ~Idle(op) PROVE Behind(op)'
  <2>1. op.ip < pc /\ \A k \in op.ip + 1 .. pc : Pending(op) \intersect sched[k].wait = {}
    BY <1>2, SafeToIssue DEF SInv
  <2>2. op.ip \in 1 .. MaxInstrs /\ pc \in Int /\ MaxInstrs \in Int
    BY <1>1, BoundsAssumption DEF FlyingOk, Ready, SInv, MachineOk
  <2> QED BY <2>1, <2>2, SameCode DEF Behind
<1> QED BY <1>1, <1>2, SameCode DEF FlyingOk

LEMMA ReadyIs ==
    ASSUME SInv, Ready
    PROVE  /\ pc \in 1 .. MaxInstrs /\ pc + 1 \in 1 .. MaxInstrs + 1
           /\ delays # << >> /\ Len(sched) = MaxInstrs
           /\ program[pc].srcs \subseteq Registers /\ program[pc].dsts \subseteq Registers
           /\ program[pc].pred \subseteq Registers
<1>1. MaxInstrs \in Nat /\ pc \in 1 .. MaxInstrs /\ delays # << >>
  BY BoundsAssumption DEF Ready, SInv, MachineOk
<1>2. Len(program) = MaxInstrs /\ Len(sched) = MaxInstrs
  BY <1>1, Running DEF SInv
<1> QED BY <1>1, <1>2, TypedCode DEF SInv

LEMMA IssueOffKeepsValues ==
    ASSUME SInv, IssueOff
    PROVE  Values'
<1>1. /\ Ready /\ pc' = pc + 1 /\ flying' = flying /\ contents' = contents /\ order' = order
      /\ UNCHANGED passVars
  BY DEF IssueOff
<1>2. MachineOk'
  <2>1. \A op \in flying : FlyingOk(op)'
    BY <1>1, StillFlying
  <2> QED BY <1>1, <2>1, ReadyIs, SameCode DEF SInv, MachineOk
<1>3. program' = program
  BY <1>1, SameCode
<1> QED BY <1>1, <1>2, <1>3 DEF Values, SInv, Newest, WritesInOrder, SourcesKept

LEMMA IssueBranchKeepsValues ==
    ASSUME SInv, IssueBranch
    PROVE  Values'
<1>1. /\ Ready /\ IsBranch(program[pc]) /\ pc' \in 1 .. MaxInstrs + 1
      /\ flying' = flying /\ contents' = contents /\ order' = order
      /\ UNCHANGED passVars
  BY DEF IssueBranch
<1>2. \A op \in flying : Idle(op)
  BY <1>1, SafeToIssue DEF SInv
<1>3. MachineOk'
  <2>1. \A op \in flying : FlyingOk(op)'
    BY <1>2, SameCode, <1>1 DEF SInv, MachineOk, FlyingOk
  <2> QED BY <1>1, <2>1, ReadyIs, SameCode DEF SInv, MachineOk
<1>4. program' = program
  BY <1>1, SameCode
<1> QED BY <1>1, <1>3, <1>4 DEF Values, SInv, Newest, WritesInOrder, SourcesKept

LEMMA IssueFixedKeepsValues ==
    ASSUME SInv, IssueFixed
    PROVE  Values'
<1> DEFINE instr == program[pc]
<1>1. /\ Ready /\ pc' = pc + 1 /\ flying' = flying
      /\ contents' = [r \in Registers |-> IF r \in instr.dsts THEN issued + 1 ELSE contents[r]]
      /\ order' = [r \in Registers |-> IF r \in instr.dsts THEN issued + 1 ELSE order[r]]
      /\ UNCHANGED passVars
  BY DEF IssueFixed, Version
<1>2. MachineOk'
  <2>1. \A op \in flying : FlyingOk(op)'
    BY <1>1, StillFlying
  <2> QED BY <1>1, <2>1, ReadyIs, SameCode DEF SInv, MachineOk
<1>3. program' = program
  BY <1>1, SameCode
<1>4. ASSUME NEW op \in flying
      PROVE  /\ program[op.ip].dsts \intersect instr.dsts = {}
             /\ op.stage = "read" => program[op.ip].srcs \intersect instr.dsts = {}
             /\ program[op.ip].dsts \subseteq Registers /\ program[op.ip].srcs \subseteq Registers
  <2>1. op.ip \in 1 .. Len(program)
    BY InFlight DEF SInv
  <2> QED BY <1>1, <2>1, SafeToIssue, TypedCode DEF SInv
<1>5. Newest'
  BY <1>1, <1>3, <1>4 DEF SInv, Newest
<1>6. WritesInOrder'
  BY <1>1, <1>3 DEF SInv, WritesInOrder
<1>7. SourcesKept'
  BY <1>1, <1>3, <1>4 DEF SInv, SourcesKept
<1> QED BY <1>2, <1>5, <1>6, <1>7 DEF Values

LEMMA OperandsOrdered ==
    ASSUME SInv, Ready
    PROVE  \A r \in Touched(program[pc]) : contents[r] = order[r]
<1> SUFFICES ASSUME NEW r \in Touched(program[pc]) PROVE contents[r] = order[r]
  OBVIOUS
<1>1. r \in Registers
  BY ReadyIs DEF Touched
<1>2. \A op \in flying : r \notin program[op.ip].dsts
  BY SafeToIssue DEF SInv
<1> QED BY <1>1, <1>2 DEF SInv, WritesInOrder

LEMMA IssueScoreboardKeepsValues ==
    ASSUME SInv, IssueScoreboard
    PROVE  Values'
<1> DEFINE instr == program[pc]
<1> PICK new : new = Operation(instr)
  OBVIOUS
<1>1. /\ Ready /\ pc' = pc + 1 /\ flying' = flying \union {new} /\ contents' = contents
      /\ order' = [r \in Registers |-> IF r \in instr.dsts THEN issued + 1 ELSE order[r]]
      /\ UNCHANGED passVars /\ OpNeedsScoreboard(instr)
  BY DEF IssueScoreboard, Version
<1>2. /\ new = [ip |-> new.ip, stage |-> new.stage, wanted |-> new.wanted, version |-> new.version]
      /\ new.ip = pc /\ new.version = issued + 1
      /\ new.stage \in {"read", "write"}
      /\ new.stage = "read" <=> instr.srcs # {}
      /\ \A r \in instr.srcs : new.wanted[r] = order[r]
  BY DEF Operation
<1>3. program' = program /\ pc \in 1 .. MaxInstrs
  BY <1>1, SameCode, ReadyIs
<1>4. ASSUME NEW op \in flying
      PROVE  /\ program[op.ip].dsts \intersect instr.dsts = {}
             /\ program[op.ip].dsts \subseteq Registers
             /\ ~Idle(op) => op.ip # pc
  <2>1. op.ip \in 1 .. Len(program)
    BY InFlight DEF SInv
  <2> QED BY <1>1, <1>3, <2>1, SafeToIssue, TypedCode DEF SInv
<1>5. MachineOk'
  <2>1. \A op \in flying : FlyingOk(op)'
    BY <1>1, StillFlying
  <2>2. FlyingOk(new)'
    <3>1. Behind(new)'
      <4>1. new.ip < pc' /\ new.ip + 1 .. pc' - 1 = {}
        BY <1>1, <1>2, <1>3
      <4> QED BY <4>1 DEF Behind
    <3> QED BY <1>1, <1>2, <1>3, <3>1 DEF FlyingOk
  <2>3. \A op \in flying' : FlyingOk(op)'
    BY <1>1, <2>1, <2>2
  <2>4. \A op1, op2 \in flying' : ~Idle(op1) /\ ~Idle(op2) /\ op1.ip = op2.ip => op1 = op2
    BY <1>1, <1>2, <1>4 DEF SInv, MachineOk
  <2> QED BY <1>1, <2>3, <2>4, ReadyIs, SameCode DEF SInv, MachineOk
<1>6. Newest'
  <2>1. instr.dsts \subseteq Registers
    BY <1>1, ReadyIs
  <2> QED BY <1>1, <1>2, <1>3, <1>4, <2>1 DEF SInv, Newest
<1>7. WritesInOrder'
  BY <1>1, <1>2, <1>3 DEF SInv, WritesInOrder
<1>8. SourcesKept'
  <2>1. \A r \in instr.srcs : contents[r] = order[r]
    BY <1>1, OperandsOrdered DEF Touched
  <2> QED BY <1>1, <1>2, <1>3, <2>1 DEF SInv, SourcesKept
<1> QED BY <1>5, <1>6, <1>7, <1>8 DEF Values


LEMMA ReadKeepsValues ==
    ASSUME SInv, ReadSources
    PROVE  Values'
<1>1. PICK op \in flying :
         /\ op.stage = "read"
         /\ flying' = (flying \ {op}) \union
               (IF program[op.ip].dsts = {} THEN {} ELSE {[op EXCEPT !.stage = "write"]})
  BY DEF ReadSources
<1>2. /\ pc' = pc /\ contents' = contents /\ order' = order /\ UNCHANGED passVars
      /\ program' = program /\ sched' = sched /\ delays' = delays
  BY SameCode DEF ReadSources
<1>3. /\ FlyingOk(op) /\ op.ip \in 1 .. MaxInstrs /\ delays # << >> /\ ~Idle(op)
  BY <1>1, InFlight DEF SInv, MachineOk, Idle
<1> DEFINE new == [ip |-> op.ip, stage |-> "write", wanted |-> op.wanted, version |-> op.version]
<1>4. [op EXCEPT !.stage = "write"] = new
  BY <1>3 DEF FlyingOk
<1>5. /\ new.ip = op.ip /\ new.stage = "write" /\ new.version = op.version
      /\ new = [ip |-> new.ip, stage |-> new.stage, wanted |-> new.wanted, version |-> new.version]
  OBVIOUS
<1> HIDE DEF new
<1>6. \A o \in flying' : (o \in flying /\ o # op) \/ (o = new /\ program[op.ip].dsts # {})
  BY <1>1, <1>4
<1>7. MachineOk'
  <2>1. Pending(new) \subseteq Pending(op)
    BY <1>1, <1>5 DEF Pending
  <2>2. FlyingOk(new)'
    <3>1. Behind(op)
      BY <1>3 DEF FlyingOk
    <3>2. Behind(new)'
      BY <1>2, <1>5, <2>1, <3>1, SameCode DEF Behind
    <3> QED BY <1>2, <1>3, <1>5, <3>2 DEF FlyingOk
  <2>3. ASSUME NEW o \in flying PROVE FlyingOk(o)'
    <3>1. FlyingOk(o)
      BY DEF SInv, MachineOk
    <3>2. Behind(o)' <=> Behind(o)
      BY <1>2, SameCode DEF Behind
    <3> QED BY <1>2, <3>1, <3>2, SameCode DEF FlyingOk
  <2>4. \A o \in flying' : FlyingOk(o)'
    BY <1>6, <2>2, <2>3
  <2>5. \A o1, o2 \in flying' : ~Idle(o1) /\ ~Idle(o2) /\ o1.ip = o2.ip => o1 = o2
    BY <1>1, <1>3, <1>5, <1>6 DEF SInv, MachineOk
  <2> QED BY <1>2, <1>3, <2>4, <2>5, SameCode DEF SInv, MachineOk
<1>8. Newest'
  BY <1>1, <1>2, <1>5, <1>6 DEF SInv, Newest
<1>9. WritesInOrder'
  <2> SUFFICES ASSUME NEW r \in Registers, \A o \in flying' : r \notin program[o.ip].dsts
               PROVE  contents[r] = order[r]
    BY <1>2 DEF WritesInOrder
  <2>1. r \notin program[op.ip].dsts
    BY <1>1, <1>4, <1>5
  <2>2. \A o \in flying : r \notin program[o.ip].dsts
    BY <1>1, <2>1
  <2> QED BY <2>2 DEF SInv, WritesInOrder
<1>10. SourcesKept'
  BY <1>2, <1>5, <1>6 DEF SInv, SourcesKept
<1> QED BY <1>7, <1>8, <1>9, <1>10 DEF Values

LEMMA WriteKeepsValues ==
    ASSUME SInv, WriteDestinations
    PROVE  Values'
<1>1. PICK op \in flying :
         /\ op.stage = "write"
         /\ flying' = flying \ {op}
         /\ contents' = [r \in Registers |->
               IF r \in program[op.ip].dsts THEN op.version ELSE contents[r]]
  BY DEF WriteDestinations
<1>2. /\ pc' = pc /\ order' = order /\ UNCHANGED passVars
      /\ program' = program /\ sched' = sched /\ delays' = delays
  BY SameCode DEF WriteDestinations
<1>3. MachineOk'
  <2>1. ASSUME NEW o \in flying PROVE FlyingOk(o)'
    <3>1. FlyingOk(o)
      BY DEF SInv, MachineOk
    <3>2. Behind(o)' <=> Behind(o)
      BY <1>2, SameCode DEF Behind
    <3> QED BY <1>2, <3>1, <3>2, SameCode DEF FlyingOk
  <2> QED BY <1>1, <1>2, <2>1, SameCode DEF SInv, MachineOk
<1>4. Newest'
  BY <1>1, <1>2 DEF SInv, Newest
<1>5. WritesInOrder'
  <2> SUFFICES ASSUME NEW r \in Registers, \A o \in flying' : r \notin program[o.ip].dsts
               PROVE  contents'[r] = order[r]
    BY <1>2 DEF WritesInOrder
  <2>1. CASE r \in program[op.ip].dsts
    BY <1>1, <2>1 DEF SInv, Newest
  <2>2. CASE r \notin program[op.ip].dsts
    <3>1. \A o \in flying : r \notin program[o.ip].dsts
      BY <1>1, <2>2
    <3> QED BY <1>1, <2>2, <3>1 DEF SInv, WritesInOrder
  <2> QED BY <2>1, <2>2
<1>6. SourcesKept'
  <2> SUFFICES ASSUME NEW o \in flying, o.stage = "read", NEW r \in program[o.ip].srcs
               PROVE  contents'[r] = o.wanted[r]
    BY <1>1, <1>2 DEF SourcesKept
  <2>1. r \notin program[op.ip].dsts
    BY <1>1, SafeToWrite DEF SInv
  <2>2. o.ip \in 1 .. Len(program)
    BY InFlight DEF SInv
  <2>3. r \in Registers
    BY <2>2, TypedCode DEF SInv
  <2> QED BY <1>1, <2>1, <2>3 DEF SInv, SourcesKept
<1> QED BY <1>3, <1>4, <1>5, <1>6 DEF Values

-----------------------------------------------------------------------------
(* The invariant.                                                          *)
LEMMA InitInv == Init => SInv
<1> SUFFICES ASSUME Init PROVE SInv
  OBVIOUS
<1>1. /\ program = << >> /\ scheduled = 0 /\ list = << >> /\ analysed = 0
      /\ uses = [r \in Registers |-> {}] /\ active = {}
      /\ firstWait = [dep \in Deps |-> None] /\ barDep = [bar \in Bars |-> None]
      /\ sched = << >> /\ delays = << >> /\ pc = 1 /\ flying = {}
      /\ contents = [r \in Registers |-> 0] /\ order = [r \in Registers |-> 0]
      /\ MaxInstrs \in Nat
  BY BoundsAssumption DEF Init
<1>2. CodeOk
  BY <1>1 DEF CodeOk
<1>3. AnalysisOk
  <2>1. Ops = {}
    BY <1>1 DEF Ops
  <2>2. WaitsAreReal
    BY <1>1, DepsAre DEF WaitsAreReal
  <2> QED BY <1>1, <2>1, <2>2 DEF AnalysisOk, None
<1>4. BarsOk
  BY <1>1 DEF BarsOk, None
<1>5. MachineOk /\ Newest /\ WritesInOrder /\ SourcesKept
  BY <1>1 DEF MachineOk, Newest, WritesInOrder, SourcesKept
<1>6. DelaysOk
  BY DEF Init, DelaysOk
<1> QED BY <1>2, <1>3, <1>4, <1>5, <1>6 DEF SInv

LEMMA NextInv == SInv /\ [Next]_vars => SInv'
<1> SUFFICES ASSUME SInv, [Next]_vars PROVE SInv'
  OBVIOUS
<1>1. CodeOk'
  <2>1. Next \/ UNCHANGED vars
    OBVIOUS
  <2>2. \/ Write \/ StartBlock \/ ScheduleNext \/ FinishBlock
        \/ UNCHANGED <<program, labels, scheduled, list>>
    BY <2>1, CalcDelaysIs
       DEF Next, Analyse, Assign, IssueOff, IssueFixed, IssueScoreboard, IssueBranch,
           ReadSources, WriteDestinations, vars, passVars, assignVars
  <2> QED BY <2>2, ListingKeepsCode DEF SInv
<1>2. AnalysisOk'
  BY AnalysisHolds DEF SInv
<1>3. BarsOk'
  BY BarsHold DEF SInv
<1>4. DelaysOk'
  BY DelaysHold DEF SInv
<1>5. Values'
  <2>1. CASE UNCHANGED vars
    <3>1. MachineOk'
      BY <2>1 DEF vars, passVars, assignVars, machineVars, delayVars, SInv, MachineOk, FlyingOk, Idle, Behind, Pending
    <3> QED BY <2>1, <3>1 DEF vars, passVars, assignVars, machineVars, SInv, Values, Newest, WritesInOrder, SourcesKept
  <2>2. CASE Passes
    BY <2>2, PassesKeepValues
  <2>3. CASE IssueOff
    BY <2>3, IssueOffKeepsValues
  <2>4. CASE IssueFixed
    BY <2>4, IssueFixedKeepsValues
  <2>5. CASE IssueScoreboard
    BY <2>5, IssueScoreboardKeepsValues
  <2>6. CASE IssueBranch
    BY <2>6, IssueBranchKeepsValues
  <2>7. CASE ReadSources
    BY <2>7, ReadKeepsValues
  <2>8. CASE WriteDestinations
    BY <2>8, WriteKeepsValues
  <2> QED BY <2>1, <2>2, <2>3, <2>4, <2>5, <2>6, <2>7, <2>8 DEF Next, Passes
<1> QED BY <1>1, <1>2, <1>3, <1>4, <1>5 DEF SInv, Values

LEMMA SpecInv == Spec => []SInv
BY InitInv, NextInv, PTL DEF Spec

-----------------------------------------------------------------------------
(* What generate_order makes of a block is a permutation of it in which    *)
(* what depends on each other stays in order: a write and what reads or    *)
(* replaces the result, a read and what overwrites the source, two memory  *)
(* operations, a branch and everything else.                               *)
THEOREM ScheduleOrder == Spec => ScheduleKeepsOrder
<1>1. SInv /\ [Next]_vars => [Reordered(Independent)]_program
  <2> SUFFICES ASSUME SInv, [Next]_vars, program' # program PROVE Reordered(Independent)
    OBVIOUS
  <2>1. Next
    BY DEF vars, passVars, assignVars
  <2>2. Write \/ FinishBlock
    BY <2>1, CalcDelaysIs
       DEF Next, StartBlock, ScheduleNext, Analyse, Assign, IssueOff, IssueFixed,
           IssueScoreboard, IssueBranch, ReadSources, WriteDestinations, passVars, assignVars
  <2>3. CASE Write
    <3>1. Len(program) # MaxInstrs
      BY <2>3, BoundsAssumption DEF Write, SInv, CodeOk
    <3> QED BY <3>1 DEF Reordered
  <2>4. CASE FinishBlock
    BY <2>4, FinishReorders DEF SInv
  <2> QED BY <2>2, <2>3, <2>4
<1> QED BY <1>1, SpecInv, PTL DEF Spec, ScheduleKeepsOrder

(* Once the data flow is solved, the delays that calc_delays takes from it *)
(* keep on every path what depends on each other far enough apart.         *)
THEOREM DelaysAreEnough == Spec => []DelaysSuffice
<1>1. SInv => DelaysSuffice
  <2> SUFFICES ASSUME SInv, delays # << >> PROVE EnoughCycles(program, labels, sched, delays)
    BY DEF DelaysSuffice
  <2>1. /\ Len(sched) = MaxInstrs /\ FlowInv(program, labels, Bars, sched, flow)
        /\ Solved(flow) /\ delays = DelaysOf(program, labels, flow)
    BY DEF SInv, DelaysOk
  <2>2. Settled(program, labels, Bars, sched, flow)
    BY <2>1, CodeAssigned DEF Settled, SInv
  <2> QED BY <2>1, <2>2, SolvedIsEnough
<1> QED BY <1>1, SpecInv, PTL

(* assign_barriers never lets a hardware barrier stand for two outstanding *)
(* dependencies: one that is taken over is waited for by the instruction   *)
(* that takes it, whatever branches were taken in between.                 *)
THEOREM BarriersAreExclusive == Spec => []BarrierExclusive
<1>1. SInv => BarrierExclusive
  <2> SUFFICES ASSUME SInv PROVE BarrierExclusive
    OBVIOUS
  <2>1. ASSUME NEW op \in flying, Idle(op) PROVE Pending(op) = {}
    <3>1. /\ op.ip \in 1 .. MaxInstrs /\ Assigned(op.ip)
          /\ op.stage = "write" /\ program[op.ip].dsts = {}
      BY <2>1, InFlight DEF SInv, Idle
    <3>2. firstWait[Wr(op.ip)] = None
      <4>1. Wr(op.ip) \notin Signals(program[op.ip], op.ip)
        BY <3>1, SignalsAre, DepsAre
      <4> QED BY <3>1, <4>1 DEF SInv, AnalysisOk, WaitsAreReal
    <3>3. sched[op.ip].wr = None
      BY <3>1, <3>2 DEF Assigned
    <3> QED BY <3>1, <3>3 DEF Pending
  <2>2. ASSUME NEW first \in flying, NEW second \in flying, ~Idle(first), ~Idle(second),
               first.ip < second.ip
        PROVE  Pending(first) \intersect Pending(second) = {}
    <3> SUFFICES ASSUME NEW bar \in Pending(first) \intersect Pending(second) PROVE FALSE
      OBVIOUS
    <3>1. /\ first.ip \in 1 .. MaxInstrs /\ second.ip \in 1 .. MaxInstrs
          /\ Len(sched) = MaxInstrs /\ MaxInstrs \in Nat /\ pc \in 1 .. MaxInstrs + 1
          /\ bar \in UsedBars(first.ip) \intersect UsedBars(second.ip)
          /\ Behind(first) /\ second.ip < pc
      BY <2>2, InFlight, BoundsAssumption DEF SInv, FlyingOk, Behind, MachineOk
    <3>2. second.ip \in first.ip + 1 .. Len(sched)
      BY <2>2, <3>1
    <3>3. PICK k \in first.ip + 1 .. second.ip : bar \in sched[k].wait
      BY <3>1, <3>2 DEF SInv, BarsOk, WaitedFor
    <3>4. k \in first.ip + 1 .. pc - 1
      BY <3>1, <3>3
    <3> QED BY <3>1, <3>3, <3>4 DEF Behind
  <2>3. ASSUME NEW op1 \in flying, NEW op2 \in flying, op1 # op2
        PROVE  Pending(op1) \intersect Pending(op2) = {}
    <3>1. op1.ip \in Int /\ op2.ip \in Int
      BY InFlight DEF SInv
    <3>2. CASE Idle(op1) \/ Idle(op2)
      BY <2>1, <3>2
    <3>3. CASE ~Idle(op1) /\ ~Idle(op2)
      <4>1. op1.ip # op2.ip
        BY <2>3, <3>3 DEF SInv, MachineOk
      <4> QED BY <2>2, <3>1, <3>3, <4>1
    <3> QED BY <3>2, <3>3
  <2>4. \A i \in 1 .. Len(sched) : sched[i].rd # None => sched[i].rd # sched[i].wr
    BY DEF SInv, BarsOk, Assigned
  <2> QED BY <2>3, <2>4 DEF BarrierExclusive
<1> QED BY <1>1, SpecInv, PTL

(* With the waits of assign_barriers no late write lands on a newer one:   *)
(* what no operation in flight writes holds what program order says.       *)
THEOREM LateWritesInOrder == Spec => []WritesInOrder
<1>1. SInv => WritesInOrder
  BY DEF SInv
<1> QED BY <1>1, SpecInv, PTL

(* With the waits of assign_barriers an instruction that can issue finds   *)
(* its predicate and sources as program order has them, and an operation   *)
(* in flight finds its sources unchanged when it comes to read them.       *)
THEOREM OperandsAreInPlace == Spec => []OperandsInPlace
<1>1. SInv => OperandsInPlace
  BY OperandsOrdered DEF SInv, SourcesKept, OperandsInPlace
<1> QED BY <1>1, SpecInv, PTL
=============================================================================
