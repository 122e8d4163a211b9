---------------------------- MODULE DelaysProofs ----------------------------
(***************************************************************************)
(* calc_delays: why the delays suffice.  The data flow is solved block by  *)
(* block; what a block that need not be visited again has made of its uses *)
(* and cycles is an invariant of its steps (FlowInv), and once no block    *)
(* need be, it bounds the cycles on every path from an instruction to one  *)
(* that depends on it.  For any code, labels, registers and barriers.      *)
(***************************************************************************)
EXTENDS Delays, SequenceTheorems, FiniteSums

(* A block ends behind its start and for all its instructions alike.       *)
LEMMA BlockEndIs ==
    ASSUME NEW S, NEW code \in Seq(S), NEW places, NEW ip \in 1 .. Len(code)
    PROVE  /\ BlockEnd(code, places, ip) \in ip .. Len(code)
           /\ \A k \in ip .. BlockEnd(code, places, ip) :
                 BlockEnd(code, places, k) = BlockEnd(code, places, ip)
<1> DEFINE Ends(k) == {end \in k .. Len(code) : end = Len(code) \/ IsStart(code, places, end + 1)}
<1>1. Len(code) \in Nat
  OBVIOUS
<1>2. ASSUME NEW k \in 1 .. Len(code)
      PROVE  /\ BlockEnd(code, places, k) \in Ends(k)
             /\ \A end \in Ends(k) : BlockEnd(code, places, k) <= end
  <2>1. Len(code) \in Ends(k)
    BY <1>1, <1>2
  <2>2. Ends(k) \subseteq Nat
    BY <1>1, <1>2
  <2> HIDE DEF Ends
  <2>3. PICK least \in Ends(k) : \A m \in Ends(k) : least <= m
    BY <2>1, <2>2, LeastElement
  <2>4. Min(Ends(k)) \in Ends(k) /\ \A m \in Ends(k) : Min(Ends(k)) <= m
    BY <2>3 DEF Min
  <2> QED BY <2>4 DEF BlockEnd, Ends
<1>3. BlockEnd(code, places, ip) \in ip .. Len(code)
  BY <1>2
<1>4. ASSUME NEW k \in ip .. BlockEnd(code, places, ip)
      PROVE  BlockEnd(code, places, k) = BlockEnd(code, places, ip)
  <2>1. k \in 1 .. Len(code)
    BY <1>1, <1>3, <1>4
  <2>2. BlockEnd(code, places, k) \in Ends(k) /\ BlockEnd(code, places, ip) \in Ends(ip)
    BY <1>2, <2>1
  <2>3. BlockEnd(code, places, k) \in Ends(ip) /\ BlockEnd(code, places, ip) \in Ends(k)
    BY <1>1, <1>4, <2>1, <2>2
  <2>4. /\ BlockEnd(code, places, ip) <= BlockEnd(code, places, k)
        /\ BlockEnd(code, places, k) <= BlockEnd(code, places, ip)
    BY <1>2, <2>1, <2>3
  <2>5. BlockEnd(code, places, k) \in Int /\ BlockEnd(code, places, ip) \in Int
    BY <1>1, <1>3, <2>1, <2>2
  <2> QED BY <2>4, <2>5
<1> QED BY <1>3, <1>4

(* No block starts inside another, and behind the end of one the next      *)
(* starts.                                                                 *)
LEMMA BlocksAre ==
    ASSUME NEW S, NEW code \in Seq(S), NEW labels, NEW ip \in 1 .. Len(code)
    PROVE  LET end == BlockEnd(code, labels, ip) IN
           /\ end \in ip .. Len(code)
           /\ \A k \in ip + 1 .. end : k \notin Starts(code, labels)
           /\ end < Len(code) => end + 1 \in Starts(code, labels)
           /\ IsBranch(code[ip]) => end = ip
<1> DEFINE end == BlockEnd(code, labels, ip)
           Ends == {k \in ip .. Len(code) : k = Len(code) \/ IsStart(code, labels, k + 1)}
<1>1. Len(code) \in Nat /\ DOMAIN code = 1 .. Len(code)
  OBVIOUS
<1>2. end \in Ends /\ \A k \in Ends : end <= k
  <2>1. Len(code) \in Ends /\ Ends \subseteq Nat
    BY <1>1
  <2> HIDE DEF Ends
  <2>2. PICK least \in Ends : \A m \in Ends : least <= m
    BY <2>1, LeastElement
  <2>3. Min(Ends) \in Ends /\ \A m \in Ends : Min(Ends) <= m
    BY <2>2 DEF Min
  <2> QED BY <2>3 DEF BlockEnd, Ends
<1> HIDE DEF end
<1>3. end \in ip .. Len(code)
  BY <1>2
<1>4. ASSUME NEW k \in ip + 1 .. end, k \in Starts(code, labels) PROVE FALSE
  <2>1. k - 1 \in ip .. Len(code) /\ (k - 1) + 1 = k /\ k - 1 < end
    BY <1>1, <1>3, <1>4
  <2>2. k - 1 \in Ends
    BY <1>4, <2>1 DEF Starts
  <2> HIDE DEF Ends
  <2>3. end <= k - 1
    BY <1>2, <2>2
  <2> QED BY <1>3, <2>1, <2>3
<1>5. ASSUME end < Len(code) PROVE end + 1 \in Starts(code, labels)
  <2>1. IsStart(code, labels, end + 1) /\ end + 1 \in 1 .. Len(code)
    <3>1. end = Len(code) \/ IsStart(code, labels, end + 1)
      BY <1>2
    <3>2. end # Len(code) /\ end + 1 \in 1 .. Len(code)
      <4>1. Len(code) \in Int /\ ip \in Int /\ 1 <= ip /\ ip <= end /\ end \in Int
        BY <1>3
      <4> QED BY <1>5, <4>1
    <3> QED BY <3>1, <3>2
  <2> QED BY <1>1, <2>1 DEF Starts
<1>6. ASSUME IsBranch(code[ip]) PROVE end = ip
  <2>1. ip \in Ends
    <3>1. CASE ip = Len(code)
      BY <3>1
    <3>2. CASE ip # Len(code)
      <4>1. (ip + 1) - 1 = ip
        BY <1>1
      <4> QED BY <1>6, <4>1 DEF IsStart
    <3> QED BY <3>1, <3>2
  <2> QED BY <1>2, <1>3, <2>1
<1> QED BY <1>3, <1>4, <1>5, <1>6 DEF end

LEMMA BlockBeforeIs ==
    ASSUME NEW S, NEW code \in Seq(S), NEW labels, NEW ip \in 1 .. Len(code) + 1
    PROVE  LET before == BlockBefore(code, labels, ip) IN
           /\ before \in Starts(code, labels) \union {0}
           /\ before < ip
           /\ \A b \in Starts(code, labels) : b < ip => b <= before
<1> DEFINE Earlier == {b \in Starts(code, labels) : b < ip}
<1>1. Earlier \union {0} \subseteq 0 .. Len(code) /\ Len(code) \in Nat
  BY DEF Starts
<1> HIDE DEF Earlier
<1>2. PICK n \in Earlier \union {0} : \A m \in Earlier \union {0} : m <= n
  BY <1>1, GreatestElement
<1>3. \A m \in Earlier \union {0} : m \in Int
  BY <1>1
<1>4. /\ Max(Earlier \union {0}) \in Earlier \union {0}
      /\ \A m \in Earlier \union {0} : Max(Earlier \union {0}) >= m
  <2>1. \A m \in Earlier \union {0} : n >= m
    BY <1>2, <1>3
  <2> QED BY <2>1 DEF Max
<1>5. BlockBefore(code, labels, ip) = Max(Earlier \union {0})
  BY DEF BlockBefore, Greatest, Earlier
<1> DEFINE before == Max(Earlier \union {0})
<1>6. before \in Earlier \union {0} /\ \A m \in Earlier \union {0} : before >= m
  BY <1>4
<1> HIDE DEF before
<1>7. before \in Int /\ before < ip
  BY <1>1, <1>6 DEF Earlier
<1>8. \A b \in Starts(code, labels) : b < ip => b \in Earlier
  BY DEF Earlier
<1>9. \A b \in Earlier : before >= b /\ b \in Int
  BY <1>3, <1>6
<1>10. \A b \in Starts(code, labels) : b < ip => b <= before
  BY <1>7, <1>8, <1>9
<1> QED BY <1>5, <1>6, <1>7, <1>10 DEF Earlier, before

-----------------------------------------------------------------------------
(* What the solver keeps to.  An instruction uses a register as the code   *)
(* after it sees it, and for each use there is a latency to keep to.       *)
Kinds == {"r", "g", "w"}

UsesAs(instr, r, kind) ==
    \/ kind = "w" /\ r \in instr.dsts
    \/ kind = "r" /\ r \in instr.srcs
    \/ kind = "g" /\ r \in instr.pred

HazardLatency(instr, r, kind) ==
    IF r \in instr.dsts THEN IF kind = "g" THEN PawLatency ELSE InstrLatency(instr, r)
    ELSE IF r \in instr.srcs /\ kind = "w" THEN WarLatency ELSE 0

Unwritten(code, r, first, last) == \A k \in first .. last : r \notin code[k].dsts

(* Instruction i starts early enough for the rest of its block.            *)
Spaced(code, deps, cycles, i, end) ==
    /\ cycles[i] >= 1
    /\ \A j \in i + 1 .. end :
        /\ cycles[i] > cycles[j]
        /\ \A r \in Registers : \A kind \in Kinds :
              UsesAs(code[j], r, kind) /\ Unwritten(code, r, i + 1, j - 1) =>
                  cycles[i] >= cycles[j] + HazardLatency(code[i], r, kind)
    /\ \A bar \in {deps[i].rd, deps[i].wr} \ {0} :
        /\ cycles[i] >= SignalLatency
        /\ \A j \in i + 1 .. end : bar \in deps[j].wait => cycles[i] >= cycles[j] + SignalLatency

(* It starts early enough for the uses known at the end of the block.      *)
Covers(code, cycles, out, i, end) ==
    \A r \in Registers : \A key \in DOMAIN out[r] :
        Unwritten(code, r, i + 1, end) => cycles[i] + out[r][key] >= HazardLatency(code[i], r, key[1])

(* A use that many cycles away, or nearer, is known, unless it is too far  *)
(* away to matter.                                                         *)
Known(uses, key, distance) ==
    distance <= LatencyUpperBound => key \in DOMAIN uses /\ uses[key] <= distance

(* What the block uses or lets through is known at its start.              *)
Exposes(code, cycles, in, out, b, end) ==
    \A r \in Registers :
        /\ \A j \in b .. end : \A kind \in Kinds :
              UsesAs(code[j], r, kind) /\ Unwritten(code, r, b, j - 1) =>
                  Known(in[r], <<kind, j>>, cycles[b] - cycles[j])
        /\ \A key \in DOMAIN out[r] :
              Unwritten(code, r, b, end) => Known(in[r], key, out[r][key] + cycles[b])

Finished(code, labels, deps, f, b) ==
    LET end == BlockEnd(code, labels, b)
    IN  /\ \A i \in b .. end : /\ Spaced(code, deps, f.cycles, i, end)
                               /\ Covers(code, f.cycles, f.out[b], i, end)
        /\ Exposes(code, f.cycles, f.ins[b], f.out[b], b, end)

(* What is known at the start of b is known at the end of p.               *)
Told(f, b, p) ==
    \A r \in Registers : \A key \in DOMAIN f.ins[b][r] :
        key \in DOMAIN f.out[p][r] /\ f.out[p][r][key] <= f.ins[b][r][key]

(* A visit to block b has reached instruction f.at: what holds of those    *)
(* after it, and what is known of the uses there.                          *)
Reached(code, deps, f, out, end, i) ==
    /\ f.cycles[i] <= f.cycle
    /\ Spaced(code, deps, f.cycles, i, end)
    /\ Covers(code, f.cycles, out, i, end)
    /\ \A r \in Registers : \A kind \in Kinds :
          UsesAs(code[i], r, kind) /\ Unwritten(code, r, f.at + 1, i - 1) =>
              <<kind, i>> \in DOMAIN f.uses[r] /\ f.uses[r][<<kind, i>>] = 0
    /\ \A bar \in deps[i].wait : f.bars[bar] >= f.cycles[i]

PassesThrough(code, f, out, end) ==
    \A r \in Registers : \A key \in DOMAIN out[r] :
        Unwritten(code, r, f.at + 1, end) => key \in DOMAIN f.uses[r] /\ f.uses[r][key] <= out[r][key]

IsUses(uses) ==
    /\ uses = [r \in Registers |-> uses[r]]
    /\ \A r \in Registers : uses[r] \in [DOMAIN uses[r] -> Nat]

Visiting(code, labels, deps, f) ==
    LET end == BlockEnd(code, labels, f.block)
    IN  /\ f.block \in Starts(code, labels)
        /\ f.last = end
        /\ f.at \in f.block - 1 .. end
        /\ f.cycle = IF f.at = end THEN 0 ELSE f.cycles[f.at + 1]
        /\ IsUses(f.uses)
        /\ \A i \in f.at + 1 .. end : Reached(code, deps, f, f.out[f.block], end, i)
        /\ PassesThrough(code, f, f.out[f.block], end)
        /\ \A bar \in DOMAIN f.bars : f.bars[bar] <= f.cycle

Fields(f) ==
    [ins |-> f.ins, out |-> f.out, cycles |-> f.cycles, next |-> f.next, worklist |-> f.worklist,
     block |-> f.block, last |-> f.last, at |-> f.at, cycle |-> f.cycle, uses |-> f.uses,
     bars |-> f.bars, from |-> f.from, joins |-> f.joins]

FlowTyped(code, labels, bars, f) ==
    /\ f = Fields(f)
    /\ f.ins = [b \in Starts(code, labels) |-> f.ins[b]]
    /\ f.out = [b \in Starts(code, labels) |-> f.out[b]]
    /\ \A b \in Starts(code, labels) : IsUses(f.ins[b]) /\ IsUses(f.out[b])
    /\ f.cycles \in [DOMAIN code -> Nat]
    /\ f.next \in Starts(code, labels) \union {0}
    /\ f.worklist \in Seq(Starts(code, labels))
    /\ f.bars \in [bars -> Nat]
    /\ f.joins # {} => f.from \in Starts(code, labels) /\ f.joins \subseteq Preds(code, labels, f.from)
    /\ f.block # 0 => f.joins = {} /\ f.next \in {0, f.block}

(* A block that has been visited and need not be again.                    *)
Calm(f, b) == b > f.next /\ b # f.block /\ b \notin Range(f.worklist)

FlowInv(code, labels, bars, deps, f) ==
    /\ FlowTyped(code, labels, bars, f)
    /\ f.block # 0 => Visiting(code, labels, deps, f)
    /\ \A b \in Starts(code, labels) : Calm(f, b) => Finished(code, labels, deps, f, b)
    /\ \A b \in Starts(code, labels) : b > f.next =>
          \A p \in Preds(code, labels, b) : Told(f, b, p) \/ (b = f.from /\ p \in f.joins)

(* Code as the passes before leave it, with the barriers they gave.        *)
IsCode(code, bars, deps) ==
    /\ code \in Seq(InstructionSet)
    /\ deps \in Seq([wait : SUBSET bars, rd : bars \union {0}, wr : bars \union {0}])
    /\ Len(deps) = Len(code)
    /\ 0 \notin bars

-----------------------------------------------------------------------------
(* process_instr: when an instruction starts.                              *)
LEMMA GreatestOfOne ==
    ASSUME NEW x \in Int
    PROVE  Greatest({x}) \in Nat /\ Greatest({x}) >= x /\ Greatest({x}) \in {x, 0}
<1>1. PICK y \in {x} \union {0} : \A z \in {x} \union {0} : y >= z
  <2>1. CASE x >= 0
    BY <2>1
  <2>2. CASE 0 >= x
    BY <2>2
  <2> QED BY <2>1, <2>2
<1>2. /\ Max({x} \union {0}) \in {x} \union {0}
      /\ \A z \in {x} \union {0} : Max({x} \union {0}) >= z
  BY <1>1 DEF Max
<1> QED BY <1>2 DEF Greatest

LEMMA ToCycleIs ==
    ASSUME NEW f, NEW key, NEW delay \in Nat, NEW latency \in Nat, f.cycle \in Nat,
           key[2] \in f.at + 1 .. f.last =>
               f.cycles[key[2]] \in Nat /\ f.cycles[key[2]] <= f.cycle
    PROVE  /\ ToCycle(f, key, delay, latency) \in 0 .. f.cycle + latency
           /\ ToCycle(f, key, delay, latency) + delay >= latency
           /\ key[2] \in f.at + 1 .. f.last =>
                  ToCycle(f, key, delay, latency) = f.cycles[key[2]] + latency
<1>1. CASE key[2] \in f.at + 1 .. f.last
  BY <1>1 DEF ToCycle
<1>2. CASE key[2] \notin f.at + 1 .. f.last
  <2>1. latency - delay \in Int
    OBVIOUS
  <2>2. /\ Greatest({latency - delay}) \in Nat
        /\ Greatest({latency - delay}) >= latency - delay
        /\ Greatest({latency - delay}) \in {latency - delay, 0}
    BY <2>1, GreatestOfOne
  <2>3. ToCycle(f, key, delay, latency) = Greatest({latency - delay})
    BY <1>2 DEF ToCycle
  <2> QED BY <1>2, <2>2, <2>3
<1> QED BY <1>1, <1>2

LEMMA LatenciesAre ==
    ASSUME NEW instr, NEW r, NEW kind
    PROVE  /\ InstrLatency(instr, r) \in 6 .. LatencyUpperBound
           /\ HazardLatency(instr, r, kind) \in 0 .. LatencyUpperBound
           /\ ExecLatency(instr) \in 1 .. 13
<1>1. InstrLatency(instr, r) \in {6, 13, 14}
  BY DEF InstrLatency
<1> QED BY <1>1 DEF HazardLatency, ExecLatency, WarLatency, PawLatency, LatencyUpperBound

(* What a visit knows where it has come to.                                *)
LEMMA VisitIs ==
    ASSUME NEW code, NEW labels, NEW bars, NEW deps, NEW f, IsCode(code, bars, deps),
           FlowTyped(code, labels, bars, f), f.block # 0, Visiting(code, labels, deps, f)
    PROVE  /\ f.block \in 1 .. Len(code) /\ f.block \in Starts(code, labels)
           /\ f.last \in f.block .. Len(code) /\ f.last = BlockEnd(code, labels, f.block)
           /\ f.at \in f.block - 1 .. f.last
           /\ f.cycle \in Nat
           /\ \A k \in f.at + 1 .. f.last : f.cycles[k] \in Nat /\ f.cycles[k] <= f.cycle
           /\ \A r \in Registers : f.uses[r] \in [DOMAIN f.uses[r] -> Nat]
<1>1. code \in Seq(InstructionSet) /\ Len(code) \in Nat /\ DOMAIN code = 1 .. Len(code)
  BY DEF IsCode
<1>2. f.block \in 1 .. Len(code) /\ f.block \in Starts(code, labels)
  BY <1>1 DEF Visiting, Starts
<1>3. f.last \in f.block .. Len(code) /\ f.last = BlockEnd(code, labels, f.block)
  BY <1>1, <1>2, BlocksAre DEF Visiting
<1>4. f.at \in f.block - 1 .. f.last
  BY <1>3 DEF Visiting
<1>5. f.cycles \in [1 .. Len(code) -> Nat]
  BY <1>1 DEF FlowTyped
<1>6. f.cycle \in Nat
  <2>1. f.cycle = IF f.at = f.last THEN 0 ELSE f.cycles[f.at + 1]
    BY <1>3 DEF Visiting
  <2>2. CASE f.at # f.last
    <3>1. f.at + 1 \in 1 .. Len(code)
      BY <1>1, <1>2, <1>3, <1>4, <2>2
    <3> QED BY <1>5, <2>1, <2>2, <3>1
  <2> QED BY <2>1, <2>2
<1>7. ASSUME NEW k \in f.at + 1 .. f.last PROVE f.cycles[k] \in Nat /\ f.cycles[k] <= f.cycle
  <2>1. k \in 1 .. Len(code)
    BY <1>1, <1>2, <1>3, <1>4, <1>7
  <2>2. Reached(code, deps, f, f.out[f.block], f.last, k)
    BY <1>3, <1>7 DEF Visiting
  <2> QED BY <1>5, <2>1, <2>2 DEF Reached
<1>8. \A r \in Registers : f.uses[r] \in [DOMAIN f.uses[r] -> Nat]
  BY DEF Visiting, IsUses
<1> QED BY <1>2, <1>3, <1>4, <1>6, <1>7, <1>8

WrittenUses(code, f) == SetWrite(f.uses, code[f.at].dsts, f.at)
StartOf(code, deps, f) == MinStart(f, WrittenUses(code, f), code[f.at], deps[f.at])

LEMMA StartIs ==
    ASSUME NEW code, NEW labels, NEW bars, NEW deps, NEW f, IsCode(code, bars, deps),
           FlowTyped(code, labels, bars, f), f.block # 0, Visiting(code, labels, deps, f),
           f.at >= f.block
    PROVE  LET start == StartOf(code, deps, f)
               Latency(r, key) == HazardLatency(code[f.at], r, key[1])
           IN  /\ start \in Nat
               /\ start > f.cycle
               /\ \A bar \in {deps[f.at].rd, deps[f.at].wr} \ {0} : start >= f.bars[bar] + SignalLatency
               /\ \A r \in Registers : \A key \in DOMAIN f.uses[r] :
                     /\ start + f.uses[r][key] >= Latency(r, key)
                     /\ key[2] \in f.at + 1 .. f.last =>
                            start >= f.cycles[key[2]] + Latency(r, key)
<1> DEFINE instr == code[f.at]
           dep == deps[f.at]
           written == WrittenUses(code, f)
           Barriers == {f.bars[bar] + SignalLatency : bar \in {dep.rd, dep.wr} \ {0}}
           All == {f.cycle + ExecLatency(instr)} \union Barriers
                  \union Overwritten(f, instr) \union ReadBefore(f, written, instr)
           bound == f.cycle + 16
           Latency(r, key) == HazardLatency(instr, r, key[1])
<1>1. /\ f.at \in 1 .. Len(code) /\ f.cycle \in Nat
      /\ \A k \in f.at + 1 .. f.last : f.cycles[k] \in Nat /\ f.cycles[k] <= f.cycle
      /\ \A r \in Registers : f.uses[r] \in [DOMAIN f.uses[r] -> Nat]
  <2>1. /\ f.block \in 1 .. Len(code) /\ f.last \in f.block .. Len(code)
        /\ f.at \in f.block - 1 .. f.last /\ f.cycle \in Nat
        /\ \A k \in f.at + 1 .. f.last : f.cycles[k] \in Nat /\ f.cycles[k] <= f.cycle
        /\ \A r \in Registers : f.uses[r] \in [DOMAIN f.uses[r] -> Nat]
    BY VisitIs
  <2>2. Len(code) \in Nat
    BY DEF IsCode
  <2>3. f.at \in 1 .. Len(code)
    BY <2>1, <2>2
  <2> QED BY <2>1, <2>3
<1>2. instr \in InstructionSet /\ instr.dsts \subseteq Registers /\ instr.srcs \subseteq Registers
  <2>1. instr \in InstructionSet
    <3>1. code \in Seq(InstructionSet) /\ f.at \in 1 .. Len(code)
      BY <1>1 DEF IsCode
    <3> QED BY <3>1
  <2> QED BY <2>1 DEF InstructionSet
<1>3. dep \in [wait : SUBSET bars, rd : bars \union {0}, wr : bars \union {0}]
  <2>1. /\ f.at \in 1 .. Len(deps)
        /\ deps \in Seq([wait : SUBSET bars, rd : bars \union {0}, wr : bars \union {0}])
    BY <1>1 DEF IsCode
  <2>2. \A D : deps \in Seq(D) => deps[f.at] \in D
    BY <2>1
  <2> QED BY <2>1, <2>2
<1>4. \A bar \in {dep.rd, dep.wr} \ {0} : f.bars[bar] \in Nat /\ f.bars[bar] <= f.cycle
  BY <1>3 DEF FlowTyped, Visiting
<1>5. \A r \in instr.dsts : written[r] = [key \in {<<"w", f.at>>} |-> 0]
  BY <1>2 DEF WrittenUses, SetWrite
<1>6. \A r \in Registers \ instr.dsts : written[r] = f.uses[r]
  BY DEF WrittenUses, SetWrite
<1>7. \A r \in Registers : written[r] \in [DOMAIN written[r] -> Nat]
  <2> SUFFICES ASSUME NEW r \in Registers PROVE written[r] \in [DOMAIN written[r] -> Nat]
    OBVIOUS
  <2> HIDE DEF written
  <2>1. CASE r \in instr.dsts
    BY <1>5, <2>1
  <2>2. CASE r \notin instr.dsts
    BY <1>1, <1>6, <2>2
  <2> QED BY <2>1, <2>2
<1> HIDE DEF instr, dep, written
<1>8. ASSUME NEW key, NEW delay \in Nat, NEW latency \in 0 .. LatencyUpperBound
      PROVE  /\ ToCycle(f, key, delay, latency) \in 0 .. bound
             /\ ToCycle(f, key, delay, latency) + delay >= latency
             /\ key[2] \in f.at + 1 .. f.last =>
                    ToCycle(f, key, delay, latency) = f.cycles[key[2]] + latency
  <2>1. latency \in Nat /\ latency <= 14
    BY DEF LatencyUpperBound
  <2>2. /\ ToCycle(f, key, delay, latency) \in 0 .. f.cycle + latency
        /\ ToCycle(f, key, delay, latency) + delay >= latency
        /\ key[2] \in f.at + 1 .. f.last =>
               ToCycle(f, key, delay, latency) = f.cycles[key[2]] + latency
    BY <1>1, <2>1, ToCycleIs
  <2> QED BY <1>1, <2>1, <2>2
<1>9. ASSUME NEW r \in instr.dsts, NEW key \in DOMAIN f.uses[r]
      PROVE  /\ ToCycle(f, key, f.uses[r][key], Latency(r, key)) \in Overwritten(f, instr)
             /\ Latency(r, key) = IF key[1] = "g" THEN PawLatency ELSE InstrLatency(instr, r)
  BY <1>9 DEF Overwritten, HazardLatency
<1>10. ASSUME NEW r \in instr.srcs \ instr.dsts, NEW key \in DOMAIN f.uses[r], key[1] = "w"
       PROVE  /\ ToCycle(f, key, f.uses[r][key], Latency(r, key)) \in ReadBefore(f, written, instr)
              /\ Latency(r, key) = WarLatency
  <2>1. written[r] = f.uses[r]
    BY <1>2, <1>6
  <2> QED BY <1>10, <2>1 DEF ReadBefore, HazardLatency
<1>11. Overwritten(f, instr) \subseteq 0 .. bound
  <2> SUFFICES ASSUME NEW x \in Overwritten(f, instr) PROVE x \in 0 .. bound
    OBVIOUS
  <2>1. PICK r \in instr.dsts : \E key \in DOMAIN f.uses[r] :
            x = ToCycle(f, key, f.uses[r][key],
                        IF key[1] = "g" THEN PawLatency ELSE InstrLatency(instr, r))
    BY DEF Overwritten
  <2>4. PICK key \in DOMAIN f.uses[r] :
            x = ToCycle(f, key, f.uses[r][key],
                        IF key[1] = "g" THEN PawLatency ELSE InstrLatency(instr, r))
    BY <2>1
  <2>2. f.uses[r][key] \in Nat
    BY <1>1, <1>2, <2>4
  <2>3. (IF key[1] = "g" THEN PawLatency ELSE InstrLatency(instr, r)) \in 0 .. LatencyUpperBound
    BY LatenciesAre DEF PawLatency, LatencyUpperBound
  <2> QED BY <1>8, <2>4, <2>2, <2>3
<1>12. ReadBefore(f, written, instr) \subseteq 0 .. bound
  <2> SUFFICES ASSUME NEW x \in ReadBefore(f, written, instr) PROVE x \in 0 .. bound
    OBVIOUS
  <2>1. PICK r \in instr.srcs : \E key \in DOMAIN written[r] :
            x = ToCycle(f, key, written[r][key], WarLatency)
    BY DEF ReadBefore
  <2>4. PICK key \in DOMAIN written[r] : x = ToCycle(f, key, written[r][key], WarLatency)
    BY <2>1
  <2>2. written[r][key] \in Nat
    BY <1>2, <1>7, <2>4
  <2>3. WarLatency \in 0 .. LatencyUpperBound
    BY DEF WarLatency, LatencyUpperBound
  <2> QED BY <1>8, <2>4, <2>2, <2>3
<1>13. Barriers \subseteq 0 .. bound
  BY <1>1, <1>4 DEF SignalLatency
<1>14. f.cycle + ExecLatency(instr) \in 0 .. bound
  <2>1. ExecLatency(instr) \in 1 .. 13 /\ f.cycle \in Nat
    BY <1>1, LatenciesAre
  <2>2. \A x \in Nat : \A y \in 1 .. 13 : x + y \in 0 .. x + 16
    OBVIOUS
  <2> HIDE DEF instr
  <2> QED BY <2>1, <2>2
<1>15. All \subseteq 0 .. bound /\ bound \in Nat /\ f.cycle + ExecLatency(instr) \in All
  <2> HIDE DEF Barriers, bound
  <2>1. bound \in Nat
    BY <1>1 DEF bound
  <2> QED BY <2>1, <1>11, <1>12, <1>13, <1>14
<1>16. /\ Barriers \subseteq All /\ Overwritten(f, instr) \subseteq All
       /\ ReadBefore(f, written, instr) \subseteq All
  <2> HIDE DEF Barriers
  <2> QED OBVIOUS
<1>17. StartOf(code, deps, f) = Max(All)
  BY DEF StartOf, MinStart, instr, dep, written
<1> DEFINE start == StartOf(code, deps, f)
<1> HIDE DEF All, bound
<1>18. start \in All /\ \A x \in All : start >= x
  <2>1. PICK n \in All : \A m \in All : m <= n
    BY <1>15, GreatestElement
  <2>2. \A m \in All : n >= m
    BY <1>15, <2>1
  <2> QED BY <1>17, <2>2 DEF Max
<1> HIDE DEF start
<1>19. start \in Nat
  BY <1>15, <1>18
<1>20. start > f.cycle
  <2>1. start >= f.cycle + ExecLatency(instr) /\ ExecLatency(instr) \in 1 .. 13
    BY <1>15, <1>18, LatenciesAre
  <2> QED BY <1>1, <1>19, <2>1
<1>21. ASSUME NEW bar \in {dep.rd, dep.wr} \ {0} PROVE start >= f.bars[bar] + SignalLatency
  BY <1>16, <1>18
<1>22. ASSUME NEW r \in Registers, NEW key \in DOMAIN f.uses[r]
       PROVE  /\ start + f.uses[r][key] >= Latency(r, key)
              /\ key[2] \in f.at + 1 .. f.last => start >= f.cycles[key[2]] + Latency(r, key)
  <2> DEFINE delay == f.uses[r][key]
             latency == Latency(r, key)
  <2>1. delay \in Nat /\ latency \in 0 .. LatencyUpperBound
    BY <1>1, LatenciesAre
  <2> HIDE DEF latency, delay
  <2>2. CASE ToCycle(f, key, delay, latency) \in All
    <3>1. start >= ToCycle(f, key, delay, latency)
      BY <1>18, <2>2
    <3>2. /\ ToCycle(f, key, delay, latency) \in Nat
          /\ ToCycle(f, key, delay, latency) + delay >= latency
          /\ key[2] \in f.at + 1 .. f.last => ToCycle(f, key, delay, latency) = f.cycles[key[2]] + latency
      <4>1. \A x \in 0 .. bound : x \in Nat
        OBVIOUS
      <4> QED BY <1>8, <2>1, <4>1
    <3>3. start + delay >= latency
      BY <1>19, <2>1, <3>1, <3>2 DEF LatencyUpperBound
    <3> QED BY <3>1, <3>2, <3>3 DEF latency, delay
  <2>3. CASE latency = 0
    <3>1. key[2] \in f.at + 1 .. f.last => f.cycles[key[2]] \in Nat /\ f.cycles[key[2]] <= f.cycle
      BY <1>1
    <3>2. start + delay >= latency
      BY <1>19, <2>1, <2>3
    <3>3. key[2] \in f.at + 1 .. f.last => start >= f.cycles[key[2]] + latency
      BY <1>1, <1>19, <1>20, <2>3, <3>1
    <3> QED BY <3>2, <3>3 DEF latency, delay
  <2>4. r \in instr.dsts => ToCycle(f, key, delay, latency) \in All
    BY <1>9, <1>16 DEF delay, latency
  <2>5. r \in instr.srcs \ instr.dsts /\ key[1] = "w" => ToCycle(f, key, delay, latency) \in All
    BY <1>10, <1>16 DEF delay, latency
  <2>6. r \notin instr.dsts /\ ~(r \in instr.srcs /\ key[1] = "w") => latency = 0
    BY DEF latency, HazardLatency
  <2> QED BY <2>2, <2>3, <2>4, <2>5, <2>6
<1> QED BY <1>19, <1>20, <1>21, <1>22 DEF start, instr, dep

NewUses(code, f) ==
    Add(Add(WrittenUses(code, f), code[f.at].pred, "g", f.at), code[f.at].srcs, "r", f.at)

Extends(more, m, key) ==
    /\ more \in [DOMAIN more -> Nat]
    /\ key \in DOMAIN more /\ more[key] = 0
    /\ \A k \in DOMAIN m : /\ k \in DOMAIN more /\ more[k] <= m[k]
                           /\ m[k] = 0 => more[k] = 0

LEMMA With0Extends ==
    ASSUME NEW m, m \in [DOMAIN m -> Nat], NEW key
    PROVE  Extends(With0(m, key), m, key)
BY DEF Extends, With0

LEMMA NewUsesAre ==
    ASSUME NEW code, NEW f, IsUses(f.uses)
    PROVE  LET instr == code[f.at]
               uses == NewUses(code, f)
           IN  /\ IsUses(uses)
               /\ \A r \in Registers \ instr.dsts : \A key \in DOMAIN f.uses[r] :
                     key \in DOMAIN uses[r] /\ uses[r][key] <= f.uses[r][key]
               /\ \A r \in Registers : \A kind \in Kinds :
                     UsesAs(instr, r, kind) => /\ <<kind, f.at>> \in DOMAIN uses[r]
                                               /\ uses[r][<<kind, f.at>>] = 0
<1> DEFINE ip == f.at
           instr == code[ip]
           written == WrittenUses(code, f)
           guarded == Add(written, instr.pred, "g", ip)
           uses == NewUses(code, f)
<1>1. ASSUME NEW r \in Registers
      PROVE  /\ written[r] \in [DOMAIN written[r] -> Nat]
             /\ r \notin instr.dsts => written[r] = f.uses[r]
             /\ r \in instr.dsts => /\ <<"w", ip>> \in DOMAIN written[r]
                                    /\ written[r][<<"w", ip>>] = 0
  <2>1. CASE r \in instr.dsts
    <3>1. written[r] = [key \in {<<"w", ip>>} |-> 0]
      BY <2>1 DEF WrittenUses, SetWrite
    <3> HIDE DEF written
    <3> QED BY <2>1, <3>1
  <2>2. CASE r \notin instr.dsts
    <3>1. written[r] = f.uses[r]
      BY <2>2 DEF WrittenUses, SetWrite
    <3>2. f.uses[r] \in [DOMAIN f.uses[r] -> Nat]
      BY DEF IsUses
    <3> HIDE DEF written
    <3> QED BY <2>2, <3>1, <3>2
  <2> QED BY <2>1, <2>2
<1>2. \A r \in Registers : guarded[r] = IF r \in instr.pred THEN With0(written[r], <<"g", ip>>) ELSE written[r]
  BY DEF Add
<1>3. \A r \in Registers : uses[r] = IF r \in instr.srcs THEN With0(guarded[r], <<"r", ip>>) ELSE guarded[r]
  BY DEF Add, NewUses
<1>4. uses = [r \in Registers |-> uses[r]]
  BY DEF Add, NewUses
<1> HIDE DEF written, guarded, uses
<1>5. ASSUME NEW r \in Registers
      PROVE  /\ guarded[r] \in [DOMAIN guarded[r] -> Nat]
             /\ \A k \in DOMAIN written[r] :
                   /\ k \in DOMAIN guarded[r] /\ guarded[r][k] <= written[r][k]
                   /\ written[r][k] = 0 => guarded[r][k] = 0
             /\ r \in instr.pred => <<"g", ip>> \in DOMAIN guarded[r] /\ guarded[r][<<"g", ip>>] = 0
  <2>1. CASE r \in instr.pred
    <3>1. guarded[r] = With0(written[r], <<"g", ip>>)
      BY <1>2, <2>1
    <3>2. written[r] \in [DOMAIN written[r] -> Nat]
      BY <1>1
    <3>3. Extends(guarded[r], written[r], <<"g", ip>>)
      BY <3>1, <3>2, With0Extends
    <3>4. guarded[r] \in [DOMAIN guarded[r] -> Nat]
      BY <3>3 DEF Extends
    <3>5. <<"g", ip>> \in DOMAIN guarded[r] /\ guarded[r][<<"g", ip>>] = 0
      BY <3>3 DEF Extends
    <3>6. \A k \in DOMAIN written[r] : /\ k \in DOMAIN guarded[r] /\ guarded[r][k] <= written[r][k]
                                       /\ written[r][k] = 0 => guarded[r][k] = 0
      BY <3>3 DEF Extends
    <3> QED BY <3>4, <3>5, <3>6
  <2>2. CASE r \notin instr.pred
    <3>1. guarded[r] = written[r]
      BY <1>2, <2>2
    <3> QED BY <1>1, <2>2, <3>1
  <2> QED BY <2>1, <2>2
<1>6. ASSUME NEW r \in Registers
      PROVE  /\ uses[r] \in [DOMAIN uses[r] -> Nat]
             /\ \A k \in DOMAIN guarded[r] :
                   /\ k \in DOMAIN uses[r] /\ uses[r][k] <= guarded[r][k]
                   /\ guarded[r][k] = 0 => uses[r][k] = 0
             /\ r \in instr.srcs => <<"r", ip>> \in DOMAIN uses[r] /\ uses[r][<<"r", ip>>] = 0
  <2>1. CASE r \in instr.srcs
    <3>1. uses[r] = With0(guarded[r], <<"r", ip>>)
      BY <1>3, <2>1
    <3>2. guarded[r] \in [DOMAIN guarded[r] -> Nat]
      BY <1>5
    <3>3. Extends(uses[r], guarded[r], <<"r", ip>>)
      BY <3>1, <3>2, With0Extends
    <3>4. uses[r] \in [DOMAIN uses[r] -> Nat]
      BY <3>3 DEF Extends
    <3>5. <<"r", ip>> \in DOMAIN uses[r] /\ uses[r][<<"r", ip>>] = 0
      BY <3>3 DEF Extends
    <3>6. \A k \in DOMAIN guarded[r] : /\ k \in DOMAIN uses[r] /\ uses[r][k] <= guarded[r][k]
                                       /\ guarded[r][k] = 0 => uses[r][k] = 0
      BY <3>3 DEF Extends
    <3> QED BY <3>4, <3>5, <3>6
  <2>2. CASE r \notin instr.srcs
    <3>1. uses[r] = guarded[r]
      BY <1>3, <2>2
    <3> QED BY <1>5, <2>2, <3>1
  <2> QED BY <2>1, <2>2
<1>7. IsUses(uses)
  BY <1>4, <1>6 DEF IsUses
<1>8. ASSUME NEW r \in Registers \ instr.dsts, NEW key \in DOMAIN f.uses[r]
      PROVE  key \in DOMAIN uses[r] /\ uses[r][key] <= f.uses[r][key]
  <2>1. written[r] = f.uses[r] /\ written[r] \in [DOMAIN written[r] -> Nat]
    BY <1>1
  <2>2. key \in DOMAIN guarded[r] /\ guarded[r][key] <= f.uses[r][key]
    BY <1>5, <2>1
  <2>3. key \in DOMAIN uses[r] /\ uses[r][key] <= guarded[r][key]
    BY <1>6, <2>2
  <2>4. uses[r][key] \in Nat /\ guarded[r][key] \in Nat /\ f.uses[r][key] \in Nat
    BY <1>5, <1>6, <2>1, <2>2, <2>3
  <2> QED BY <2>2, <2>3, <2>4
<1>9. ASSUME NEW r \in Registers, NEW kind \in Kinds, UsesAs(instr, r, kind)
       PROVE  <<kind, ip>> \in DOMAIN uses[r] /\ uses[r][<<kind, ip>>] = 0
  <2>1. CASE kind = "w" /\ r \in instr.dsts
    BY <1>1, <1>5, <1>6, <2>1
  <2>2. CASE kind = "r" /\ r \in instr.srcs
    BY <1>6, <2>2
  <2>3. CASE kind = "g" /\ r \in instr.pred
    BY <1>5, <1>6, <2>3
  <2> QED BY <1>9, <2>1, <2>2, <2>3 DEF UsesAs
<1> QED BY <1>7, <1>8, <1>9 DEF uses

(* The state after an instruction.                                         *)
LEMMA ProcessIs ==
    ASSUME NEW code, NEW deps, NEW f, f = Fields(f)
    PROVE  LET g == ProcessInstr(code, deps, f)
               start == StartOf(code, deps, f)
           IN  /\ g = Fields(g)
               /\ g.ins = f.ins /\ g.out = f.out /\ g.next = f.next /\ g.worklist = f.worklist
               /\ g.block = f.block /\ g.last = f.last /\ g.from = f.from /\ g.joins = f.joins
               /\ g.at = f.at - 1 /\ g.cycle = start
               /\ g.cycles = [f.cycles EXCEPT ![f.at] = start]
               /\ g.uses = NewUses(code, f)
               /\ g.bars = [bar \in DOMAIN f.bars |->
                              IF bar \in deps[f.at].wait THEN start ELSE f.bars[bar]]
<1> DEFINE bars == [bar \in DOMAIN f.bars |->
                      IF bar \in deps[f.at].wait THEN StartOf(code, deps, f) ELSE f.bars[bar]]
<1>1. ProcessInstr(code, deps, f) =
        [f EXCEPT !.uses = NewUses(code, f), !.cycle = StartOf(code, deps, f),
                  !.cycles[f.at] = StartOf(code, deps, f), !.bars = bars, !.at = f.at - 1]
  BY DEF ProcessInstr, NewUses, WrittenUses, StartOf
<1> HIDE DEF bars
<1>2. ProcessInstr(code, deps, f) =
        [ins |-> f.ins, out |-> f.out, cycles |-> [f.cycles EXCEPT ![f.at] = StartOf(code, deps, f)],
         next |-> f.next, worklist |-> f.worklist, block |-> f.block, last |-> f.last,
         at |-> f.at - 1, cycle |-> StartOf(code, deps, f), uses |-> NewUses(code, f),
         bars |-> bars, from |-> f.from, joins |-> f.joins]
  BY <1>1 DEF Fields
<1> HIDE DEF bars
<1> QED BY <1>2 DEF Fields, bars

(* Blocks have no instruction in common.                                   *)
LEMMA BlocksDisjoint ==
    ASSUME NEW S, NEW code \in Seq(S), NEW labels,
           NEW a \in Starts(code, labels), NEW b \in Starts(code, labels), a # b,
           NEW k \in a .. BlockEnd(code, labels, a)
    PROVE  k \notin b .. BlockEnd(code, labels, b)
<1> DEFINE endA == BlockEnd(code, labels, a)
           endB == BlockEnd(code, labels, b)
<1>1. a \in 1 .. Len(code) /\ b \in 1 .. Len(code) /\ Len(code) \in Nat
  BY DEF Starts
<1>2. /\ endA \in a .. Len(code)
      /\ \A x \in a + 1 .. endA : x \notin Starts(code, labels)
  BY <1>1, BlocksAre
<1>3. /\ endB \in b .. Len(code)
      /\ \A x \in b + 1 .. endB : x \notin Starts(code, labels)
  BY <1>1, BlocksAre
<1>4. b \notin a + 1 .. endA /\ a \notin b + 1 .. endB
  BY <1>2, <1>3
<1> HIDE DEF endA, endB
<1> QED BY <1>1, <1>2, <1>3, <1>4 DEF endA, endB

(* What does not change a block's cycles and uses leaves it finished.      *)
LEMMA SameBlock ==
    ASSUME NEW code, NEW labels, NEW deps, NEW f, NEW g, NEW b, Finished(code, labels, deps, f, b),
           g.ins[b] = f.ins[b], g.out[b] = f.out[b],
           b \in Int, BlockEnd(code, labels, b) \in Int, b <= BlockEnd(code, labels, b),
           \A k \in b .. BlockEnd(code, labels, b) : g.cycles[k] = f.cycles[k]
    PROVE  Finished(code, labels, deps, g, b)
<1> DEFINE end == BlockEnd(code, labels, b)
<1>1. ASSUME NEW i \in b .. end
      PROVE  Spaced(code, deps, g.cycles, i, end) /\ Covers(code, g.cycles, g.out[b], i, end)
  <2>1. g.cycles[i] = f.cycles[i] /\ \A j \in i + 1 .. end : g.cycles[j] = f.cycles[j]
    BY <1>1
  <2>2. Spaced(code, deps, f.cycles, i, end) /\ Covers(code, f.cycles, f.out[b], i, end)
    BY DEF Finished
  <2> HIDE DEF end
  <2>3. Spaced(code, deps, g.cycles, i, end)
    BY <2>1, <2>2 DEF Spaced
  <2>4. Covers(code, g.cycles, g.out[b], i, end)
    BY <2>1, <2>2 DEF Covers
  <2> QED BY <2>3, <2>4
<1>2. Exposes(code, g.cycles, g.ins[b], g.out[b], b, end)
  <2>1. Exposes(code, f.cycles, f.ins[b], f.out[b], b, end)
    BY DEF Finished
  <2>2. \A k \in b .. end : g.cycles[k] = f.cycles[k]
    OBVIOUS
  <2>3. g.cycles[b] = f.cycles[b]
    BY <2>2
  <2> HIDE DEF end
  <2> QED BY <2>1, <2>2, <2>3 DEF Exposes
<1> QED BY <1>1, <1>2 DEF Finished

-----------------------------------------------------------------------------
(* A visit, instruction by instruction.                                    *)
LEMMA InstrReached ==
    ASSUME NEW code, NEW labels, NEW bars, NEW deps, NEW f, IsCode(code, bars, deps),
           FlowTyped(code, labels, bars, f), f.block # 0, Visiting(code, labels, deps, f),
           f.at >= f.block
    PROVE  Visiting(code, labels, deps, ProcessInstr(code, deps, f))
<1> DEFINE start == StartOf(code, deps, f)
           ip == f.at
           instr == code[f.at]
           end == BlockEnd(code, labels, f.block)
           out == f.out[f.block]
<1>1. /\ f.block \in 1 .. Len(code) /\ f.block \in Starts(code, labels)
      /\ end \in f.block .. Len(code) /\ f.last = end
      /\ ip \in f.block .. end /\ Len(code) \in Nat
      /\ f.cycle \in Nat
      /\ \A k \in ip + 1 .. end : f.cycles[k] \in Nat /\ f.cycles[k] <= f.cycle
      /\ \A r \in Registers : f.uses[r] \in [DOMAIN f.uses[r] -> Nat]
  <2>1. /\ f.block \in 1 .. Len(code) /\ f.block \in Starts(code, labels)
        /\ f.last \in f.block .. Len(code) /\ f.last = BlockEnd(code, labels, f.block)
        /\ f.at \in f.block - 1 .. f.last
        /\ f.cycle \in Nat
        /\ \A k \in f.at + 1 .. f.last : f.cycles[k] \in Nat /\ f.cycles[k] <= f.cycle
        /\ \A r \in Registers : f.uses[r] \in [DOMAIN f.uses[r] -> Nat]
    BY VisitIs
  <2>2. Len(code) \in Nat
    BY DEF IsCode
  <2>3. f.at \in f.block .. f.last
    BY <2>1
  <2> QED BY <2>1, <2>2, <2>3
<1>2. /\ start \in Nat /\ start > f.cycle
      /\ \A bar \in {deps[ip].rd, deps[ip].wr} \ {0} : start >= f.bars[bar] + SignalLatency
      /\ \A r \in Registers : \A key \in DOMAIN f.uses[r] :
            /\ start + f.uses[r][key] >= HazardLatency(instr, r, key[1])
            /\ key[2] \in ip + 1 .. f.last =>
                   start >= f.cycles[key[2]] + HazardLatency(instr, r, key[1])
  BY StartIs
<1> DEFINE g == ProcessInstr(code, deps, f)
<1>3. f = Fields(f) /\ f.cycles \in [1 .. Len(code) -> Nat] /\ IsUses(out) /\ f.bars \in [bars -> Nat]
  BY <1>1 DEF FlowTyped, IsCode
<1>4. /\ g.out = f.out /\ g.block = f.block /\ g.last = f.last
      /\ g.at = ip - 1 /\ g.cycle = start
      /\ g.cycles = [f.cycles EXCEPT ![ip] = start]
      /\ g.uses = NewUses(code, f)
      /\ g.bars = [bar \in DOMAIN f.bars |-> IF bar \in deps[ip].wait THEN start ELSE f.bars[bar]]
  <2>1. f = Fields(f)
    BY <1>3
  <2> QED BY ONLY <2>1, ProcessIs
<1>5. IsUses(f.uses)
  BY DEF Visiting
<1>6. /\ IsUses(NewUses(code, f))
      /\ \A r \in Registers \ instr.dsts : \A key \in DOMAIN f.uses[r] :
            key \in DOMAIN NewUses(code, f)[r] /\ NewUses(code, f)[r][key] <= f.uses[r][key]
      /\ \A r \in Registers : \A kind \in Kinds :
            UsesAs(instr, r, kind) => /\ <<kind, ip>> \in DOMAIN NewUses(code, f)[r]
                                      /\ NewUses(code, f)[r][<<kind, ip>>] = 0
  BY <1>5, NewUsesAre
<1>7. \A k \in ip + 1 .. end : Reached(code, deps, f, out, end, k)
  BY DEF Visiting
<1>8. PassesThrough(code, f, out, end)
  BY DEF Visiting
<1>9. \A bar \in DOMAIN f.bars : f.bars[bar] <= f.cycle /\ f.bars[bar] \in Nat
  BY <1>3 DEF Visiting
<1> HIDE DEF g, start, instr, end, out
<1>10. /\ g.cycles[ip] = start /\ g.cycles \in [1 .. Len(code) -> Nat]
       /\ \A k \in ip + 1 .. end : g.cycles[k] = f.cycles[k]
  BY <1>1, <1>2, <1>3, <1>4
<1>11. \A r \in Registers : \A key \in DOMAIN g.uses[r] : g.uses[r][key] \in Nat
  BY <1>4, <1>6 DEF IsUses
<1>12. ip - 1 \in Int /\ (ip - 1) + 1 = ip
  BY <1>1
<1>13. \A k \in 1 .. Len(deps) :
           /\ deps[k].wait \subseteq bars
           /\ deps[k].rd \in bars \union {0} /\ deps[k].wr \in bars \union {0}
  <2> DEFINE D == [wait : SUBSET bars, rd : bars \union {0}, wr : bars \union {0}]
  <2>1. deps \in Seq(D)
    BY DEF IsCode
  <2> HIDE DEF D
  <2>2. \A k \in 1 .. Len(deps) : deps[k] \in D
    BY <2>1
  <2> QED BY <2>2 DEF D
<1>14. /\ deps[ip].wait \subseteq bars
       /\ deps[ip].rd \in bars \union {0} /\ deps[ip].wr \in bars \union {0}
  <2>1. ip \in 1 .. Len(deps)
    BY <1>1 DEF IsCode
  <2> QED BY <1>13, <2>1
(* The instruction itself.                                                 *)
<1>15. Spaced(code, deps, g.cycles, ip, end)
  <2>1. g.cycles[ip] >= 1
    BY <1>1, <1>2, <1>10
  <2>2. ASSUME NEW j \in ip + 1 .. end PROVE g.cycles[ip] > g.cycles[j]
    <3>1. f.cycles[j] \in Nat /\ f.cycles[j] <= f.cycle /\ g.cycles[j] = f.cycles[j]
      BY <1>1, <1>10, <2>2
    <3> QED BY ONLY <1>1, <1>2, <1>10, <3>1
  <2>3. ASSUME NEW j \in ip + 1 .. end, NEW r \in Registers, NEW kind \in Kinds,
               UsesAs(code[j], r, kind), Unwritten(code, r, ip + 1, j - 1)
        PROVE  g.cycles[ip] >= g.cycles[j] + HazardLatency(code[ip], r, kind)
    <3>1. <<kind, j>> \in DOMAIN f.uses[r]
      BY <1>7, <2>3 DEF Reached
    <3>2. <<kind, j>>[1] = kind /\ <<kind, j>>[2] = j
      OBVIOUS
    <3>3. start >= f.cycles[j] + HazardLatency(instr, r, kind)
      BY <1>1, <1>2, <2>3, <3>1, <3>2
    <3> QED BY <1>10, <3>3 DEF instr
  <2>4. ASSUME NEW bar \in {deps[ip].rd, deps[ip].wr} \ {0} PROVE g.cycles[ip] >= SignalLatency
    <3>2. bar \in DOMAIN f.bars
      BY <1>3, <1>14, <2>4
    <3> QED BY <1>2, <1>9, <1>10, <2>4, <3>2 DEF SignalLatency
  <2>5. ASSUME NEW bar \in {deps[ip].rd, deps[ip].wr} \ {0}, NEW j \in ip + 1 .. end, bar \in deps[j].wait
        PROVE  g.cycles[ip] >= g.cycles[j] + SignalLatency
    <3>1. f.bars[bar] >= f.cycles[j]
      BY <1>7, <2>5 DEF Reached
    <3>2. start >= f.bars[bar] + SignalLatency
      BY <1>2, <2>5
    <3>3. f.bars[bar] \in Nat
      BY <1>3, <1>14, <2>5
    <3>4. f.cycles[j] \in Nat /\ g.cycles[j] = f.cycles[j]
      BY <1>1, <1>10, <2>5
    <3> QED BY ONLY <1>2, <1>10, <3>1, <3>2, <3>3, <3>4 DEF SignalLatency
  <2> QED BY <2>1, <2>2, <2>3, <2>4, <2>5 DEF Spaced
<1>16. Covers(code, g.cycles, out, ip, end)
  <2> SUFFICES ASSUME NEW r \in Registers, NEW key \in DOMAIN out[r], Unwritten(code, r, ip + 1, end)
               PROVE  g.cycles[ip] + out[r][key] >= HazardLatency(code[ip], r, key[1])
    BY DEF Covers
  <2>1. key \in DOMAIN f.uses[r] /\ f.uses[r][key] <= out[r][key]
    BY <1>8 DEF PassesThrough
  <2>2. start + f.uses[r][key] >= HazardLatency(instr, r, key[1])
    BY <1>2, <2>1
  <2>3. f.uses[r][key] \in Nat /\ out[r][key] \in Nat
    BY <1>1, <1>3, <2>1 DEF IsUses
  <2>4. HazardLatency(instr, r, key[1]) \in Nat
    BY LatenciesAre DEF LatencyUpperBound
  <2> QED BY <1>2, <1>10, <2>1, <2>2, <2>3, <2>4 DEF instr

(* Those after it.                                                         *)
<1>17. Reached(code, deps, g, out, end, ip)
  <2>1. g.cycles[ip] <= g.cycle
    BY <1>2, <1>4, <1>10
  <2>2. ASSUME NEW r \in Registers, NEW kind \in Kinds, UsesAs(code[ip], r, kind)
        PROVE  <<kind, ip>> \in DOMAIN g.uses[r] /\ g.uses[r][<<kind, ip>>] = 0
    BY <1>4, <1>6, <2>2 DEF instr
  <2>3. ASSUME NEW bar \in deps[ip].wait PROVE g.bars[bar] >= g.cycles[ip]
    <3>1. bar \in DOMAIN f.bars
      BY <1>3, <1>14
    <3>2. g.bars[bar] = start
      BY <1>4, <3>1
    <3> QED BY <1>2, <1>10, <3>2
  <2> QED BY <1>15, <1>16, <2>1, <2>2, <2>3 DEF Reached
<1>18. ASSUME NEW k \in ip + 1 .. end PROVE Reached(code, deps, g, out, end, k)
  <2>1. /\ f.cycles[k] <= f.cycle
        /\ Spaced(code, deps, f.cycles, k, end)
        /\ Covers(code, f.cycles, out, k, end)
        /\ \A r \in Registers : \A kind \in Kinds :
              UsesAs(code[k], r, kind) /\ Unwritten(code, r, ip + 1, k - 1) =>
                  <<kind, k>> \in DOMAIN f.uses[r] /\ f.uses[r][<<kind, k>>] = 0
        /\ \A bar \in deps[k].wait : f.bars[bar] >= f.cycles[k]
    BY <1>7 DEF Reached
  <2>2. g.cycles[k] = f.cycles[k] /\ \A j \in k + 1 .. end : g.cycles[j] = f.cycles[j]
    <3>1. \A j \in k + 1 .. end : j \in ip + 1 .. end
      BY <1>1
    <3> QED BY <1>10, <3>1
  <2>3. g.cycles[k] <= g.cycle
    BY <1>1, <1>2, <1>4, <2>1, <2>2
  <2>4. Spaced(code, deps, g.cycles, k, end) /\ Covers(code, g.cycles, out, k, end)
    <3>1. Spaced(code, deps, g.cycles, k, end)
      BY <2>1, <2>2 DEF Spaced
    <3>2. Covers(code, g.cycles, out, k, end)
      BY <2>1, <2>2 DEF Covers
    <3> QED BY <3>1, <3>2
  <2>5. ASSUME NEW r \in Registers, NEW kind \in Kinds,
               UsesAs(code[k], r, kind), Unwritten(code, r, ip, k - 1)
        PROVE  <<kind, k>> \in DOMAIN g.uses[r] /\ g.uses[r][<<kind, k>>] = 0
    <3>1. r \notin instr.dsts /\ Unwritten(code, r, ip + 1, k - 1)
      BY <1>1, <2>5 DEF Unwritten, instr
    <3>2. <<kind, k>> \in DOMAIN f.uses[r] /\ f.uses[r][<<kind, k>>] = 0
      BY <2>1, <2>5, <3>1
    <3>3. <<kind, k>> \in DOMAIN g.uses[r] /\ g.uses[r][<<kind, k>>] <= 0
      BY <1>4, <1>6, <3>1, <3>2
    <3> QED BY <1>11, <3>3
  <2>6. ASSUME NEW bar \in deps[k].wait PROVE g.bars[bar] >= g.cycles[k]
    <3>1. k \in 1 .. Len(deps)
      BY <1>1 DEF IsCode
    <3>2. bar \in DOMAIN f.bars
      BY <1>3, <1>13, <3>1
    <3>3. g.bars[bar] = IF bar \in deps[ip].wait THEN start ELSE f.bars[bar]
      BY <1>4, <3>2
    <3>4. f.bars[bar] >= f.cycles[k] /\ f.cycles[k] \in Nat /\ f.cycles[k] <= f.cycle
      BY <1>1, <2>1
    <3> QED BY <1>1, <1>2, <2>2, <3>3, <3>4
  <2> QED BY <1>4, <1>12, <2>3, <2>4, <2>5, <2>6 DEF Reached
<1>19. PassesThrough(code, g, out, end)
  <2> SUFFICES ASSUME NEW r \in Registers, NEW key \in DOMAIN out[r], Unwritten(code, r, ip, end)
               PROVE  key \in DOMAIN g.uses[r] /\ g.uses[r][key] <= out[r][key]
    BY <1>4, <1>12 DEF PassesThrough
  <2>1. r \notin instr.dsts /\ Unwritten(code, r, ip + 1, end)
    BY <1>1 DEF Unwritten, instr
  <2>2. key \in DOMAIN f.uses[r] /\ f.uses[r][key] <= out[r][key]
    BY <1>8, <2>1 DEF PassesThrough
  <2>3. key \in DOMAIN g.uses[r] /\ g.uses[r][key] <= f.uses[r][key]
    BY <1>4, <1>6, <2>1, <2>2
  <2>4. g.uses[r][key] \in Nat /\ f.uses[r][key] \in Nat /\ out[r][key] \in Nat
    <3>1. out[r] \in [DOMAIN out[r] -> Nat]
      BY <1>3 DEF IsUses
    <3> QED BY <1>1, <1>11, <2>2, <2>3, <3>1
  <2> QED BY <2>2, <2>3, <2>4
<1>20. ASSUME NEW bar \in DOMAIN g.bars PROVE g.bars[bar] <= g.cycle
  <2>1. g.bars[bar] = start \/ (g.bars[bar] = f.bars[bar] /\ bar \in DOMAIN f.bars)
    BY <1>4
  <2> QED BY <1>1, <1>2, <1>4, <1>9, <2>1
<1>21. \A k \in ip .. end : Reached(code, deps, g, out, end, k)
  <2>1. \A k \in ip .. end : k = ip \/ k \in ip + 1 .. end
    BY <1>1
  <2> QED BY <1>17, <1>18, <2>1
<1>22. /\ g.block = f.block /\ g.last = end /\ g.out[g.block] = out /\ IsUses(g.uses)
       /\ g.at \in g.block - 1 .. end /\ g.at # end /\ g.at + 1 = ip
       /\ BlockEnd(code, labels, g.block) = end
  BY <1>1, <1>4, <1>6 DEF end, out
<1>23. g.cycle = g.cycles[g.at + 1]
  BY <1>4, <1>10, <1>22
<1>24. \A k \in g.at + 1 .. end : Reached(code, deps, g, g.out[g.block], end, k)
  BY <1>21, <1>22
<1> QED
  <2>1. Visiting(code, labels, deps, g)
    BY <1>1, <1>19, <1>20, <1>22, <1>23, <1>24 DEF Visiting
  <2> QED BY <2>1 DEF g

LEMMA InstrKeeps ==
    ASSUME NEW code, NEW labels, NEW bars, NEW deps, NEW f, IsCode(code, bars, deps),
           FlowInv(code, labels, bars, deps, f), f.block # 0, f.at >= f.block
    PROVE  FlowInv(code, labels, bars, deps, ProcessInstr(code, deps, f))
<1> DEFINE g == ProcessInstr(code, deps, f)
           start == StartOf(code, deps, f)
<1>1. FlowTyped(code, labels, bars, f) /\ Visiting(code, labels, deps, f)
  BY DEF FlowInv
<1>2. Visiting(code, labels, deps, g)
  BY <1>1, InstrReached
<1>3. f = Fields(f)
  BY <1>1 DEF FlowTyped
<1>4. /\ g = Fields(g)
      /\ g.ins = f.ins /\ g.out = f.out /\ g.next = f.next /\ g.worklist = f.worklist
      /\ g.block = f.block /\ g.last = f.last /\ g.from = f.from /\ g.joins = f.joins
      /\ g.cycles = [f.cycles EXCEPT ![f.at] = start]
      /\ g.bars = [bar \in DOMAIN f.bars |-> IF bar \in deps[f.at].wait THEN start ELSE f.bars[bar]]
  BY ONLY <1>3, ProcessIs
<1>5. start \in Nat
  BY <1>1, StartIs
<1>6. /\ f.block \in 1 .. Len(code) /\ f.block \in Starts(code, labels)
      /\ f.last \in f.block .. Len(code) /\ f.last = BlockEnd(code, labels, f.block)
      /\ f.at \in f.block - 1 .. f.last
  BY <1>1, VisitIs
<1>7. Len(code) \in Nat /\ DOMAIN code = 1 .. Len(code) /\ code \in Seq(InstructionSet)
  BY DEF IsCode
<1>8. f.at \in f.block .. f.last /\ f.at \in 1 .. Len(code)
  BY <1>6, <1>7
<1> HIDE DEF g, start
<1>9. FlowTyped(code, labels, bars, g)
  <2>1. g.cycles \in [DOMAIN code -> Nat]
    BY <1>1, <1>4, <1>5 DEF FlowTyped
  <2>2. g.bars \in [bars -> Nat]
    BY <1>1, <1>4, <1>5 DEF FlowTyped
  <2>3. /\ g.ins = [b \in Starts(code, labels) |-> g.ins[b]]
        /\ g.out = [b \in Starts(code, labels) |-> g.out[b]]
        /\ \A b \in Starts(code, labels) : IsUses(g.ins[b]) /\ IsUses(g.out[b])
    BY <1>1, <1>4 DEF FlowTyped
  <2>4. /\ g.next \in Starts(code, labels) \union {0}
        /\ g.worklist \in Seq(Starts(code, labels))
        /\ g.joins # {} => g.from \in Starts(code, labels) /\ g.joins \subseteq Preds(code, labels, g.from)
        /\ g.block # 0 => g.joins = {} /\ g.next \in {0, g.block}
    BY <1>1, <1>4 DEF FlowTyped
  <2> QED BY <1>4, <2>1, <2>2, <2>3, <2>4 DEF FlowTyped
<1>10. ASSUME NEW b \in Starts(code, labels), Calm(g, b) PROVE Finished(code, labels, deps, g, b)
  <2>1. Calm(f, b) /\ b # f.block
    BY <1>4, <1>10 DEF Calm
  <2>2. Finished(code, labels, deps, f, b)
    BY <2>1 DEF FlowInv
  <2>3. b \in 1 .. Len(code)
    BY <1>7 DEF Starts
  <2>4. BlockEnd(code, labels, b) \in b .. Len(code)
    BY <1>7, <2>3, BlocksAre
  <2>5. f.at \notin b .. BlockEnd(code, labels, b)
    BY <1>6, <1>7, <1>8, <2>1, BlocksDisjoint
  <2>6. \A k \in b .. BlockEnd(code, labels, b) : g.cycles[k] = f.cycles[k]
    <3>1. \A k \in b .. BlockEnd(code, labels, b) : k \in DOMAIN f.cycles /\ k # f.at
      <4>1. DOMAIN f.cycles = 1 .. Len(code)
        BY <1>1, <1>7 DEF FlowTyped
      <4> QED BY <1>7, <2>3, <2>4, <2>5, <4>1
    <3> QED BY <1>4, <3>1
  <2>7. g.ins[b] = f.ins[b] /\ g.out[b] = f.out[b]
    BY <1>4
  <2>8. b \in Int /\ BlockEnd(code, labels, b) \in Int /\ b <= BlockEnd(code, labels, b)
    BY <1>7, <2>3, <2>4
  <2> QED BY <2>2, <2>6, <2>7, <2>8, SameBlock
<1>11. ASSUME NEW b \in Starts(code, labels), b > g.next, NEW p \in Preds(code, labels, b)
       PROVE  Told(g, b, p) \/ (b = g.from /\ p \in g.joins)
  <2>1. Told(f, b, p) \/ (b = f.from /\ p \in f.joins)
    BY <1>4, <1>11 DEF FlowInv
  <2> QED BY <1>4, <2>1 DEF Told
<1> QED BY <1>2, <1>9, <1>10, <1>11 DEF FlowInv, g

(* Where a visit starts.                                                   *)
LEMMA UnsolvedKeeps ==
    ASSUME NEW code, NEW labels, NEW bars, NEW deps, IsCode(code, bars, deps)
    PROVE  FlowInv(code, labels, bars, deps, Unsolved(code, labels, bars))
<1> DEFINE f == Unsolved(code, labels, bars)
           before == BlockBefore(code, labels, Len(code) + 1)
<1>1. Len(code) \in Nat /\ DOMAIN code = 1 .. Len(code) /\ code \in Seq(InstructionSet)
  BY DEF IsCode
<1>2. /\ before \in Starts(code, labels) \union {0}
      /\ \A b \in Starts(code, labels) : b < Len(code) + 1 => b <= before
  <2>1. Len(code) + 1 \in 1 .. Len(code) + 1
    BY <1>1
  <2> QED BY <1>1, <2>1, BlockBeforeIs
<1>3. \A b \in Starts(code, labels) : b \in 1 .. Len(code) /\ ~(b > before)
  <2>1. Starts(code, labels) \subseteq 1 .. Len(code)
    BY <1>1 DEF Starts
  <2> QED BY <1>1, <1>2, <2>1
<1>4. /\ f = Fields(f) /\ f.next = before /\ f.block = 0 /\ f.joins = {} /\ f.worklist = <<>>
      /\ f.ins = [b \in Starts(code, labels) |-> NoUses]
      /\ f.out = [b \in Starts(code, labels) |-> NoUses]
      /\ f.cycles = [ip \in DOMAIN code |-> 0] /\ f.bars = [bar \in bars |-> 0]
  BY DEF Unsolved, Fields
<1>5. IsUses(NoUses)
  <2>1. ASSUME NEW r \in Registers PROVE NoUses[r] \in [DOMAIN NoUses[r] -> Nat]
    <3>1. NoUses[r] = <<>>
      BY DEF NoUses
    <3> QED BY <3>1
  <2> QED BY <2>1 DEF IsUses, NoUses
<1> HIDE DEF f, before
<1>6. FlowTyped(code, labels, bars, f)
  BY <1>2, <1>4, <1>5 DEF FlowTyped
<1> QED
  <2>1. \A b \in Starts(code, labels) : ~Calm(f, b) /\ ~(b > f.next)
    BY <1>3, <1>4 DEF Calm
  <2> QED BY <1>4, <1>6, <2>1 DEF FlowInv, f

(* The state where a visit starts.                                         *)
LEMMA VisitFields ==
    ASSUME NEW code, NEW labels, NEW f, f = Fields(f), NEW b, NEW worklist
    PROVE  Visit(code, labels, [f EXCEPT !.worklist = worklist], b) =
             [ins |-> f.ins, out |-> f.out, cycles |-> f.cycles, next |-> f.next,
              worklist |-> worklist, block |-> b, last |-> BlockEnd(code, labels, b),
              at |-> BlockEnd(code, labels, b), cycle |-> 0, uses |-> f.out[b],
              bars |-> [bar \in DOMAIN f.bars |-> 0], from |-> f.from, joins |-> f.joins]
<1> DEFINE h == [f EXCEPT !.worklist = worklist]
           end == BlockEnd(code, labels, b)
           bars == [bar \in DOMAIN f.bars |-> 0]
<1>1. h = [ins |-> f.ins, out |-> f.out, cycles |-> f.cycles, next |-> f.next,
           worklist |-> worklist, block |-> f.block, last |-> f.last, at |-> f.at,
           cycle |-> f.cycle, uses |-> f.uses, bars |-> f.bars, from |-> f.from,
           joins |-> f.joins]
  BY DEF Fields
<1>2. h.bars = f.bars /\ h.out = f.out
  BY <1>1
<1>3. Visit(code, labels, h, b) =
        [h EXCEPT !.block = b, !.last = end, !.at = end,
                  !.cycle = 0, !.uses = f.out[b], !.bars = bars]
  BY <1>2 DEF Visit
<1> HIDE DEF h, bars, end
<1> QED BY <1>1, <1>3 DEF h, bars, end

LEMMA EnterKeeps ==
    ASSUME NEW code, NEW labels, NEW bars, NEW deps, NEW f, IsCode(code, bars, deps),
           FlowInv(code, labels, bars, deps, f), Idling(f), ~Solved(f)
    PROVE  FlowInv(code, labels, bars, deps, EnterBlock(code, labels, f))
<1> DEFINE g == EnterBlock(code, labels, f)
           b == IF f.next # 0 THEN f.next ELSE Head(f.worklist)
           worklist == IF f.next # 0 THEN f.worklist ELSE Tail(f.worklist)
           end == BlockEnd(code, labels, b)
<1>1. FlowTyped(code, labels, bars, f)
  BY DEF FlowInv
<1>2. f.block = 0 /\ f.joins = {} /\ (f.next # 0 \/ f.worklist # <<>>)
  BY DEF Idling, Solved
<1>3. f = Fields(f)
  BY <1>1 DEF FlowTyped
<1>4. g = [ins |-> f.ins, out |-> f.out, cycles |-> f.cycles, next |-> f.next, worklist |-> worklist,
           block |-> b, last |-> end, at |-> end, cycle |-> 0, uses |-> f.out[b],
           bars |-> [bar \in DOMAIN f.bars |-> 0], from |-> f.from, joins |-> f.joins]
  <2>1. f.next # 0 => g = Visit(code, labels, f, b)
    BY DEF EnterBlock
  <2>2. f.next # 0 => f = [f EXCEPT !.worklist = worklist]
    BY <1>3 DEF Fields
  <2>3. f.next = 0 => g = Visit(code, labels, [f EXCEPT !.worklist = worklist], b)
    BY DEF EnterBlock
  <2>4. g = Visit(code, labels, [f EXCEPT !.worklist = worklist], b)
    BY <2>1, <2>2, <2>3
  <2> HIDE DEF g, b, worklist
  <2> QED BY <1>3, <2>4, VisitFields
<1>5. Len(code) \in Nat /\ DOMAIN code = 1 .. Len(code) /\ code \in Seq(InstructionSet)
  BY DEF IsCode
<1>6. /\ worklist \in Seq(Starts(code, labels))
      /\ b \in Starts(code, labels)
      /\ f.next \in {0, b}
      /\ \A x : x \in Range(f.worklist) => x \in Range(worklist) \/ x = b
  <2>1. f.next \in Starts(code, labels) \union {0} /\ f.worklist \in Seq(Starts(code, labels))
    BY <1>1 DEF FlowTyped
  <2>2. CASE f.next # 0
    BY <2>1, <2>2
  <2>3. CASE f.next = 0
    <3>1. f.worklist # <<>>
      BY <1>2, <2>3
    <3>2. /\ Tail(f.worklist) \in Seq(Starts(code, labels))
          /\ Head(f.worklist) \in Starts(code, labels)
          /\ Len(Tail(f.worklist)) = Len(f.worklist) - 1
          /\ \A k \in 1 .. Len(f.worklist) - 1 : Tail(f.worklist)[k] = f.worklist[k + 1]
      BY <2>1, <3>1
    <3>3. ASSUME NEW x \in Range(f.worklist) PROVE x \in Range(Tail(f.worklist)) \/ x = Head(f.worklist)
      <4>1. PICK k \in 1 .. Len(f.worklist) : f.worklist[k] = x
        BY <2>1 DEF Range
      <4>2. Len(f.worklist) \in Nat
        BY <2>1
      <4>3. CASE k = 1
        BY <2>1, <3>1, <4>1, <4>3
      <4>4. CASE k # 1
        <5>1. k - 1 \in 1 .. Len(f.worklist) - 1 /\ (k - 1) + 1 = k
          BY <4>2, <4>4
        <5>2. Tail(f.worklist)[k - 1] = x
          BY <3>2, <4>1, <5>1
        <5>3. k - 1 \in DOMAIN Tail(f.worklist)
          <6>1. DOMAIN Tail(f.worklist) = 1 .. Len(Tail(f.worklist))
            BY <3>2
          <6> QED BY <3>2, <5>1, <6>1
        <5> QED BY <5>2, <5>3 DEF Range
      <4> QED BY <4>3, <4>4
    <3> QED BY <2>3, <3>2, <3>3
  <2> QED BY <2>2, <2>3
<1>7. b \in 1 .. Len(code) /\ end \in b .. Len(code)
  <2>1. b \in 1 .. Len(code)
    BY <1>5, <1>6 DEF Starts
  <2> QED BY <1>5, <2>1, BlocksAre
<1> HIDE DEF g, b, worklist
<1>8. g = Fields(g)
  BY <1>4 DEF Fields
<1>9. IsUses(f.out[b])
  BY <1>1, <1>6 DEF FlowTyped
<1>10. FlowTyped(code, labels, bars, g)
  <2>1. g.bars \in [bars -> Nat]
    BY <1>1, <1>4 DEF FlowTyped
  <2>2. g.joins = {} /\ g.next \in {0, g.block} /\ g.next \in Starts(code, labels) \union {0}
    BY <1>2, <1>4, <1>6
  <2>3. /\ g.ins = [x \in Starts(code, labels) |-> g.ins[x]]
        /\ g.out = [x \in Starts(code, labels) |-> g.out[x]]
        /\ \A x \in Starts(code, labels) : IsUses(g.ins[x]) /\ IsUses(g.out[x])
        /\ g.cycles \in [DOMAIN code -> Nat]
    BY <1>1, <1>4 DEF FlowTyped
  <2>4. g.worklist \in Seq(Starts(code, labels))
    BY <1>4, <1>6
  <2> QED BY <1>8, <2>1, <2>2, <2>3, <2>4 DEF FlowTyped
<1>11. Visiting(code, labels, deps, g)
  <2>1. /\ g.block = b /\ g.last = end /\ g.at = end /\ g.cycle = 0
        /\ g.uses = f.out[b] /\ g.out = f.out
        /\ g.bars = [bar \in DOMAIN f.bars |-> 0]
    BY <1>4
  <2>2. end \in b - 1 .. end /\ end + 1 .. end = {}
    BY <1>5, <1>7
  <2>3. PassesThrough(code, g, g.out[g.block], end)
    <3>1. \A r \in Registers : f.out[b][r] \in [DOMAIN f.out[b][r] -> Nat]
      BY <1>9 DEF IsUses
    <3>2. \A n \in Nat : n <= n
      OBVIOUS
    <3> QED BY <2>1, <3>1, <3>2 DEF PassesThrough
  <2>4. \A bar \in DOMAIN g.bars : g.bars[bar] <= g.cycle
    BY <2>1
  <2> HIDE DEF end
  <2>5. BlockEnd(code, labels, g.block) = end
    BY <2>1 DEF end
  <2> QED BY <1>6, <1>9, <2>1, <2>2, <2>3, <2>4, <2>5 DEF Visiting
<1>12. ASSUME NEW x \in Starts(code, labels), Calm(g, x) PROVE Finished(code, labels, deps, g, x)
  <2>1. Calm(f, x)
    <3>1. x > f.next /\ x # b /\ x \notin Range(worklist)
      BY <1>4, <1>12 DEF Calm
    <3>2. x # 0
      BY <1>5 DEF Starts
    <3> QED BY <1>2, <1>6, <3>1, <3>2 DEF Calm
  <2>2. Finished(code, labels, deps, f, x)
    BY <2>1 DEF FlowInv
  <2>3. g.cycles = f.cycles /\ g.ins = f.ins /\ g.out = f.out
    BY <1>4
  <2> QED BY <2>2, <2>3 DEF Finished
<1>13. ASSUME NEW x \in Starts(code, labels), x > g.next, NEW p \in Preds(code, labels, x)
       PROVE  Told(g, x, p) \/ (x = g.from /\ p \in g.joins)
  <2>1. /\ g.next = f.next /\ g.ins = f.ins /\ g.out = f.out
        /\ g.from = f.from /\ g.joins = f.joins
    BY <1>4
  <2>2. Told(f, x, p) \/ (x = f.from /\ p \in f.joins)
    BY <1>13, <2>1 DEF FlowInv
  <2> QED BY <2>1, <2>2 DEF Told
<1> QED BY <1>10, <1>11, <1>12, <1>13 DEF FlowInv, g

-----------------------------------------------------------------------------
(* What a predecessor is told.                                             *)
LEMMA NearestIs ==
    ASSUME NEW uses, NEW other, uses \in [DOMAIN uses -> Nat], other \in [DOMAIN other -> Nat]
    PROVE  LET nearest == Nearest(uses, other) IN
           /\ nearest \in [DOMAIN nearest -> Nat]
           /\ \A key \in DOMAIN uses : key \in DOMAIN nearest /\ nearest[key] <= uses[key]
           /\ \A key \in DOMAIN other : key \in DOMAIN nearest /\ nearest[key] <= other[key]
<1> DEFINE nearest == Nearest(uses, other)
           Both(key) == (IF key \in DOMAIN uses THEN {uses[key]} ELSE {})
                        \union (IF key \in DOMAIN other THEN {other[key]} ELSE {})
<1>1. nearest = [key \in DOMAIN uses \union DOMAIN other |-> Min(Both(key))]
  BY DEF Nearest
<1>2. ASSUME NEW key \in DOMAIN uses \union DOMAIN other
      PROVE  Min(Both(key)) \in Both(key) /\ \A n \in Both(key) : Min(Both(key)) <= n
  <2>1. Both(key) \subseteq Nat /\ Both(key) # {}
    OBVIOUS
  <2> HIDE DEF Both
  <2>2. PICK n \in Both(key) : \A m \in Both(key) : n <= m
    BY <2>1, LeastElement
  <2> QED BY <2>2 DEF Min
<1>3. \A key \in DOMAIN uses \union DOMAIN other :
          /\ Both(key) \subseteq Nat
          /\ key \in DOMAIN uses => uses[key] \in Both(key)
          /\ key \in DOMAIN other => other[key] \in Both(key)
  OBVIOUS
<1> HIDE DEF nearest, Both
<1>4. DOMAIN nearest = DOMAIN uses \union DOMAIN other
  BY <1>1
<1>5. \A key \in DOMAIN nearest : nearest[key] = Min(Both(key)) /\ nearest[key] \in Nat
  BY <1>1, <1>2, <1>3
<1>6. nearest \in [DOMAIN nearest -> Nat]
  BY <1>1, <1>4, <1>5
<1>7. \A key \in DOMAIN uses : key \in DOMAIN nearest /\ nearest[key] <= uses[key]
  BY <1>2, <1>3, <1>4, <1>5
<1>8. \A key \in DOMAIN other : key \in DOMAIN nearest /\ nearest[key] <= other[key]
  BY <1>2, <1>3, <1>4, <1>5
<1> QED BY <1>6, <1>7, <1>8 DEF nearest

LEMMA PushBackIs ==
    ASSUME NEW S, NEW list \in Seq(S), NEW b \in S
    PROVE  /\ PushBack(list, b) \in Seq(S)
           /\ b \in Range(PushBack(list, b))
           /\ Range(list) \subseteq Range(PushBack(list, b))
<1>1. CASE b \in Range(list)
  BY <1>1 DEF PushBack
<1>2. CASE b \notin Range(list)
  <2> DEFINE longer == Append(list, b)
  <2>1. PushBack(list, b) = longer
    BY <1>2 DEF PushBack
  <2>2. /\ longer \in Seq(S) /\ Len(longer) = Len(list) + 1 /\ Len(list) \in Nat
        /\ longer[Len(list) + 1] = b
        /\ \A k \in 1 .. Len(list) : longer[k] = list[k]
    OBVIOUS
  <2> HIDE DEF longer
  <2>3. DOMAIN longer = 1 .. Len(list) + 1 /\ DOMAIN list = 1 .. Len(list)
    BY <2>2
  <2>4. b \in Range(longer)
    <3>1. Len(list) + 1 \in DOMAIN longer
      BY <2>2, <2>3
    <3> QED BY <2>2, <3>1 DEF Range
  <2>5. ASSUME NEW x \in Range(list) PROVE x \in Range(longer)
    <3>1. PICK k \in DOMAIN list : list[k] = x
      BY DEF Range
    <3>2. k \in DOMAIN longer /\ longer[k] = x
      BY <2>2, <2>3, <3>1
    <3> QED BY <3>2 DEF Range
  <2> QED BY <2>1, <2>2, <2>4, <2>5
<1> QED BY <1>1, <1>2

LEMMA JoinKeeps ==
    ASSUME NEW code, NEW labels, NEW bars, NEW deps, NEW f, IsCode(code, bars, deps),
           FlowInv(code, labels, bars, deps, f), f.joins # {}
    PROVE  FlowInv(code, labels, bars, deps, JoinPred(f))
<1> DEFINE g == JoinPred(f)
           pred == Min(f.joins)
           joined == [r \in Registers |-> Nearest(f.out[pred][r], f.ins[f.from][r])]
           worklist == IF pred > f.next THEN PushBack(f.worklist, pred) ELSE f.worklist
           out == [f.out EXCEPT ![pred] = joined]
<1>1. FlowTyped(code, labels, bars, f)
  BY DEF FlowInv
<1>2. /\ f.block = 0 /\ f.from \in Starts(code, labels)
      /\ f.joins \subseteq Preds(code, labels, f.from)
  BY <1>1 DEF FlowTyped
<1>3. f = Fields(f)
  BY <1>1 DEF FlowTyped
<1>4. Len(code) \in Nat /\ DOMAIN code = 1 .. Len(code)
  BY DEF IsCode
<1>5. pred \in f.joins /\ pred \in Starts(code, labels) /\ pred \in Nat
  <2>1. f.joins \subseteq Starts(code, labels) /\ Starts(code, labels) \subseteq Nat
    BY <1>2, <1>4 DEF Preds, Starts
  <2>2. PICK n \in f.joins : \A m \in f.joins : n <= m
    BY <2>1, LeastElement
  <2> QED BY <2>1, <2>2 DEF Min
<1>6. g = [ins |-> f.ins, out |-> out, cycles |-> f.cycles, next |-> f.next, worklist |-> worklist,
           block |-> f.block, last |-> f.last, at |-> f.at, cycle |-> f.cycle, uses |-> f.uses,
           bars |-> f.bars, from |-> f.from, joins |-> f.joins \ {pred}]
  <2>1. g = [f EXCEPT !.out[pred] = joined, !.worklist = worklist, !.joins = @ \ {pred}]
    BY DEF JoinPred
  <2> HIDE DEF g, joined, worklist, pred
  <2> QED BY <1>3, <2>1 DEF Fields
<1>7. /\ f.out = [x \in Starts(code, labels) |-> f.out[x]]
      /\ \A x \in Starts(code, labels) : IsUses(f.ins[x]) /\ IsUses(f.out[x])
      /\ f.worklist \in Seq(Starts(code, labels)) /\ f.next \in Starts(code, labels) \union {0}
  BY <1>1 DEF FlowTyped
<1>8. ASSUME NEW r \in Registers
      PROVE  /\ joined[r] \in [DOMAIN joined[r] -> Nat]
             /\ \A key \in DOMAIN f.out[pred][r] :
                   key \in DOMAIN joined[r] /\ joined[r][key] <= f.out[pred][r][key]
             /\ \A key \in DOMAIN f.ins[f.from][r] :
                   key \in DOMAIN joined[r] /\ joined[r][key] <= f.ins[f.from][r][key]
  <2>1. /\ f.out[pred][r] \in [DOMAIN f.out[pred][r] -> Nat]
        /\ f.ins[f.from][r] \in [DOMAIN f.ins[f.from][r] -> Nat]
    BY <1>2, <1>5, <1>7 DEF IsUses
  <2>2. joined[r] = Nearest(f.out[pred][r], f.ins[f.from][r])
    OBVIOUS
  <2> HIDE DEF joined, pred
  <2> QED BY <2>1, <2>2, NearestIs
<1>9. joined = [r \in Registers |-> joined[r]]
  OBVIOUS
<1>10. /\ worklist \in Seq(Starts(code, labels)) /\ Range(f.worklist) \subseteq Range(worklist)
       /\ pred > f.next => pred \in Range(worklist)
  BY <1>5, <1>7, PushBackIs
<1> HIDE DEF g, joined, worklist, pred
<1>11. out[pred] = joined /\ \A x \in Starts(code, labels) : x # pred => out[x] = f.out[x]
  BY <1>5, <1>7
<1>12. IsUses(joined)
  BY <1>8, <1>9 DEF IsUses
<1>13. out = [x \in Starts(code, labels) |-> out[x]]
  BY <1>7
<1>14. \A x \in Starts(code, labels) : IsUses(out[x])
  BY <1>7, <1>11, <1>12
<1> HIDE DEF out
<1>15. /\ g.ins = f.ins /\ g.out = out /\ g.cycles = f.cycles /\ g.next = f.next
       /\ g.worklist = worklist /\ g.block = f.block /\ g.bars = f.bars /\ g.from = f.from
       /\ g.joins = f.joins \ {pred} /\ g = Fields(g)
  BY <1>6 DEF Fields
<1>16. FlowTyped(code, labels, bars, g)
  <2>1. /\ g.ins = [x \in Starts(code, labels) |-> g.ins[x]]
        /\ g.cycles \in [DOMAIN code -> Nat] /\ g.bars \in [bars -> Nat]
    BY <1>1, <1>15 DEF FlowTyped
  <2>2. /\ g.out = [x \in Starts(code, labels) |-> g.out[x]]
        /\ \A x \in Starts(code, labels) : IsUses(g.ins[x]) /\ IsUses(g.out[x])
    BY <1>7, <1>13, <1>14, <1>15
  <2>3. /\ g.next \in Starts(code, labels) \union {0} /\ g.worklist \in Seq(Starts(code, labels))
        /\ g.joins # {} => g.from \in Starts(code, labels) /\ g.joins \subseteq Preds(code, labels, g.from)
        /\ g.block = 0
    BY <1>2, <1>7, <1>10, <1>15
  <2> QED BY <1>15, <2>1, <2>2, <2>3 DEF FlowTyped
<1>17. ASSUME NEW x \in Starts(code, labels), Calm(g, x) PROVE Finished(code, labels, deps, g, x)
  <2>1. x > f.next /\ x # f.block /\ x \notin Range(worklist)
    BY <1>15, <1>17 DEF Calm
  <2>2. x # pred /\ Calm(f, x)
    BY <1>10, <2>1 DEF Calm
  <2>3. Finished(code, labels, deps, f, x)
    BY <2>2 DEF FlowInv
  <2>4. g.cycles = f.cycles /\ g.ins[x] = f.ins[x] /\ g.out[x] = f.out[x]
    BY <1>11, <1>15, <2>2
  <2> QED BY <2>3, <2>4 DEF Finished
<1>18. ASSUME NEW b \in Starts(code, labels), b > g.next, NEW p \in Preds(code, labels, b)
       PROVE  Told(g, b, p) \/ (b = g.from /\ p \in g.joins)
  <2>1. Told(f, b, p) \/ (b = f.from /\ p \in f.joins)
    BY <1>15, <1>18 DEF FlowInv
  <2>2. p \in Starts(code, labels)
    BY DEF Preds
  <2>3. CASE p # pred
    <3>1. g.out[p] = f.out[p] /\ g.ins = f.ins
      BY <1>11, <1>15, <2>2, <2>3
    <3> QED BY <1>15, <2>1, <2>3, <3>1 DEF Told
  <2>4. CASE p = pred
    <3>1. g.out[p] = joined /\ g.ins = f.ins
      BY <1>11, <1>15, <2>4
    <3>2. ASSUME NEW r \in Registers, NEW key \in DOMAIN f.ins[b][r]
          PROVE  key \in DOMAIN joined[r] /\ joined[r][key] <= f.ins[b][r][key]
      <4>1. CASE Told(f, b, p)
        <5>1. key \in DOMAIN f.out[p][r] /\ f.out[p][r][key] <= f.ins[b][r][key]
          BY <3>2, <4>1 DEF Told
        <5>2. key \in DOMAIN joined[r] /\ joined[r][key] <= f.out[p][r][key]
          BY <1>8, <2>4, <5>1
        <5>3. joined[r][key] \in Nat /\ f.out[p][r][key] \in Nat /\ f.ins[b][r][key] \in Nat
          BY <1>7, <1>8, <2>2, <5>1, <5>2 DEF IsUses
        <5> QED BY <5>1, <5>2, <5>3
      <4>2. CASE b = f.from
        BY <1>8, <3>2, <4>2
      <4> QED BY <2>1, <4>1, <4>2
    <3> QED BY <3>1, <3>2 DEF Told
  <2> QED BY <2>3, <2>4
<1> QED BY <1>2, <1>15, <1>16, <1>17, <1>18 DEF FlowInv, g

-----------------------------------------------------------------------------
(* The end of a visit.                                                     *)
LEMMA AgeIs ==
    ASSUME NEW f, NEW uses, uses \in [DOMAIN uses -> Nat], f.cycle \in Nat,
           \A k \in f.block .. f.last : f.cycles[k] \in Nat /\ f.cycles[k] <= f.cycle
    PROVE  /\ Age(f, uses) \in [DOMAIN Age(f, uses) -> Nat]
           /\ \A key \in DOMAIN uses : Known(Age(f, uses), key, uses[key] + f.cycle)
           /\ \A key \in DOMAIN uses : key[2] \in f.block .. f.last =>
                  Known(Age(f, uses), key, uses[key] + f.cycle - f.cycles[key[2]])
<1> DEFINE Back(key) == IF key[2] \in f.block .. f.last THEN f.cycles[key[2]] ELSE 0
           Executed(key) == uses[key] + f.cycle - Back(key)
           aged == [key \in {key \in DOMAIN uses : Executed(key) <= LatencyUpperBound} |-> Executed(key)]
<1>1. Age(f, uses) = aged
  BY DEF Age
<1>2. ASSUME NEW key \in DOMAIN uses
      PROVE  /\ uses[key] \in Nat /\ Back(key) \in Nat /\ Back(key) <= f.cycle
             /\ key[2] \in f.block .. f.last => Back(key) = f.cycles[key[2]]
  OBVIOUS
<1> HIDE DEF Back
<1>3. \A key \in DOMAIN uses : Executed(key) \in Nat /\ Executed(key) <= uses[key] + f.cycle
  BY <1>2
<1>4. aged \in [DOMAIN aged -> Nat]
  BY <1>3
<1>5. \A key \in DOMAIN uses : Executed(key) <= LatencyUpperBound =>
          key \in DOMAIN aged /\ aged[key] = Executed(key)
  OBVIOUS
<1> HIDE DEF aged
<1>6. ASSUME NEW key \in DOMAIN uses, NEW distance \in Int, Executed(key) <= distance
      PROVE  Known(aged, key, distance)
  <2>1. ASSUME distance <= LatencyUpperBound PROVE key \in DOMAIN aged /\ aged[key] <= distance
    <3>1. Executed(key) <= LatencyUpperBound
      BY <1>3, <1>6, <2>1 DEF LatencyUpperBound
    <3>2. key \in DOMAIN aged /\ aged[key] = Executed(key)
      BY <1>5, <3>1
    <3> QED BY <1>6, <3>2
  <2> QED BY <2>1 DEF Known
<1>7. \A key \in DOMAIN uses : Known(aged, key, uses[key] + f.cycle)
  <2> TAKE key \in DOMAIN uses
  <2>1. uses[key] + f.cycle \in Int /\ Executed(key) <= uses[key] + f.cycle
    BY <1>2, <1>3
  <2> QED BY <1>6, <2>1
<1>8. ASSUME NEW key \in DOMAIN uses, key[2] \in f.block .. f.last
      PROVE  Known(aged, key, uses[key] + f.cycle - f.cycles[key[2]])
  <2>1. Executed(key) = uses[key] + f.cycle - f.cycles[key[2]]
    BY <1>2, <1>8
  <2>2. Executed(key) \in Nat
    BY <1>3
  <2> HIDE DEF Executed
  <2>3. Known(aged, key, Executed(key))
    BY <1>6, <2>2
  <2> QED BY <2>1, <2>3
<1> QED BY <1>1, <1>4, <1>7, <1>8

LEMMA LeaveKeeps ==
    ASSUME NEW code, NEW labels, NEW bars, NEW deps, NEW f, IsCode(code, bars, deps),
           FlowInv(code, labels, bars, deps, f), f.block # 0, f.at < f.block
    PROVE  FlowInv(code, labels, bars, deps, LeaveBlock(code, labels, f))
<1> DEFINE g == LeaveBlock(code, labels, f)
           b == f.block
           end == BlockEnd(code, labels, b)
           out == f.out[b]
           aged == [r \in Registers |-> Age(f, f.uses[r])]
           next == IF f.next = b THEN BlockBefore(code, labels, b) ELSE f.next
           joins == IF f.next = b \/ aged # f.ins[b] THEN Preds(code, labels, b) ELSE {}
           ins == [f.ins EXCEPT ![b] = aged]
<1>1. FlowTyped(code, labels, bars, f) /\ Visiting(code, labels, deps, f)
  BY DEF FlowInv
<1>2. Len(code) \in Nat /\ DOMAIN code = 1 .. Len(code) /\ code \in Seq(InstructionSet)
  BY DEF IsCode
<1>3. f = Fields(f)
  BY <1>1 DEF FlowTyped
<1>4. g = [ins |-> ins, out |-> f.out, cycles |-> f.cycles, next |-> next, worklist |-> f.worklist,
           block |-> 0, last |-> f.last, at |-> f.at, cycle |-> f.cycle, uses |-> f.uses,
           bars |-> f.bars, from |-> b, joins |-> joins]
  <2>1. g = [f EXCEPT !.ins[b] = aged, !.next = next, !.block = 0, !.from = b, !.joins = joins]
    BY DEF LeaveBlock
  <2> HIDE DEF g, aged, next, joins
  <2> QED BY <1>3, <2>1 DEF Fields
<1>5. /\ b \in 1 .. Len(code) /\ b \in Starts(code, labels)
      /\ f.last \in b .. Len(code) /\ f.last = end
      /\ f.at \in b - 1 .. f.last
      /\ f.cycle \in Nat
      /\ \A k \in f.at + 1 .. f.last : f.cycles[k] \in Nat /\ f.cycles[k] <= f.cycle
      /\ \A r \in Registers : f.uses[r] \in [DOMAIN f.uses[r] -> Nat]
  BY <1>1, VisitIs
<1>6. f.at = b - 1 /\ f.at + 1 = b /\ f.at # end
  BY <1>2, <1>5
<1>7. /\ f.cycle = f.cycles[b]
      /\ \A i \in b .. end : Reached(code, deps, f, out, end, i)
      /\ PassesThrough(code, f, out, end)
  BY <1>1, <1>6 DEF Visiting
<1>8. /\ f.joins = {} /\ f.next \in {0, b}
      /\ f.next \in Starts(code, labels) \union {0}
      /\ f.ins = [x \in Starts(code, labels) |-> f.ins[x]]
      /\ \A x \in Starts(code, labels) : IsUses(f.ins[x]) /\ IsUses(f.out[x])
  BY <1>1 DEF FlowTyped
<1>9. \A k \in f.block .. f.last : f.cycles[k] \in Nat /\ f.cycles[k] <= f.cycle
  BY <1>5, <1>6
<1>10. ASSUME NEW r \in Registers
       PROVE  /\ aged[r] \in [DOMAIN aged[r] -> Nat]
              /\ \A key \in DOMAIN f.uses[r] : Known(aged[r], key, f.uses[r][key] + f.cycle)
              /\ \A key \in DOMAIN f.uses[r] : key[2] \in f.block .. f.last =>
                    Known(aged[r], key, f.uses[r][key] + f.cycle - f.cycles[key[2]])
  <2>1. aged[r] = Age(f, f.uses[r])
    OBVIOUS
  <2> HIDE DEF aged, b, end
  <2> QED BY <1>5, <1>9, <2>1, AgeIs
<1>11. aged = [r \in Registers |-> aged[r]]
  OBVIOUS
<1>12. /\ next \in Starts(code, labels) \union {0}
       /\ \A x \in Starts(code, labels) : x > next /\ x # b => x > f.next
  <2>1. CASE f.next = b
    <3>1. b \in 1 .. Len(code) + 1
      BY <1>2, <1>5
    <3>2. /\ BlockBefore(code, labels, b) \in Starts(code, labels) \union {0}
          /\ \A x \in Starts(code, labels) : x < b => x <= BlockBefore(code, labels, b)
      BY <1>2, <3>1, BlockBeforeIs
    <3>3. next = BlockBefore(code, labels, b)
      BY <2>1
    <3>4. \A x \in Starts(code, labels) \union {0} : x \in Int
      BY <1>2 DEF Starts
    <3> QED BY <1>5, <2>1, <3>2, <3>3, <3>4
  <2>2. CASE f.next # b
    <3>1. next = f.next
      BY <2>2
    <3> QED BY <1>8, <3>1
  <2> QED BY <2>1, <2>2
<1>13. /\ joins \subseteq Preds(code, labels, b)
       /\ joins = Preds(code, labels, b) \/ (f.next = 0 /\ aged = f.ins[b] /\ joins = {})
  BY <1>8
<1>14. ins[b] = aged /\ \A x \in Starts(code, labels) : x # b => ins[x] = f.ins[x]
  BY <1>5, <1>8
<1>15. ins = [x \in Starts(code, labels) |-> ins[x]]
  BY <1>8
<1>16. IsUses(aged)
  BY <1>10, <1>11 DEF IsUses
<1> HIDE DEF g, aged, next, joins, ins
<1>17. /\ g.ins = ins /\ g.out = f.out /\ g.cycles = f.cycles /\ g.next = next
       /\ g.worklist = f.worklist /\ g.block = 0 /\ g.bars = f.bars /\ g.from = b
       /\ g.joins = joins /\ g = Fields(g)
  BY <1>4 DEF Fields
<1>18. FlowTyped(code, labels, bars, g)
  <2>1. /\ g.out = [x \in Starts(code, labels) |-> g.out[x]]
        /\ g.cycles \in [DOMAIN code -> Nat] /\ g.bars \in [bars -> Nat]
        /\ g.worklist \in Seq(Starts(code, labels))
    BY <1>1, <1>17 DEF FlowTyped
  <2>2. /\ g.ins = [x \in Starts(code, labels) |-> g.ins[x]]
        /\ \A x \in Starts(code, labels) : IsUses(g.ins[x]) /\ IsUses(g.out[x])
    BY <1>8, <1>14, <1>15, <1>16, <1>17
  <2>3. /\ g.next \in Starts(code, labels) \union {0} /\ g.block = 0
        /\ g.joins # {} => g.from \in Starts(code, labels) /\ g.joins \subseteq Preds(code, labels, g.from)
    BY <1>5, <1>12, <1>13, <1>17
  <2> QED BY <1>17, <2>1, <2>2, <2>3 DEF FlowTyped
<1>19. Finished(code, labels, deps, g, b)
  <2>1. ASSUME NEW r \in Registers, NEW j \in b .. end, NEW kind \in Kinds,
               UsesAs(code[j], r, kind), Unwritten(code, r, b, j - 1)
        PROVE  Known(aged[r], <<kind, j>>, f.cycles[b] - f.cycles[j])
    <3>1. <<kind, j>> \in DOMAIN f.uses[r] /\ f.uses[r][<<kind, j>>] = 0
      BY <1>6, <1>7, <2>1 DEF Reached
    <3>2. <<kind, j>>[2] = j /\ j \in f.block .. f.last
      BY <1>5
    <3>3. Known(aged[r], <<kind, j>>, f.uses[r][<<kind, j>>] + f.cycle - f.cycles[<<kind, j>>[2]])
      BY <1>10, <3>1, <3>2
    <3>4. f.uses[r][<<kind, j>>] + f.cycle - f.cycles[<<kind, j>>[2]] = f.cycles[b] - f.cycles[j]
      <4>1. f.cycles[j] \in Nat
        BY <1>9, <3>2
      <4> QED BY <1>5, <1>7, <3>1, <3>2, <4>1
    <3> QED BY <3>3, <3>4
  <2>2. ASSUME NEW r \in Registers, NEW key \in DOMAIN out[r], Unwritten(code, r, b, end)
        PROVE  Known(aged[r], key, out[r][key] + f.cycles[b])
    <3>1. key \in DOMAIN f.uses[r] /\ f.uses[r][key] <= out[r][key]
      BY <1>6, <1>7, <2>2 DEF PassesThrough
    <3>2. Known(aged[r], key, f.uses[r][key] + f.cycle)
      BY <1>10, <3>1
    <3>3. f.uses[r][key] \in Nat /\ out[r][key] \in Nat
      BY <1>5, <1>8, <2>2, <3>1 DEF IsUses
    <3>4. aged[r] \in [DOMAIN aged[r] -> Nat]
      BY <1>10
    <3>5. ASSUME out[r][key] + f.cycles[b] <= LatencyUpperBound
          PROVE  key \in DOMAIN aged[r] /\ aged[r][key] <= out[r][key] + f.cycles[b]
      <4>1. f.uses[r][key] + f.cycle <= LatencyUpperBound
        BY <1>5, <1>7, <3>1, <3>3, <3>5 DEF LatencyUpperBound
      <4>2. key \in DOMAIN aged[r] /\ aged[r][key] <= f.uses[r][key] + f.cycle
        BY <3>2, <4>1 DEF Known
      <4>3. aged[r][key] \in Nat
        BY <3>4, <4>2
      <4> QED BY <1>5, <1>7, <3>1, <3>3, <4>2, <4>3
    <3> QED BY <3>5 DEF Known
  <2>3. Exposes(code, f.cycles, aged, out, b, end)
    BY <2>1, <2>2 DEF Exposes
  <2>4. \A i \in b .. end : Spaced(code, deps, f.cycles, i, end) /\ Covers(code, f.cycles, out, i, end)
    BY <1>7 DEF Reached
  <2> QED BY <1>14, <1>17, <2>3, <2>4 DEF Finished
<1>20. ASSUME NEW x \in Starts(code, labels), Calm(g, x) PROVE Finished(code, labels, deps, g, x)
  <2>1. CASE x = b
    BY <1>19, <2>1
  <2>2. CASE x # b
    <3>1. Calm(f, x)
      BY <1>12, <1>17, <1>20, <2>2 DEF Calm
    <3>2. Finished(code, labels, deps, f, x)
      BY <3>1 DEF FlowInv
    <3>3. g.cycles = f.cycles /\ g.ins[x] = f.ins[x] /\ g.out[x] = f.out[x]
      BY <1>14, <1>17, <2>2
    <3> QED BY <3>2, <3>3 DEF Finished
  <2> QED BY <2>1, <2>2
<1>21. ASSUME NEW x \in Starts(code, labels), x > g.next, NEW p \in Preds(code, labels, x)
       PROVE  Told(g, x, p) \/ (x = g.from /\ p \in g.joins)
  <2>1. CASE x = b /\ joins = Preds(code, labels, b)
    BY <1>17, <1>21, <2>1
  <2>2. CASE x = b /\ f.next = 0 /\ aged = f.ins[b]
    <3>1. x > f.next
      BY <1>5, <2>2
    <3>2. Told(f, x, p)
      BY <1>8, <1>21, <3>1 DEF FlowInv
    <3> QED BY <1>14, <1>17, <2>2, <3>2 DEF Told
  <2>3. CASE x # b
    <3>1. x > f.next
      BY <1>12, <1>17, <1>21, <2>3
    <3>2. Told(f, x, p)
      BY <1>8, <1>21, <3>1 DEF FlowInv
    <3> QED BY <1>14, <1>17, <2>3, <3>2 DEF Told
  <2> QED BY <1>13, <2>1, <2>2, <2>3
<1> QED BY <1>17, <1>18, <1>20, <1>21 DEF FlowInv, g

-----------------------------------------------------------------------------
(* What the delays add up to.                                              *)
Settled(code, labels, bars, deps, f) ==
    IsCode(code, bars, deps) /\ FlowInv(code, labels, bars, deps, f) /\ Solved(f)

BlockOf(code, labels, ip) == BlockBefore(code, labels, ip + 1)

Cost(code, labels, f, first, last) == SumFunctionOnSet(DelaysOf(code, labels, f), first .. last)

LEMMA BlockOfIs ==
    ASSUME NEW S, NEW code \in Seq(S), NEW labels, NEW ip \in 1 .. Len(code)
    PROVE  LET b == BlockOf(code, labels, ip) IN
           /\ b \in Starts(code, labels) /\ b \in 1 .. ip
           /\ ip <= BlockEnd(code, labels, b)
           /\ BlockEnd(code, labels, b) = BlockEnd(code, labels, ip)
           /\ \A x \in Starts(code, labels) : x <= ip => x <= b
<1> DEFINE b == BlockOf(code, labels, ip)
           end == BlockEnd(code, labels, b)
<1>1. Len(code) \in Nat /\ DOMAIN code = 1 .. Len(code)
  OBVIOUS
<1>2. ip + 1 \in 1 .. Len(code) + 1
  BY <1>1
<1>3. /\ b \in Starts(code, labels) \union {0}
      /\ b < ip + 1
      /\ \A x \in Starts(code, labels) : x < ip + 1 => x <= b
  BY <1>2, BlockBeforeIs DEF BlockOf
<1> HIDE DEF b
<1>4. Starts(code, labels) \subseteq 1 .. Len(code)
  BY <1>1 DEF Starts
<1>5. \A x \in Starts(code, labels) : x <= ip => x <= b
  BY <1>1, <1>3, <1>4
<1>6. 1 \in Starts(code, labels)
  BY <1>1 DEF Starts, IsStart
<1>7. b \in Starts(code, labels) /\ b \in 1 .. ip /\ b \in 1 .. Len(code)
  BY <1>1, <1>3, <1>4, <1>5, <1>6
<1>8. end \in b .. Len(code) /\ (end < Len(code) => end + 1 \in Starts(code, labels))
  BY <1>7, BlocksAre
<1> HIDE DEF end
<1>9. ip <= end
  <2> SUFFICES ASSUME end < ip PROVE FALSE
    BY <1>1, <1>8
  <2>1. end + 1 \in Starts(code, labels) /\ end + 1 <= ip
    BY <1>1, <1>8
  <2>2. end + 1 <= b
    BY <1>5, <2>1
  <2> QED BY <1>7, <1>8, <2>2
<1>10. BlockEnd(code, labels, ip) = end
  <2>1. ip \in b .. BlockEnd(code, labels, b)
    BY <1>1, <1>7, <1>8, <1>9 DEF end
  <2> QED BY <1>7, <2>1, BlockEndIs DEF end
<1> QED BY <1>5, <1>7, <1>9, <1>10 DEF b, end

LEMMA SettledIs ==
    ASSUME NEW code, NEW labels, NEW bars, NEW deps, NEW f, Settled(code, labels, bars, deps, f)
    PROVE  /\ code \in Seq(InstructionSet) /\ Len(code) \in Nat /\ DOMAIN code = 1 .. Len(code)
           /\ f.cycles \in [1 .. Len(code) -> Nat]
           /\ \A b \in Starts(code, labels) :
                 /\ b \in 1 .. Len(code)
                 /\ IsUses(f.ins[b]) /\ IsUses(f.out[b])
                 /\ Finished(code, labels, deps, f, b)
                 /\ \A p \in Preds(code, labels, b) : Told(f, b, p)
<1>1. /\ IsCode(code, bars, deps) /\ FlowInv(code, labels, bars, deps, f)
      /\ f.block = 0 /\ f.joins = {} /\ f.next = 0 /\ f.worklist = <<>>
  BY DEF Settled, Solved, Idling
<1>2. code \in Seq(InstructionSet) /\ Len(code) \in Nat /\ DOMAIN code = 1 .. Len(code)
  BY <1>1 DEF IsCode
<1>3. f.cycles \in [1 .. Len(code) -> Nat]
  BY <1>1, <1>2 DEF FlowInv, FlowTyped
<1>4. ASSUME NEW b \in Starts(code, labels)
      PROVE  /\ b \in 1 .. Len(code)
             /\ IsUses(f.ins[b]) /\ IsUses(f.out[b])
             /\ Finished(code, labels, deps, f, b)
             /\ \A p \in Preds(code, labels, b) : Told(f, b, p)
  <2>1. b \in 1 .. Len(code) /\ b > f.next /\ b # f.block
    BY <1>1, <1>2 DEF Starts
  <2>2. b \notin Range(f.worklist)
    BY <1>1 DEF Range
  <2>3. Finished(code, labels, deps, f, b)
    BY <1>1, <2>1, <2>2 DEF FlowInv, Calm
  <2>4. \A p \in Preds(code, labels, b) : Told(f, b, p)
    BY <1>1, <2>1 DEF FlowInv
  <2>5. IsUses(f.ins[b]) /\ IsUses(f.out[b])
    BY <1>1 DEF FlowInv, FlowTyped
  <2> QED BY <2>1, <2>3, <2>4, <2>5
<1> QED BY <1>2, <1>3, <1>4

LEMMA DelaysAre ==
    ASSUME NEW code, NEW labels, NEW bars, NEW deps, NEW f, Settled(code, labels, bars, deps, f),
           NEW ip \in 1 .. Len(code)
    PROVE  LET delay == DelaysOf(code, labels, f)[ip] IN
           /\ delay \in Nat
           /\ ip = BlockEnd(code, labels, ip) => delay >= f.cycles[ip]
           /\ ip # BlockEnd(code, labels, ip) =>
                 ip + 1 \in 1 .. Len(code) /\ delay >= f.cycles[ip] - f.cycles[ip + 1]
<1> DEFINE next == IF ip = BlockEnd(code, labels, ip) THEN 0 ELSE f.cycles[ip + 1]
           gap == f.cycles[ip] - next
<1>1. /\ code \in Seq(InstructionSet) /\ Len(code) \in Nat /\ DOMAIN code = 1 .. Len(code)
      /\ f.cycles \in [1 .. Len(code) -> Nat]
  BY SettledIs
<1>2. BlockEnd(code, labels, ip) \in ip .. Len(code)
  BY <1>1, BlocksAre
<1>3. ip # BlockEnd(code, labels, ip) => ip + 1 \in 1 .. Len(code)
  BY <1>1, <1>2
<1>4. next \in Nat /\ f.cycles[ip] \in Nat
  BY <1>1, <1>3
<1>5. DelaysOf(code, labels, f)[ip] = Max({1, gap})
  BY <1>1 DEF DelaysOf
<1>6. gap \in Int
  BY <1>4
<1> HIDE DEF gap
<1>7. Max({1, gap}) \in Nat /\ Max({1, gap}) >= gap
  <2>1. PICK m \in {1, gap} : \A n \in {1, gap} : m >= n
    BY <1>6
  <2>2. Max({1, gap}) \in {1, gap} /\ \A n \in {1, gap} : Max({1, gap}) >= n
    BY <2>1 DEF Max
  <2> QED BY <1>6, <2>2
<1> QED BY <1>3, <1>4, <1>5, <1>7 DEF gap

LEMMA CostIs ==
    ASSUME NEW code, NEW labels, NEW bars, NEW deps, NEW f, Settled(code, labels, bars, deps, f),
           NEW first \in 1 .. Len(code) + 1, NEW last \in first - 1 .. Len(code)
    PROVE  /\ Cost(code, labels, f, first, last) \in Nat
           /\ first > last => Cost(code, labels, f, first, last) = 0
           /\ \A mid \in first - 1 .. last :
                 Cost(code, labels, f, first, last) =
                     Cost(code, labels, f, first, mid) + Cost(code, labels, f, mid + 1, last)
<1> DEFINE delays == DelaysOf(code, labels, f)
<1>1. Len(code) \in Nat
  BY SettledIs
<1>2. \A ip \in 1 .. Len(code) : delays[ip] \in Nat
  BY DelaysAre
<1> HIDE DEF delays
<1>3. IsFiniteSet(first .. last) /\ \A ip \in first .. last : delays[ip] \in Nat
  <2>1. first \in Int /\ last \in Int
    BY <1>1
  <2>2. IsFiniteSet(first .. last)
    BY <2>1, FS_Interval
  <2>3. \A ip \in first .. last : ip \in 1 .. Len(code)
    BY <1>1
  <2> QED BY <1>2, <2>2, <2>3
<1>4. SumFunctionOnSet(delays, first .. last) \in Nat
  BY <1>3, SumOfNaturals
<1>5. ASSUME first > last PROVE SumFunctionOnSet(delays, first .. last) = 0
  <2>1. first .. last = {}
    BY <1>1, <1>5
  <2> QED BY <2>1, SumOfNone
<1>6. ASSUME NEW mid \in first - 1 .. last
      PROVE  SumFunctionOnSet(delays, first .. last) =
                 SumFunctionOnSet(delays, first .. mid) + SumFunctionOnSet(delays, mid + 1 .. last)
  <2> DEFINE A == first .. mid
             B == mid + 1 .. last
  <2>1. A \cup B = first .. last /\ A \cap B = {}
    BY <1>1
  <2>2. IsFiniteSet(A) /\ IsFiniteSet(B)
    <3>1. first \in Int /\ mid \in Int /\ mid + 1 \in Int /\ last \in Int
      BY <1>1
    <3> QED BY <3>1, FS_Interval
  <2> HIDE DEF A, B
  <2>3. SumFunctionOnSet(delays, A \cup B) = SumFunctionOnSet(delays, A) + SumFunctionOnSet(delays, B)
    BY <1>3, <2>1, <2>2, SumOfDisjoint
  <2> QED BY <2>1, <2>3 DEF A, B
<1> QED BY <1>4, <1>5, <1>6 DEF Cost, delays

(* Within a block the delays add up to at least the cycles between.        *)
LEMMA CostWithin ==
    ASSUME NEW code, NEW labels, NEW bars, NEW deps, NEW f, Settled(code, labels, bars, deps, f),
           NEW i \in 1 .. Len(code)
    PROVE  LET end == BlockEnd(code, labels, i) IN
           /\ \A j \in i .. end : Cost(code, labels, f, i, j - 1) >= f.cycles[i] - f.cycles[j]
           /\ Cost(code, labels, f, i, end) >= f.cycles[i]
<1> DEFINE end == BlockEnd(code, labels, i)
           cost(last) == Cost(code, labels, f, i, last)
           delays == DelaysOf(code, labels, f)
           Short == {j \in i .. end : ~(cost(j - 1) >= f.cycles[i] - f.cycles[j])}
<1>1. /\ code \in Seq(InstructionSet) /\ Len(code) \in Nat /\ DOMAIN code = 1 .. Len(code)
      /\ f.cycles \in [1 .. Len(code) -> Nat]
  BY SettledIs
<1>2. end \in i .. Len(code) /\ \A k \in i .. end : BlockEnd(code, labels, k) = end
  BY <1>1, BlockEndIs
<1>3. ASSUME NEW j \in i .. end
      PROVE  /\ j \in 1 .. Len(code) /\ f.cycles[j] \in Nat /\ f.cycles[i] \in Nat
             /\ cost(j - 1) \in Nat /\ delays[j] \in Nat
             /\ cost(j) = cost(j - 1) + delays[j]
             /\ j = end => delays[j] >= f.cycles[j]
             /\ j # end => delays[j] >= f.cycles[j] - f.cycles[j + 1]
  <2>1. j \in 1 .. Len(code) /\ j \in Int /\ i \in Int
    BY <1>1, <1>2
  <2>2. BlockEnd(code, labels, j) = end
    BY <1>2
  <2>3. /\ delays[j] \in Nat
        /\ j = end => delays[j] >= f.cycles[j]
        /\ j # end => delays[j] >= f.cycles[j] - f.cycles[j + 1]
    BY <2>1, <2>2, DelaysAre
  <2>4. f.cycles[j] \in Nat /\ f.cycles[i] \in Nat
    BY <1>1, <2>1
  <2>5. i \in 1 .. Len(code) + 1 /\ j - 1 \in i - 1 .. Len(code) /\ j \in i - 1 .. Len(code)
    BY <1>1, <1>2, <2>1
  <2>6. cost(j - 1) \in Nat
    BY <2>5, CostIs
  <2>7. cost(j) = cost(j - 1) + Cost(code, labels, f, (j - 1) + 1, j)
    <3>1. j - 1 \in i - 1 .. j
      BY <2>1
    <3> QED BY <2>5, <3>1, CostIs
  <2>8. Cost(code, labels, f, (j - 1) + 1, j) = delays[j]
    <3>1. (j - 1) + 1 .. j = {} \cup {j}
      BY <2>1
    <3> HIDE DEF delays
    <3>2. SumFunctionOnSet(delays, {} \cup {j}) = SumFunctionOnSet(delays, {}) + delays[j]
      <4>1. IsFiniteSet({}) /\ j \notin {}
        BY FS_EmptySet
      <4>2. \A x \in {} \cup {j} : delays[x] \in Nat
        BY <2>3
      <4> QED BY <4>1, <4>2, SumWithOneMore
    <3>3. SumFunctionOnSet(delays, {}) = 0
      BY SumOfNone
    <3>4. SumFunctionOnSet(delays, (j - 1) + 1 .. j) = SumFunctionOnSet(delays, {} \cup {j})
      BY <3>1
    <3>5. SumFunctionOnSet(delays, (j - 1) + 1 .. j) = delays[j]
      BY ONLY <2>3, <3>2, <3>3, <3>4
    <3> QED BY <3>5 DEF Cost, delays
  <2> QED BY <2>1, <2>3, <2>4, <2>6, <2>7, <2>8
<1> HIDE DEF delays
<1>4. cost(i - 1) = 0
  <2>1. i \in 1 .. Len(code) + 1 /\ i - 1 \in i - 1 .. Len(code) /\ i > i - 1
    BY <1>1
  <2> QED BY <2>1, CostIs
<1> HIDE DEF cost, end
<1>5. Short = {}
  <2> SUFFICES ASSUME Short # {} PROVE FALSE
    OBVIOUS
  <2>1. Short \subseteq Nat
    BY <1>1
  <2> HIDE DEF Short
  <2>2. PICK j \in Short : \A k \in Short : j <= k
    BY <2>1, LeastElement
  <2>3. j \in i .. end /\ ~(cost(j - 1) >= f.cycles[i] - f.cycles[j])
    BY DEF Short
  <2>4. j # i
    <3>1. i \in i .. end /\ f.cycles[i] \in Nat
      BY <1>1, <1>2, <1>3
    <3>2. cost(i - 1) >= f.cycles[i] - f.cycles[i]
      BY <1>4, <3>1
    <3> QED BY <2>3, <3>2
  <2> DEFINE k == j - 1
  <2>5. k \in i .. end /\ k # end /\ k + 1 = j /\ k < j
    BY <1>1, <1>2, <2>3, <2>4
  <2>6. k \notin Short
    <3>1. k \in Nat /\ j \in Nat
      BY <1>1, <2>3, <2>5
    <3> HIDE DEF k
    <3>2. ~(j <= k)
      BY <2>5, <3>1
    <3> QED BY <2>2, <3>2
  <2>7. cost(k - 1) >= f.cycles[i] - f.cycles[k]
    BY <2>5, <2>6 DEF Short
  <2>8. /\ f.cycles[k] \in Nat /\ f.cycles[i] \in Nat /\ cost(k - 1) \in Nat /\ delays[k] \in Nat
        /\ cost(k) = cost(k - 1) + delays[k]
        /\ delays[k] >= f.cycles[k] - f.cycles[j]
    BY <1>3, <2>5
  <2>9. f.cycles[j] \in Nat
    BY <1>3, <2>3
  <2>10. cost(k) >= f.cycles[i] - f.cycles[j]
    <3> HIDE DEF k
    <3> QED BY <2>7, <2>8, <2>9
  <2> QED BY <2>3, <2>10
<1>6. cost(end) >= f.cycles[i]
  <2>1. end \in i .. end
    BY <1>1, <1>2
  <2>2. cost(end - 1) >= f.cycles[i] - f.cycles[end]
    BY <1>5, <2>1
  <2>3. /\ f.cycles[end] \in Nat /\ f.cycles[i] \in Nat /\ cost(end - 1) \in Nat /\ delays[end] \in Nat
        /\ cost(end) = cost(end - 1) + delays[end]
        /\ delays[end] >= f.cycles[end]
    BY <1>3, <2>1
  <2> QED BY <2>2, <2>3
<1> QED BY <1>5, <1>6 DEF cost, end

-----------------------------------------------------------------------------
(* Uses are known across blocks.                                           *)
LEMMA KnownFarther ==
    ASSUME NEW uses, NEW key, NEW near \in Int, NEW far \in Int, near <= far, Known(uses, key, near),
           key \in DOMAIN uses => uses[key] \in Nat
    PROVE  Known(uses, key, far)
<1> SUFFICES ASSUME far <= LatencyUpperBound PROVE key \in DOMAIN uses /\ uses[key] <= far
  BY DEF Known
<1>1. near <= LatencyUpperBound
  BY DEF LatencyUpperBound
<1>2. key \in DOMAIN uses /\ uses[key] <= near
  BY <1>1 DEF Known
<1> QED BY <1>2

(* What is known at the start of a block is known before it.               *)
LEMMA KnownBefore ==
    ASSUME NEW code, NEW labels, NEW bars, NEW deps, NEW f, Settled(code, labels, bars, deps, f),
           NEW b \in Starts(code, labels), NEW p \in Preds(code, labels, b),
           NEW r \in Registers, NEW key, NEW distance \in Int, Known(f.ins[b][r], key, distance)
    PROVE  p \in Starts(code, labels) /\ Known(f.out[p][r], key, distance)
<1>1. p \in Starts(code, labels)
  BY DEF Preds
<1>2. Told(f, b, p) /\ IsUses(f.ins[b]) /\ IsUses(f.out[p])
  BY <1>1, SettledIs
<1>3. ASSUME distance <= LatencyUpperBound
      PROVE  key \in DOMAIN f.out[p][r] /\ f.out[p][r][key] <= distance
  <2>1. key \in DOMAIN f.ins[b][r] /\ f.ins[b][r][key] <= distance
    BY <1>3 DEF Known
  <2>2. key \in DOMAIN f.out[p][r] /\ f.out[p][r][key] <= f.ins[b][r][key]
    BY <1>2, <2>1 DEF Told
  <2>3. f.out[p][r][key] \in Nat /\ f.ins[b][r][key] \in Nat
    BY <1>2, <2>1, <2>2 DEF IsUses
  <2> QED BY <2>1, <2>2, <2>3
<1> QED BY <1>1, <1>3 DEF Known

(* What is known at the end of a block that does not write the register is *)
(* known at its start.                                                     *)
LEMMA KnownThrough ==
    ASSUME NEW code, NEW labels, NEW bars, NEW deps, NEW f, Settled(code, labels, bars, deps, f),
           NEW b \in Starts(code, labels),
           NEW r \in Registers, NEW key, NEW distance \in Nat, Known(f.out[b][r], key, distance),
           Unwritten(code, r, b, BlockEnd(code, labels, b))
    PROVE  Known(f.ins[b][r], key, Cost(code, labels, f, b, BlockEnd(code, labels, b)) + distance)
<1> DEFINE end == BlockEnd(code, labels, b)
           cost == Cost(code, labels, f, b, end)
<1>1. /\ code \in Seq(InstructionSet) /\ Len(code) \in Nat
      /\ f.cycles \in [1 .. Len(code) -> Nat]
      /\ b \in 1 .. Len(code) /\ IsUses(f.ins[b]) /\ IsUses(f.out[b])
      /\ Finished(code, labels, deps, f, b)
  BY SettledIs
<1>2. end \in b .. Len(code)
  BY <1>1, BlocksAre
<1>3. cost \in Nat /\ cost >= f.cycles[b] /\ f.cycles[b] \in Nat
  <2>1. b \in 1 .. Len(code) + 1 /\ end \in b - 1 .. Len(code)
    BY <1>1, <1>2
  <2>2. cost \in Nat
    BY <2>1, CostIs
  <2>3. cost >= f.cycles[b]
    BY <1>1, CostWithin
  <2> QED BY <1>1, <2>2, <2>3
<1> HIDE DEF cost
<1>4. CASE distance <= LatencyUpperBound
  <2>1. key \in DOMAIN f.out[b][r] /\ f.out[b][r][key] <= distance
    BY <1>4 DEF Known
  <2>2. Known(f.ins[b][r], key, f.out[b][r][key] + f.cycles[b])
    BY <1>1, <2>1 DEF Finished, Exposes
  <2>3. f.out[b][r][key] \in Nat /\ (key \in DOMAIN f.ins[b][r] => f.ins[b][r][key] \in Nat)
    BY <1>1, <2>1 DEF IsUses
  <2>4. /\ f.out[b][r][key] + f.cycles[b] \in Int /\ cost + distance \in Int
        /\ f.out[b][r][key] + f.cycles[b] <= cost + distance
    BY <1>3, <2>1, <2>3
  <2>5. Known(f.ins[b][r], key, cost + distance)
    BY <2>2, <2>3, <2>4, KnownFarther
  <2> QED BY <2>5 DEF cost
<1>5. CASE ~(distance <= LatencyUpperBound)
  <2>1. ~(cost + distance <= LatencyUpperBound)
    BY <1>3, <1>5 DEF LatencyUpperBound
  <2> QED BY <2>1 DEF Known, cost
<1> QED BY <1>4, <1>5

(* The block before a block is its predecessor.                            *)
LEMMA BlockBeforeIsPred ==
    ASSUME NEW S, NEW code \in Seq(S), NEW labels, NEW ip \in 1 .. Len(code),
           BlockEnd(code, labels, ip) < Len(code)
    PROVE  LET next == BlockEnd(code, labels, ip) + 1 IN
           /\ next \in Starts(code, labels) /\ next \in 1 .. Len(code)
           /\ BlockOf(code, labels, ip) \in Preds(code, labels, next)
<1>1. /\ BlockEnd(code, labels, ip) + 1 \in Starts(code, labels)
  BY BlocksAre
<1>2. /\ BlockOf(code, labels, ip) \in Starts(code, labels)
      /\ BlockEnd(code, labels, BlockOf(code, labels, ip)) = BlockEnd(code, labels, ip)
  BY BlockOfIs
<1>3. Starts(code, labels) \subseteq 1 .. Len(code)
  BY DEF Starts
<1> QED BY <1>1, <1>2, <1>3 DEF Preds

(* The same across any number of blocks.                                   *)
LEMMA KnownAcross ==
    ASSUME NEW code, NEW labels, NEW bars, NEW deps, NEW f, Settled(code, labels, bars, deps, f),
           NEW last \in 1 .. Len(code), BlockEnd(code, labels, last) = last,
           NEW r \in Registers, NEW key, NEW distance \in Nat,
           Known(f.out[BlockOf(code, labels, last)][r], key, distance),
           NEW first \in Starts(code, labels), first <= last, Unwritten(code, r, first, last)
    PROVE  Known(f.ins[first][r], key, Cost(code, labels, f, first, last) + distance)
<1> DEFINE cost(b) == Cost(code, labels, f, b, last)
           Holds(b) == Unwritten(code, r, b, last) => Known(f.ins[b][r], key, cost(b) + distance)
           Bad == {b \in Starts(code, labels) : b <= last /\ ~Holds(b)}
<1>1. /\ code \in Seq(InstructionSet) /\ Len(code) \in Nat
      /\ Starts(code, labels) \subseteq 1 .. Len(code)
  <2>1. code \in Seq(InstructionSet) /\ Len(code) \in Nat /\ DOMAIN code = 1 .. Len(code)
    BY SettledIs
  <2> QED BY <2>1 DEF Starts
<1>2. Bad \subseteq 0 .. Len(code)
  BY <1>1
<1>3. Bad = {}
  <2> SUFFICES ASSUME Bad # {} PROVE FALSE
    OBVIOUS
  <2> HIDE DEF Bad
  <2>1. PICK b \in Bad : \A x \in Bad : x <= b
    BY <1>1, <1>2, GreatestElement
  <2> DEFINE end == BlockEnd(code, labels, b)
             next == end + 1
             own == Cost(code, labels, f, b, end)
  <2>2. /\ b \in Starts(code, labels) /\ b <= last /\ b \in 1 .. Len(code)
        /\ Unwritten(code, r, b, last) /\ ~Known(f.ins[b][r], key, cost(b) + distance)
    <3>1. b \in Starts(code, labels) /\ b <= last /\ ~Holds(b)
      BY <2>1 DEF Bad
    <3> QED BY <1>1, <3>1
  <2>3. end \in b .. Len(code) /\ BlockOf(code, labels, b) = b
    <3>1. end \in b .. Len(code)
      BY <1>1, <2>2, BlocksAre
    <3>2. /\ BlockOf(code, labels, b) \in 1 .. b
          /\ \A x \in Starts(code, labels) : x <= b => x <= BlockOf(code, labels, b)
      BY <1>1, <2>2, BlockOfIs
    <3>3. b <= BlockOf(code, labels, b)
      BY <2>2, <3>2
    <3> QED BY <2>2, <3>1, <3>2, <3>3
  <2>4. end <= last /\ (end = last => BlockOf(code, labels, last) = b)
    <3>1. end <= last
      <4> SUFFICES ASSUME last < end PROVE FALSE
        BY <1>1, <2>3
      <4>1. last \in b .. BlockEnd(code, labels, b)
        BY <1>1, <2>2, <2>3
      <4>2. BlockEnd(code, labels, last) = end
        BY <1>1, <2>2, <4>1, BlockEndIs
      <4> QED BY <2>3, <4>2
    <3>2. ASSUME end = last PROVE BlockOf(code, labels, last) = b
      <4>1. /\ BlockOf(code, labels, last) \in Starts(code, labels)
            /\ BlockOf(code, labels, last) \in 1 .. last
            /\ \A x \in Starts(code, labels) : x <= last => x <= BlockOf(code, labels, last)
        BY <1>1, BlockOfIs
      <4>2. b <= BlockOf(code, labels, last)
        BY <2>2, <4>1
      <4>3. \A x \in b + 1 .. end : x \notin Starts(code, labels)
        BY <1>1, <2>2, BlocksAre
      <4> QED BY <2>2, <3>2, <4>1, <4>2, <4>3
    <3> QED BY <3>1, <3>2
  <2>5. PICK rest \in Nat : /\ Known(f.out[b][r], key, rest)
                            /\ own + rest = cost(b) + distance
    <3>1. CASE end = last
      <4>1. own = cost(b)
        BY <3>1
      <4> QED BY <2>4, <3>1, <4>1
    <3>2. CASE end # last
      <4>1. /\ next \in Starts(code, labels) /\ next \in 1 .. Len(code)
            /\ b \in Preds(code, labels, next)
        <5>1. end < Len(code)
          BY <1>1, <2>3, <2>4, <3>2
        <5> QED BY <1>1, <2>2, <2>3, <5>1, BlockBeforeIsPred
      <4>2. next <= last /\ next \notin Bad
        <5>1. next <= last /\ b < next /\ b \in Int /\ next \in Int
          BY <1>1, <2>2, <2>3, <2>4, <3>2
        <5> HIDE DEF next
        <5> QED BY <2>1, <5>1
      <4>3. Unwritten(code, r, next, last)
        <5>1. \A k \in next .. last : k \in b .. last
          BY <1>1, <2>2, <2>3
        <5> QED BY <2>2, <5>1 DEF Unwritten
      <4>4. Known(f.ins[next][r], key, cost(next) + distance)
        BY <4>1, <4>2, <4>3 DEF Bad
      <4>5. cost(next) \in Nat /\ own \in Nat /\ cost(b) = own + cost(next)
        <5>1. /\ b \in 1 .. Len(code) + 1 /\ last \in b - 1 .. Len(code) /\ end \in b - 1 .. last
              /\ end \in b - 1 .. Len(code)
              /\ next \in 1 .. Len(code) + 1 /\ last \in next - 1 .. Len(code)
          BY <1>1, <2>2, <2>3, <2>4, <4>1, <4>2
        <5>2. cost(b) = own + cost(next)
          BY <5>1, CostIs
        <5>3. own \in Nat
          BY <5>1, CostIs
        <5>4. cost(next) \in Nat
          <6> HIDE DEF next
          <6> QED BY <5>1, CostIs
        <5> QED BY <5>2, <5>3, <5>4
      <4> HIDE DEF cost, own, next
      <4>6. cost(next) + distance \in Nat /\ own + (cost(next) + distance) = cost(b) + distance
        BY <4>5
      <4> DEFINE far == cost(next) + distance
      <4>7. Known(f.ins[next][r], key, far) /\ far \in Int
        BY <4>4, <4>6
      <4> HIDE DEF far
      <4>8. Known(f.out[b][r], key, far)
        BY <4>1, <4>7, KnownBefore
      <4> QED BY <4>6, <4>8 DEF far
    <3> QED BY <3>1, <3>2
  <2>6. Unwritten(code, r, b, end)
    <3>1. \A k \in b .. end : k \in b .. last
      BY <1>1, <2>3, <2>4
    <3> QED BY <2>2, <3>1 DEF Unwritten
  <2>7. Known(f.ins[b][r], key, own + rest)
    BY <2>2, <2>5, <2>6, KnownThrough
  <2> QED BY <2>2, <2>5, <2>7
<1> QED BY <1>3

(* The use of a register is known at the start of every block before it    *)
(* from where on nothing writes the register.                              *)
LEMMA UseIsKnown ==
    ASSUME NEW code, NEW labels, NEW bars, NEW deps, NEW f, Settled(code, labels, bars, deps, f),
           NEW j \in 1 .. Len(code), NEW r \in Registers, NEW kind \in Kinds, UsesAs(code[j], r, kind),
           NEW first \in Starts(code, labels), first <= j, Unwritten(code, r, first, j - 1)
    PROVE  Known(f.ins[first][r], <<kind, j>>, Cost(code, labels, f, first, j - 1))
<1> DEFINE b == BlockOf(code, labels, j)
           own == Cost(code, labels, f, b, j - 1)
<1>1. /\ code \in Seq(InstructionSet) /\ Len(code) \in Nat
      /\ Starts(code, labels) \subseteq 1 .. Len(code)
      /\ f.cycles \in [1 .. Len(code) -> Nat]
  <2>1. /\ code \in Seq(InstructionSet) /\ Len(code) \in Nat /\ DOMAIN code = 1 .. Len(code)
        /\ f.cycles \in [1 .. Len(code) -> Nat]
    BY SettledIs
  <2> QED BY <2>1 DEF Starts
<1>2. /\ b \in Starts(code, labels) /\ b \in 1 .. j /\ first <= b
      /\ j <= BlockEnd(code, labels, b)
  BY <1>1, BlockOfIs
<1> HIDE DEF b
<1>3. b \in 1 .. Len(code) /\ BlockEnd(code, labels, b) \in b .. Len(code)
  <2>1. b \in 1 .. Len(code)
    BY <1>1, <1>2
  <2> QED BY <1>1, <2>1, BlocksAre
<1>4. own \in Nat
  <2>1. b \in 1 .. Len(code) + 1 /\ j - 1 \in b - 1 .. Len(code)
    BY <1>1, <1>2
  <2> QED BY <2>1, CostIs
<1>5. Known(f.ins[b][r], <<kind, j>>, own)
  <2>1. Unwritten(code, r, b, j - 1)
    <3>1. \A k \in b .. j - 1 : k \in first .. j - 1
      BY <1>1, <1>2
    <3> QED BY <3>1 DEF Unwritten
  <2>2. j \in b .. BlockEnd(code, labels, b)
    BY <1>1, <1>2, <1>3
  <2>3. Known(f.ins[b][r], <<kind, j>>, f.cycles[b] - f.cycles[j])
    BY <1>2, <2>1, <2>2, SettledIs DEF Finished, Exposes
  <2>4. own >= f.cycles[b] - f.cycles[j]
    BY <1>3, <2>2, CostWithin
  <2>5. f.cycles[b] - f.cycles[j] \in Int /\ f.cycles[b] - f.cycles[j] <= own /\ own \in Int
    <3>1. f.cycles[b] \in Nat /\ f.cycles[j] \in Nat
      BY <1>1, <1>3
    <3> HIDE DEF own
    <3> QED BY <1>4, <2>4, <3>1
  <2>6. <<kind, j>> \in DOMAIN f.ins[b][r] => f.ins[b][r][<<kind, j>>] \in Nat
    <3>1. IsUses(f.ins[b])
      BY <1>2, SettledIs
    <3> QED BY <3>1 DEF IsUses
  <2> QED BY <2>3, <2>5, <2>6, KnownFarther
<1>6. CASE first = b
  BY <1>5, <1>6
<1>7. CASE first # b
  <2> DEFINE last == b - 1
             pred == BlockOf(code, labels, last)
  <2>1. last \in 1 .. Len(code) /\ first <= last /\ last + 1 = b
    BY <1>1, <1>2, <1>3, <1>7
  <2>2. BlockEnd(code, labels, last) = last
    <3>1. /\ BlockEnd(code, labels, last) \in last .. Len(code)
          /\ \A k \in last + 1 .. BlockEnd(code, labels, last) : k \notin Starts(code, labels)
      BY <1>1, <2>1, BlocksAre
    <3>2. b \notin last + 1 .. BlockEnd(code, labels, last)
      BY <1>2, <3>1
    <3> HIDE DEF last
    <3> QED BY <1>3, <2>1, <3>1, <3>2
  <2>3. pred \in Preds(code, labels, b)
    <3>1. last < Len(code)
      BY <1>1, <1>3
    <3> HIDE DEF last
    <3>2. /\ BlockEnd(code, labels, last) < Len(code)
          /\ BlockEnd(code, labels, last) + 1 = b
      BY <2>1, <2>2, <3>1
    <3> QED BY <1>1, <2>1, <3>2, BlockBeforeIsPred
  <2>4. own \in Int
    BY <1>4
  <2> HIDE DEF last, pred, own
  <2>5. Known(f.out[pred][r], <<kind, j>>, own)
    BY <1>2, <1>5, <2>3, <2>4, KnownBefore
  <2>6. Unwritten(code, r, first, last)
    <3>1. \A k \in first .. last : k \in first .. j - 1
      BY <1>1, <1>2, <2>1
    <3> QED BY <3>1 DEF Unwritten
  <2>7. Known(f.ins[first][r], <<kind, j>>, Cost(code, labels, f, first, last) + own)
    <3> DEFINE key == <<kind, j>>
    <3>1. Known(f.out[BlockOf(code, labels, last)][r], key, own)
      BY <2>5 DEF pred
    <3> HIDE DEF key
    <3>2. Known(f.ins[first][r], key, Cost(code, labels, f, first, last) + own)
      BY <1>4, <2>1, <2>2, <2>6, <3>1, KnownAcross DEF own
    <3> QED BY <3>2 DEF key
  <2>8. Cost(code, labels, f, first, j - 1) = Cost(code, labels, f, first, last) + own
    <3>1. /\ first \in 1 .. Len(code) + 1 /\ j - 1 \in first - 1 .. Len(code)
          /\ last \in first - 1 .. j - 1
      BY <1>1, <1>2, <2>1
    <3> DEFINE before == j - 1
    <3>2. /\ before \in first - 1 .. Len(code)
          /\ last \in first - 1 .. before
      BY <3>1
    <3> HIDE DEF before
    <3>3. Cost(code, labels, f, first, before) =
              Cost(code, labels, f, first, last) + Cost(code, labels, f, last + 1, before)
      BY <3>1, <3>2, CostIs
    <3> QED BY <2>1, <3>3 DEF own, before
  <2> QED BY <2>7, <2>8
<1> QED BY <1>6, <1>7

(* An instruction is far enough from a use known at the end of a block     *)
(* after it.                                                               *)
LEMMA FarEnough ==
    ASSUME NEW code, NEW labels, NEW bars, NEW deps, NEW f, Settled(code, labels, bars, deps, f),
           NEW last \in 1 .. Len(code), BlockEnd(code, labels, last) = last,
           NEW r \in Registers, NEW key, NEW distance \in Nat,
           Known(f.out[BlockOf(code, labels, last)][r], key, distance),
           NEW i \in 1 .. last, Unwritten(code, r, i + 1, last)
    PROVE  Cost(code, labels, f, i, last) + distance >= HazardLatency(code[i], r, key[1])
<1> DEFINE b == BlockOf(code, labels, i)
           end == BlockEnd(code, labels, i)
           own == Cost(code, labels, f, i, end)
           latency == HazardLatency(code[i], r, key[1])
<1>1. /\ code \in Seq(InstructionSet) /\ Len(code) \in Nat
      /\ f.cycles \in [1 .. Len(code) -> Nat] /\ i \in 1 .. Len(code)
  BY SettledIs
<1>2. /\ b \in Starts(code, labels) /\ b \in 1 .. i
      /\ i <= BlockEnd(code, labels, b) /\ BlockEnd(code, labels, b) = end
  BY <1>1, BlockOfIs
<1>3. end \in i .. Len(code)
  BY <1>1, BlocksAre
<1>4. end <= last
  <2> SUFFICES ASSUME last < end PROVE FALSE
    BY <1>1, <1>3
  <2>1. last \in i .. BlockEnd(code, labels, i)
    BY <1>1, <1>3
  <2>2. BlockEnd(code, labels, last) = end
    BY <1>1, <2>1, BlockEndIs
  <2> QED BY <1>1, <1>3, <2>2
<1>5. own \in Nat /\ own >= f.cycles[i] /\ f.cycles[i] \in Nat
  <2>1. i \in 1 .. Len(code) + 1 /\ end \in i - 1 .. Len(code)
    BY <1>1, <1>3
  <2>2. own \in Nat
    BY <2>1, CostIs
  <2>3. own >= f.cycles[i]
    BY <1>1, CostWithin
  <2> QED BY <1>1, <2>2, <2>3
<1>6. latency \in 0 .. LatencyUpperBound
  BY LatenciesAre
<1>7. Unwritten(code, r, i + 1, end)
  <2>1. \A k \in i + 1 .. end : k \in i + 1 .. last
    BY <1>1, <1>3, <1>4
  <2> QED BY <2>1 DEF Unwritten
<1>8. ASSUME NEW rest \in Nat, Known(f.out[b][r], key, rest) PROVE own + rest >= latency
  <2>1. CASE rest <= LatencyUpperBound
    <3>1. key \in DOMAIN f.out[b][r] /\ f.out[b][r][key] <= rest
      BY <1>8, <2>1 DEF Known
    <3>2. Covers(code, f.cycles, f.out[b], i, end)
      <4>1. i \in b .. BlockEnd(code, labels, b)
        BY <1>1, <1>2, <1>3
      <4> QED BY <1>2, <4>1, SettledIs DEF Finished
    <3>3. f.cycles[i] + f.out[b][r][key] >= latency
      BY <1>7, <3>1, <3>2 DEF Covers
    <3>4. f.out[b][r][key] \in Nat
      <4>1. IsUses(f.out[b])
        BY <1>2, SettledIs
      <4> QED BY <3>1, <4>1 DEF IsUses
    <3> HIDE DEF own, latency
    <3>5. latency \in Nat
      BY <1>6 DEF LatencyUpperBound
    <3> QED BY <1>5, <3>1, <3>3, <3>4, <3>5
  <2>2. CASE ~(rest <= LatencyUpperBound)
    <3> HIDE DEF own, latency
    <3> QED BY <1>5, <1>6, <2>2 DEF LatencyUpperBound
  <2> QED BY <2>1, <2>2
<1>9. CASE end = last
  <2>1. b = BlockOf(code, labels, last)
    <3>1. /\ BlockOf(code, labels, last) \in Starts(code, labels)
          /\ BlockOf(code, labels, last) \in 1 .. last
          /\ \A x \in Starts(code, labels) : x <= last => x <= BlockOf(code, labels, last)
      BY <1>1, BlockOfIs
    <3>2. b <= BlockOf(code, labels, last)
      <4>1. b <= last
        BY <1>1, <1>2
      <4> QED BY <1>2, <3>1, <4>1
    <3>3. b \in 1 .. Len(code) /\ \A k \in b + 1 .. BlockEnd(code, labels, b) : k \notin Starts(code, labels)
      <4>1. b \in 1 .. Len(code)
        BY <1>1, <1>2
      <4> QED BY <1>1, <4>1, BlocksAre
    <3>4. BlockOf(code, labels, last) \notin b + 1 .. last
      BY <1>2, <1>9, <3>1, <3>3
    <3> HIDE DEF b
    <3> QED BY <1>1, <3>1, <3>2, <3>3, <3>4
  <2>2. Known(f.out[b][r], key, distance)
    BY <2>1
  <2>3. own + distance >= latency
    BY <1>8, <2>2
  <2> QED BY <1>9, <2>3
<1>10. CASE end # last
  <2> DEFINE next == end + 1
             across == Cost(code, labels, f, next, last)
  <2>1. /\ next \in Starts(code, labels) /\ next \in 1 .. Len(code) /\ next <= last
        /\ b \in Preds(code, labels, next)
    <3>1. end < Len(code)
      BY <1>1, <1>3, <1>4, <1>10
    <3>2. next <= last
      BY <1>1, <1>3, <1>4, <1>10
    <3> QED BY <1>1, <3>1, <3>2, BlockBeforeIsPred
  <2>2. Unwritten(code, r, next, last)
    <3>1. \A k \in next .. last : k \in i + 1 .. last
      BY <1>1, <1>3
    <3> QED BY <3>1 DEF Unwritten
  <2>3. /\ across \in Nat
        /\ Cost(code, labels, f, i, last) = own + across
    <3>1. /\ i \in 1 .. Len(code) + 1 /\ last \in i - 1 .. Len(code) /\ end \in i - 1 .. last
          /\ next \in 1 .. Len(code) + 1 /\ last \in next - 1 .. Len(code)
      BY <1>1, <1>3, <1>4, <2>1
    <3>2. Cost(code, labels, f, i, last) = own + across
      BY <3>1, CostIs
    <3>3. across \in Nat
      <4> HIDE DEF next
      <4> QED BY <3>1, CostIs
    <3> QED BY <3>2, <3>3
  <2>4. Known(f.ins[next][r], key, across + distance)
    <3> HIDE DEF next
    <3> QED BY <2>1, <2>2, KnownAcross
  <2> DEFINE far == across + distance
  <2>5. Known(f.ins[next][r], key, far) /\ far \in Nat /\ far \in Int
    BY <2>3, <2>4
  <2>6. own + far = Cost(code, labels, f, i, last) + distance
    BY <1>5, <2>3
  <2> HIDE DEF far, across, next, b
  <2>7. Known(f.out[b][r], key, far)
    BY <2>1, <2>5, KnownBefore
  <2>8. own + far >= latency
    BY <1>8, <2>5, <2>7
  <2> QED BY <2>6, <2>8
<1> QED BY <1>9, <1>10

-----------------------------------------------------------------------------
(* The paths from an instruction to one that depends on it.                *)

(* Straight on, within the block or over the end of it.                    *)
LEMMA DirectPath ==
    ASSUME NEW code, NEW labels, NEW bars, NEW deps, NEW f, Settled(code, labels, bars, deps, f),
           NEW i \in 1 .. Len(code), NEW j \in i + 1 .. Len(code),
           NEW r \in Registers, NEW kind \in Kinds, UsesAs(code[j], r, kind),
           Unwritten(code, r, i + 1, j - 1)
    PROVE  Cost(code, labels, f, i, j - 1) >= HazardLatency(code[i], r, kind)
<1> DEFINE end == BlockEnd(code, labels, i)
           latency == HazardLatency(code[i], r, kind)
<1>1. /\ code \in Seq(InstructionSet) /\ Len(code) \in Nat
      /\ f.cycles \in [1 .. Len(code) -> Nat] /\ j \in 1 .. Len(code)
  BY SettledIs
<1>2. end \in i .. Len(code) /\ BlockEnd(code, labels, end) = end
  <2>1. end \in i .. Len(code)
    BY <1>1, BlocksAre
  <2>2. end \in i .. end
    BY <1>1, <2>1
  <2> QED BY <1>1, <2>1, <2>2, BlockEndIs
<1>3. latency \in Nat
  <2>1. latency \in 0 .. LatencyUpperBound
    BY LatenciesAre
  <2> HIDE DEF latency
  <2> QED BY <2>1 DEF LatencyUpperBound
<1>4. i \in 1 .. Len(code) + 1 /\ j - 1 \in i - 1 .. Len(code) /\ i \in 1 .. Len(code)
  BY <1>1
<1>5. CASE j <= end
  <2>1. j \in i .. end /\ j \in i + 1 .. end
    BY <1>1, <1>2, <1>5
  <2>2. Cost(code, labels, f, i, j - 1) >= f.cycles[i] - f.cycles[j]
    BY <2>1, CostWithin
  <2>3. Spaced(code, deps, f.cycles, i, end)
    <3>1. /\ BlockOf(code, labels, i) \in Starts(code, labels) /\ BlockOf(code, labels, i) \in 1 .. i
          /\ i <= BlockEnd(code, labels, BlockOf(code, labels, i))
          /\ BlockEnd(code, labels, BlockOf(code, labels, i)) = end
      BY <1>1, BlockOfIs
    <3>2. Finished(code, labels, deps, f, BlockOf(code, labels, i))
      BY <3>1, SettledIs
    <3> DEFINE b == BlockOf(code, labels, i)
    <3> HIDE DEF b, end
    <3>3. i \in b .. end
      BY <1>1, <1>2, <3>1 DEF b
    <3> QED BY <3>1, <3>2, <3>3 DEF Finished, b
  <2>4. f.cycles[i] >= f.cycles[j] + latency
    BY <2>1, <2>3 DEF Spaced
  <2>5. Cost(code, labels, f, i, j - 1) \in Nat
    BY <1>4, CostIs
  <2>6. f.cycles[i] \in Nat /\ f.cycles[j] \in Nat
    BY <1>1
  <2> HIDE DEF latency
  <2>7. Cost(code, labels, f, i, j - 1) >= latency
    BY <1>3, <2>2, <2>4, <2>5, <2>6
  <2> QED BY <2>7 DEF latency
<1>6. CASE ~(j <= end)
  <2> DEFINE next == end + 1
             rest == Cost(code, labels, f, next, j - 1)
             pred == BlockOf(code, labels, end)
             key == <<kind, j>>
  <2>1. /\ end < Len(code) /\ next <= j /\ end \in 1 .. Len(code)
        /\ next \in 1 .. Len(code) + 1 /\ j - 1 \in next - 1 .. Len(code)
        /\ end \in i - 1 .. j - 1
    BY <1>1, <1>2, <1>6
  <2>2. next \in Starts(code, labels) /\ pred \in Preds(code, labels, next)
    <3> HIDE DEF end
    <3> QED BY <1>1, <1>2, <2>1, BlockBeforeIsPred
  <2>3. Cost(code, labels, f, i, j - 1) = Cost(code, labels, f, i, end) + rest
    <3> DEFINE before == j - 1
    <3>1. before \in i - 1 .. Len(code) /\ end \in i - 1 .. before
      BY <1>4, <2>1
    <3> HIDE DEF before, end
    <3>2. Cost(code, labels, f, i, before) =
            Cost(code, labels, f, i, end) + Cost(code, labels, f, end + 1, before)
      BY <1>4, <3>1, CostIs
    <3> QED BY <3>2 DEF before
  <2>4. rest \in Nat
    <3> HIDE DEF next
    <3> QED BY <2>1, CostIs
  <2>5. Unwritten(code, r, next, j - 1) /\ Unwritten(code, r, i + 1, end)
    <3>1. \A k \in next .. j - 1 : k \in i + 1 .. j - 1
      BY <1>1, <1>2
    <3>2. \A k \in i + 1 .. end : k \in i + 1 .. j - 1
      BY <1>1, <1>2, <1>6
    <3> QED BY <3>1, <3>2 DEF Unwritten
  <2>6. Known(f.ins[next][r], key, rest)
    <3> HIDE DEF next
    <3> QED BY <1>1, <2>1, <2>2, <2>5, UseIsKnown
  <2> HIDE DEF rest, next, pred, key, end
  <2>7. Known(f.out[pred][r], key, rest)
    <3>1. rest \in Int
      BY <2>4
    <3> QED BY <2>2, <2>6, <3>1, KnownBefore
  <2>8. Cost(code, labels, f, i, end) + rest >= HazardLatency(code[i], r, key[1])
    <3>1. i \in 1 .. end
      BY <1>1, <1>2
    <3>2. Known(f.out[BlockOf(code, labels, end)][r], key, rest)
      BY <2>7 DEF pred
    <3> QED BY <1>2, <2>1, <2>4, <2>5, <3>1, <3>2, FarEnough
  <2>9. key[1] = kind
    BY DEF key
  <2> QED BY <2>3, <2>8, <2>9
<1> QED BY <1>5, <1>6

(* By way of a branch, to the start of any block.                          *)
LEMMA BranchPath ==
    ASSUME NEW code, NEW labels, NEW bars, NEW deps, NEW f, Settled(code, labels, bars, deps, f),
           NEW branch \in 1 .. Len(code), IsBranch(code[branch]), NEW i \in 1 .. branch,
           NEW j \in 1 .. Len(code), NEW start \in Starts(code, labels), start <= j,
           NEW r \in Registers, NEW kind \in Kinds, UsesAs(code[j], r, kind),
           Unwritten(code, r, i + 1, branch), Unwritten(code, r, start, j - 1)
    PROVE  Cost(code, labels, f, i, branch) + Cost(code, labels, f, start, j - 1) >=
               HazardLatency(code[i], r, kind)
<1> DEFINE pred == BlockOf(code, labels, branch)
           rest == Cost(code, labels, f, start, j - 1)
           key == <<kind, j>>
<1>1. /\ code \in Seq(InstructionSet) /\ Len(code) \in Nat
      /\ start \in 1 .. Len(code) /\ start \in 1 .. Len(code) + 1
  BY SettledIs
<1>2. BlockEnd(code, labels, branch) = branch
  BY <1>1, BlocksAre
<1>3. pred \in Preds(code, labels, start)
  <2>1. pred \in Starts(code, labels) /\ BlockEnd(code, labels, pred) = branch
    BY <1>1, <1>2, BlockOfIs
  <2> HIDE DEF pred
  <2> QED BY <2>1 DEF Preds
<1>4. rest \in Nat
  <2>1. j - 1 \in start - 1 .. Len(code)
    BY <1>1
  <2> QED BY <1>1, <2>1, CostIs
<1>5. Known(f.ins[start][r], key, rest)
  BY UseIsKnown
<1> HIDE DEF rest, key, pred
<1>6. Known(f.out[pred][r], key, rest)
  <2>1. rest \in Int
    BY <1>4
  <2> QED BY <1>3, <1>5, <2>1, KnownBefore
<1>7. Cost(code, labels, f, i, branch) + rest >= HazardLatency(code[i], r, key[1])
  <2>1. Known(f.out[BlockOf(code, labels, branch)][r], key, rest)
    BY <1>6 DEF pred
  <2> QED BY <1>2, <1>4, <2>1, FarEnough
<1>8. key[1] = kind
  BY DEF key
<1> QED BY <1>7, <1>8 DEF rest

(* A barrier is waited for no earlier than it can be, whether in the same  *)
(* block or after it.                                                      *)
LEMMA BarrierPath ==
    ASSUME NEW code, NEW labels, NEW bars, NEW deps, NEW f, Settled(code, labels, bars, deps, f),
           NEW i \in 1 .. Len(code), NEW bar \in {deps[i].rd, deps[i].wr} \ {0}
    PROVE  LET end == BlockEnd(code, labels, i) IN
           /\ Cost(code, labels, f, i, end) >= SignalLatency
           /\ \A j \in i + 1 .. end : bar \in deps[j].wait =>
                 Cost(code, labels, f, i, j - 1) >= SignalLatency
<1> DEFINE end == BlockEnd(code, labels, i)
           b == BlockOf(code, labels, i)
<1>1. /\ code \in Seq(InstructionSet) /\ Len(code) \in Nat
      /\ f.cycles \in [1 .. Len(code) -> Nat]
  BY SettledIs
<1>2. end \in i .. Len(code)
  BY <1>1, BlocksAre
<1>3. /\ \A j \in i .. end : Cost(code, labels, f, i, j - 1) >= f.cycles[i] - f.cycles[j]
      /\ Cost(code, labels, f, i, end) >= f.cycles[i]
  BY <1>1, CostWithin
<1>4. Spaced(code, deps, f.cycles, i, end)
  <2>1. /\ b \in Starts(code, labels) /\ b \in 1 .. i
        /\ i <= BlockEnd(code, labels, b) /\ BlockEnd(code, labels, b) = end
    BY <1>1, BlockOfIs
  <2> HIDE DEF b, end
  <2>2. Finished(code, labels, deps, f, b)
    BY <2>1, SettledIs
  <2>3. i \in b .. end
    BY <1>1, <1>2, <2>1
  <2> QED BY <2>1, <2>2, <2>3 DEF Finished
<1>5. ASSUME NEW j \in i - 1 .. Len(code) PROVE Cost(code, labels, f, i, j) \in Nat
  <2>1. i \in 1 .. Len(code) + 1
    BY <1>1
  <2> QED BY <2>1, CostIs
<1> HIDE DEF end
<1>6. Cost(code, labels, f, i, end) >= SignalLatency
  <2>1. f.cycles[i] >= SignalLatency /\ f.cycles[i] \in Nat
    BY <1>1, <1>4 DEF Spaced
  <2>2. Cost(code, labels, f, i, end) \in Nat
    <3>1. end \in i - 1 .. Len(code)
      BY <1>1, <1>2
    <3> QED BY <1>5, <3>1
  <2> QED BY <1>3, <2>1, <2>2 DEF SignalLatency
<1>7. ASSUME NEW j \in i + 1 .. end, bar \in deps[j].wait
      PROVE  Cost(code, labels, f, i, j - 1) >= SignalLatency
  <2>1. f.cycles[i] >= f.cycles[j] + SignalLatency
    BY <1>4, <1>7 DEF Spaced
  <2>2. j \in i .. end /\ j \in 1 .. Len(code) /\ j - 1 \in i - 1 .. Len(code)
    BY <1>1, <1>2
  <2>3. f.cycles[i] \in Nat /\ f.cycles[j] \in Nat
    BY <1>1, <2>2
  <2>4. Cost(code, labels, f, i, j - 1) \in Nat /\ Cost(code, labels, f, i, j - 1) >= f.cycles[i] - f.cycles[j]
    BY <1>3, <1>5, <2>2
  <2> QED BY <2>1, <2>3, <2>4 DEF SignalLatency
<1> QED BY <1>6, <1>7 DEF end

(* What passes on a path is at least what passes on parts of it.           *)
LEMMA PathCosts ==
    ASSUME NEW code, NEW labels, NEW bars, NEW deps, NEW f, Settled(code, labels, bars, deps, f),
           NEW i \in 1 .. Len(code), NEW path \in SUBSET (1 .. Len(code)),
           NEW last \in i - 1 .. Len(code), i .. last \subseteq path \union {i}
    PROVE  LET delays == DelaysOf(code, labels, f) IN
           /\ Elapsed(delays, i, path) \in Nat
           /\ Cost(code, labels, f, i, last) <= Elapsed(delays, i, path)
           /\ \A first \in 1 .. Len(code) + 1 : \A end \in first - 1 .. Len(code) :
                 first .. end \subseteq path \union {i} /\ (i .. last) \intersect (first .. end) = {} =>
                     Cost(code, labels, f, i, last) + Cost(code, labels, f, first, end)
                         <= Elapsed(delays, i, path)
<1> DEFINE delays == DelaysOf(code, labels, f)
           All == path \union {i}
           own == i .. last
<1>1. Len(code) \in Nat
  BY SettledIs
<1>2. \A ip \in 1 .. Len(code) : delays[ip] \in Nat
  BY DelaysAre
<1>3. All \subseteq 1 .. Len(code) /\ IsFiniteSet(All)
  <2>1. IsFiniteSet(1 .. Len(code))
    BY <1>1, FS_Interval
  <2>2. All \subseteq 1 .. Len(code)
    OBVIOUS
  <2> QED BY <2>1, <2>2, FS_Subset
<1> HIDE DEF delays, All, own
<1>4. \A ip \in All : delays[ip] \in Nat
  BY <1>2, <1>3
<1>5. SumFunctionOnSet(delays, All) \in Nat
  BY <1>3, <1>4, SumOfNaturals
<1>6. own \subseteq All
  BY DEF own, All
<1>7. SumFunctionOnSet(delays, own) <= SumFunctionOnSet(delays, All)
  BY <1>3, <1>4, <1>6, SumOfPart
<1>8. ASSUME NEW other, other \subseteq All, own \intersect other = {}
      PROVE  SumFunctionOnSet(delays, own) + SumFunctionOnSet(delays, other)
                 <= SumFunctionOnSet(delays, All)
  <2> DEFINE both == own \union other
  <2>1. IsFiniteSet(own) /\ IsFiniteSet(other)
    BY <1>3, <1>6, <1>8, FS_Subset
  <2>2. \A ip \in both : delays[ip] \in Nat
    BY <1>4, <1>6, <1>8
  <2>3. SumFunctionOnSet(delays, both) = SumFunctionOnSet(delays, own) + SumFunctionOnSet(delays, other)
    BY <1>8, <2>1, <2>2, SumOfDisjoint
  <2>4. both \in SUBSET All
    BY <1>6, <1>8
  <2> HIDE DEF both
  <2>5. SumFunctionOnSet(delays, both) <= SumFunctionOnSet(delays, All)
    BY <1>3, <1>4, <2>4, SumOfPart
  <2> QED BY <2>3, <2>5
<1>9. ASSUME NEW first, NEW end, first .. end \subseteq path \union {i},
             (i .. last) \intersect (first .. end) = {}
      PROVE  Cost(code, labels, f, i, last) + Cost(code, labels, f, first, end)
                 <= SumFunctionOnSet(delays, All)
  <2> DEFINE other == first .. end
  <2>1. other \subseteq All /\ own \intersect other = {}
    BY <1>9 DEF All, own
  <2> HIDE DEF other
  <2>2. SumFunctionOnSet(delays, own) + SumFunctionOnSet(delays, other) <= SumFunctionOnSet(delays, All)
    BY <1>8, <2>1
  <2> QED BY <2>2 DEF Cost, delays, own, other
<1>10. Elapsed(delays, i, path) = SumFunctionOnSet(delays, All)
  BY DEF Elapsed, All
<1>11. Cost(code, labels, f, i, last) = SumFunctionOnSet(delays, own)
  BY DEF Cost, delays, own
<1> QED BY <1>5, <1>7, <1>9, <1>10, <1>11 DEF delays

(* The latency that two instructions must keep is one the proofs have been *)
(* about.                                                                  *)
LEMMA NeededIs ==
    ASSUME NEW code, NEW bars, NEW deps, IsCode(code, bars, deps),
           NEW i \in 1 .. Len(code), NEW j \in 1 .. Len(code), NEW path,
           NEW cycles \in Needed(code, deps, i, j, path)
    PROVE  /\ cycles \in Nat
           /\ \/ \E r \in Registers, kind \in Kinds :
                    /\ UsesAs(code[j], r, kind) /\ \A k \in path : r \notin code[k].dsts
                    /\ cycles <= HazardLatency(code[i], r, kind)
              \/ \E bar \in {deps[i].rd, deps[i].wr} \ {0} :
                    bar \in deps[j].wait /\ cycles = SignalLatency
<1> DEFINE Own(regs) == {r \in regs : \A k \in path : r \notin code[k].dsts}
<1>1. code[i] \in InstructionSet /\ code[j] \in InstructionSet
  BY DEF IsCode
<1>2. /\ code[i].dsts \subseteq Registers /\ code[i].srcs \subseteq Registers
      /\ code[i].pred \subseteq Registers
  BY <1>1 DEF InstructionSet
<1>3. CASE cycles \in {InstrLatency(code[i], r) :
                          r \in Own(code[i].dsts \intersect (code[j].srcs \union code[j].dsts))}
  <2>1. PICK r \in Own(code[i].dsts \intersect (code[j].srcs \union code[j].dsts)) :
            cycles = InstrLatency(code[i], r)
    BY <1>3
  <2>2. /\ r \in Registers /\ r \in code[i].dsts /\ (r \in code[j].srcs \/ r \in code[j].dsts)
        /\ \A k \in path : r \notin code[k].dsts
    BY <1>2, <2>1
  <2>3. \A kind \in {"r", "w"} : HazardLatency(code[i], r, kind) = cycles
    BY <2>1, <2>2 DEF HazardLatency
  <2>4. cycles \in Nat /\ cycles <= cycles
    <3>1. cycles \in 6 .. LatencyUpperBound
      BY <2>1, LatenciesAre
    <3> QED BY <3>1 DEF LatencyUpperBound
  <2>5. CASE r \in code[j].srcs
    <3>1. "r" \in Kinds /\ UsesAs(code[j], r, "r")
      BY <2>5 DEF Kinds, UsesAs
    <3> QED BY <2>2, <2>3, <2>4, <3>1
  <2>6. CASE r \in code[j].dsts
    <3>1. "w" \in Kinds /\ UsesAs(code[j], r, "w")
      BY <2>6 DEF Kinds, UsesAs
    <3> QED BY <2>2, <2>3, <2>4, <3>1
  <2> QED BY <2>2, <2>5, <2>6
<1>4. CASE cycles \in {PawLatency : r \in Own(code[i].dsts \intersect code[j].pred)}
  <2>1. PICK r \in Own(code[i].dsts \intersect code[j].pred) : cycles = PawLatency
    BY <1>4
  <2>2. /\ r \in Registers /\ r \in code[i].dsts /\ r \in code[j].pred
        /\ \A k \in path : r \notin code[k].dsts
    BY <1>2, <2>1
  <2>3. "g" \in Kinds /\ UsesAs(code[j], r, "g") /\ HazardLatency(code[i], r, "g") = PawLatency
    BY <2>2 DEF Kinds, UsesAs, HazardLatency
  <2> QED BY <2>1, <2>2, <2>3 DEF PawLatency
<1>5. CASE cycles \in {WarLatency : r \in Own(code[i].srcs \intersect code[j].dsts)}
  <2>1. PICK r \in Own(code[i].srcs \intersect code[j].dsts) : cycles = WarLatency
    BY <1>5
  <2>2. /\ r \in Registers /\ r \in code[i].srcs /\ r \in code[j].dsts
        /\ \A k \in path : r \notin code[k].dsts
    BY <1>2, <2>1
  <2>3. "w" \in Kinds /\ UsesAs(code[j], r, "w")
    BY <2>2 DEF Kinds, UsesAs
  <2>4. cycles <= HazardLatency(code[i], r, "w")
    <3>1. InstrLatency(code[i], r) \in 6 .. LatencyUpperBound
      BY LatenciesAre
    <3>2. HazardLatency(code[i], r, "w") \in {InstrLatency(code[i], r), WarLatency}
      BY <2>2 DEF HazardLatency
    <3> QED BY <2>1, <3>1, <3>2 DEF WarLatency
  <2> QED BY <2>1, <2>2, <2>3, <2>4 DEF WarLatency
<1>6. CASE cycles \in {SignalLatency : bar \in {bar \in {deps[i].rd, deps[i].wr} \intersect deps[j].wait :
                                                   \A k \in path : bar \notin deps[k].wait}}
  <2>1. PICK bar \in {deps[i].rd, deps[i].wr} \intersect deps[j].wait : cycles = SignalLatency
    BY <1>6
  <2>2. deps[j].wait \subseteq bars
    <3> DEFINE D == [wait : SUBSET bars, rd : bars \union {0}, wr : bars \union {0}]
    <3>1. deps \in Seq(D) /\ j \in 1 .. Len(deps)
      BY DEF IsCode
    <3> HIDE DEF D
    <3>2. deps[j] \in D
      BY <3>1
    <3> QED BY <3>2 DEF D
  <2>3. bar # 0
    BY <2>1, <2>2 DEF IsCode
  <2> QED BY <2>1, <2>3 DEF SignalLatency
<1> QED BY <1>3, <1>4, <1>5, <1>6 DEF Needed

(* Once no block need be visited the delays are long enough.               *)
LEMMA SolvedIsEnough ==
    ASSUME NEW code, NEW labels, NEW bars, NEW deps, NEW f, Settled(code, labels, bars, deps, f)
    PROVE  EnoughCycles(code, labels, deps, DelaysOf(code, labels, f))
<1> DEFINE delays == DelaysOf(code, labels, f)
<1>1. /\ code \in Seq(InstructionSet) /\ Len(code) \in Nat /\ DOMAIN code = 1 .. Len(code)
      /\ IsCode(code, bars, deps)
  BY SettledIs DEF Settled
<1> SUFFICES ASSUME NEW i \in 1 .. Len(code), NEW j \in 1 .. Len(code),
                    NEW path \in Paths(code, labels, i, j),
                    NEW cycles \in Needed(code, deps, i, j, path)
             PROVE  cycles <= Elapsed(delays, i, path)
  BY <1>1 DEF EnoughCycles
<1> DEFINE end == BlockEnd(code, labels, i)
           Direct == i < j /\ i + 1 .. j - 1 \subseteq path
           Jumps(branch, start) ==
               /\ branch \in i .. Len(code) /\ IsBranch(code[branch])
               /\ start \in Starts(code, labels) /\ start <= j
               /\ path = (i + 1 .. branch) \union (start .. j - 1)
<1>2. end \in i .. Len(code)
  BY <1>1, BlocksAre
<1>3. \/ i < j /\ path = i + 1 .. j - 1
      \/ \E branch, start \in 1 .. Len(code) : Jumps(branch, start)
  <2>1. CASE i < j /\ path = i + 1 .. j - 1
    BY <2>1
  <2>2. ASSUME NEW branch \in {k \in i .. Len(code) : IsBranch(code[k])},
               NEW start \in {k \in Starts(code, labels) : k <= j},
               path = (i + 1 .. branch) \union (start .. j - 1)
        PROVE  Jumps(branch, start) /\ branch \in 1 .. Len(code) /\ start \in 1 .. Len(code)
    <3>1. branch \in 1 .. Len(code) /\ start \in 1 .. Len(code)
      BY <1>1 DEF Starts
    <3> QED BY <2>2, <3>1
  <2> DEFINE Jumping == {k \in i .. Len(code) : IsBranch(code[k])}
             Targets == {k \in Starts(code, labels) : k <= j}
             Way(branch, start) == (i + 1 .. branch) \union (start .. j - 1)
  <2>3. \/ path \in {between \in {i + 1 .. j - 1} : i < j}
        \/ path \in {Way(branch, start) : branch \in Jumping, start \in Targets}
    BY DEF Paths
  <2> HIDE DEF Jumps
  <2>4. CASE path \in {between \in {i + 1 .. j - 1} : i < j}
    BY <2>1, <2>4
  <2>5. CASE path \in {Way(branch, start) : branch \in Jumping, start \in Targets}
    <3>1. PICK branch \in Jumping, start \in Targets : path = Way(branch, start)
      BY <2>5
    <3>2. Jumps(branch, start) /\ branch \in 1 .. Len(code) /\ start \in 1 .. Len(code)
      BY <2>2, <3>1
    <3> QED BY <3>2
  <2> QED BY <2>3, <2>4, <2>5
<1>4. path \subseteq 1 .. Len(code)
  BY <1>1, <1>3
<1>5. ASSUME NEW last \in i - 1 .. Len(code), i .. last \subseteq path \union {i}
      PROVE  /\ Elapsed(delays, i, path) \in Nat
             /\ Cost(code, labels, f, i, last) \in Nat
             /\ Cost(code, labels, f, i, last) <= Elapsed(delays, i, path)
             /\ \A first \in 1 .. Len(code) + 1 : \A to \in first - 1 .. Len(code) :
                   first .. to \subseteq path \union {i} /\ (i .. last) \intersect (first .. to) = {} =>
                       /\ Cost(code, labels, f, first, to) \in Nat
                       /\ Cost(code, labels, f, i, last) + Cost(code, labels, f, first, to)
                              <= Elapsed(delays, i, path)
  <2>1. i \in 1 .. Len(code) + 1 /\ path \in SUBSET (1 .. Len(code))
    BY <1>1, <1>4
  <2>2. Cost(code, labels, f, i, last) \in Nat
    BY <2>1, CostIs
  <2>3. \A first \in 1 .. Len(code) + 1 : \A to \in first - 1 .. Len(code) :
            Cost(code, labels, f, first, to) \in Nat
    BY CostIs
  <2> QED BY <1>5, <2>1, <2>2, <2>3, PathCosts
<1> HIDE DEF delays
<1>6. \A r, kind : HazardLatency(code[i], r, kind) \in Nat
  <2> SUFFICES ASSUME NEW r, NEW kind PROVE HazardLatency(code[i], r, kind) \in Nat
    OBVIOUS
  <2>1. HazardLatency(code[i], r, kind) \in 0 .. LatencyUpperBound
    BY LatenciesAre
  <2> QED BY <2>1 DEF LatencyUpperBound
<1>7. /\ cycles \in Nat
      /\ \/ \E r \in Registers, kind \in Kinds :
               /\ UsesAs(code[j], r, kind) /\ \A k \in path : r \notin code[k].dsts
               /\ cycles <= HazardLatency(code[i], r, kind)
         \/ \E bar \in {deps[i].rd, deps[i].wr} \ {0} :
               bar \in deps[j].wait /\ cycles = SignalLatency
  BY <1>1, NeededIs
<1>8. CASE Direct
  <2>1. j - 1 \in i - 1 .. Len(code) /\ i .. j - 1 \subseteq path \union {i} /\ j \in i + 1 .. Len(code)
    BY <1>1, <1>8
  <2>2. /\ Elapsed(delays, i, path) \in Nat /\ Cost(code, labels, f, i, j - 1) \in Nat
        /\ Cost(code, labels, f, i, j - 1) <= Elapsed(delays, i, path)
    BY <1>5, <2>1
  <2>3. ASSUME NEW r \in Registers, NEW kind \in Kinds, UsesAs(code[j], r, kind),
               \A k \in path : r \notin code[k].dsts, cycles <= HazardLatency(code[i], r, kind)
        PROVE  cycles <= Elapsed(delays, i, path)
    <3>1. Unwritten(code, r, i + 1, j - 1)
      BY <1>8, <2>3 DEF Unwritten
    <3>2. Cost(code, labels, f, i, j - 1) >= HazardLatency(code[i], r, kind)
      BY <2>1, <2>3, <3>1, DirectPath
    <3>3. HazardLatency(code[i], r, kind) \in Nat
      BY <1>6
    <3> QED BY <1>7, <2>2, <2>3, <3>2, <3>3
  <2>4. ASSUME NEW bar \in {deps[i].rd, deps[i].wr} \ {0}, bar \in deps[j].wait, cycles = SignalLatency
        PROVE  cycles <= Elapsed(delays, i, path)
    <3>1. CASE j <= end
      <4>1. j \in i + 1 .. end
        BY <1>1, <1>2, <2>1, <3>1
      <4>2. Cost(code, labels, f, i, j - 1) >= SignalLatency
        BY <2>4, <4>1, BarrierPath
      <4> QED BY <2>2, <2>4, <4>2 DEF SignalLatency
    <3>2. CASE ~(j <= end)
      <4>1. end \in i - 1 .. Len(code) /\ i .. end \subseteq path \union {i}
        <5>1. i .. end \subseteq i .. j - 1
          BY <1>1, <1>2, <3>2
        <5>2. end \in i - 1 .. Len(code)
          BY <1>1, <1>2
        <5> QED BY <2>1, <5>1, <5>2
      <4>2. /\ Cost(code, labels, f, i, end) \in Nat
            /\ Cost(code, labels, f, i, end) <= Elapsed(delays, i, path)
        BY <1>5, <4>1
      <4>3. Cost(code, labels, f, i, end) >= SignalLatency
        BY BarrierPath
      <4> QED BY <2>2, <2>4, <4>2, <4>3 DEF SignalLatency
    <3> QED BY <3>1, <3>2
  <2> QED BY <1>7, <2>3, <2>4
<1>9. ASSUME NEW branch \in 1 .. Len(code), NEW start \in 1 .. Len(code), Jumps(branch, start), ~Direct
      PROVE  cycles <= Elapsed(delays, i, path)
  <2>1. /\ start \in 1 .. Len(code) + 1 /\ j - 1 \in start - 1 .. Len(code)
        /\ branch \in i - 1 .. Len(code) /\ i \in 1 .. branch
    BY <1>1, <1>9
  <2>2. i .. branch \subseteq path \union {i} /\ start .. j - 1 \subseteq path \union {i}
    BY <1>1, <1>9
  <2>3. (i .. branch) \intersect (start .. j - 1) = {}
    <3> SUFFICES ASSUME NEW k \in (i .. branch) \intersect (start .. j - 1) PROVE Direct
      BY <1>9
    <3>1. i < j /\ start <= branch
      BY <1>1, <2>1
    <3>2. \A m \in i + 1 .. j - 1 : m \in i + 1 .. branch \/ m \in start .. j - 1
      BY <1>1, <2>1, <3>1
    <3> QED BY <1>9, <3>1, <3>2
  <2>4. /\ Elapsed(delays, i, path) \in Nat
        /\ Cost(code, labels, f, i, branch) \in Nat /\ Cost(code, labels, f, start, j - 1) \in Nat
        /\ Cost(code, labels, f, i, branch) + Cost(code, labels, f, start, j - 1)
               <= Elapsed(delays, i, path)
    BY <1>5, <2>1, <2>2, <2>3
  <2>5. ASSUME NEW r \in Registers, NEW kind \in Kinds, UsesAs(code[j], r, kind),
               \A k \in path : r \notin code[k].dsts, cycles <= HazardLatency(code[i], r, kind)
        PROVE  cycles <= Elapsed(delays, i, path)
    <3>1. Unwritten(code, r, i + 1, branch) /\ Unwritten(code, r, start, j - 1)
      BY <1>9, <2>5 DEF Unwritten
    <3>2. Cost(code, labels, f, i, branch) + Cost(code, labels, f, start, j - 1)
              >= HazardLatency(code[i], r, kind)
      BY <1>9, <2>1, <2>5, <3>1, BranchPath
    <3>3. HazardLatency(code[i], r, kind) \in Nat
      BY <1>6
    <3> QED BY <1>7, <2>4, <2>5, <3>2, <3>3
  <2>6. ASSUME NEW bar \in {deps[i].rd, deps[i].wr} \ {0}, cycles = SignalLatency
        PROVE  cycles <= Elapsed(delays, i, path)
    <3>1. end <= branch
      <4> SUFFICES ASSUME branch < end PROVE FALSE
        BY <1>1, <1>2
      <4>1. branch \in i .. BlockEnd(code, labels, i)
        BY <1>1, <1>2, <2>1
      <4>2. BlockEnd(code, labels, branch) = end
        BY <1>1, <4>1, BlockEndIs
      <4>3. BlockEnd(code, labels, branch) = branch
        BY <1>1, <1>9, BlocksAre
      <4> QED BY <1>1, <1>2, <4>2, <4>3
    <3>2. end \in i - 1 .. Len(code) /\ i .. end \subseteq path \union {i}
      <4>1. i .. end \subseteq i .. branch
        BY <1>1, <1>2, <3>1
      <4>2. end \in i - 1 .. Len(code)
        BY <1>1, <1>2
      <4> QED BY <2>2, <4>1, <4>2
    <3>3. /\ Cost(code, labels, f, i, end) \in Nat
          /\ Cost(code, labels, f, i, end) <= Elapsed(delays, i, path)
      BY <1>5, <3>2
    <3>4. Cost(code, labels, f, i, end) >= SignalLatency
      BY BarrierPath
    <3> QED BY <2>4, <2>6, <3>3, <3>4 DEF SignalLatency
  <2> QED BY <1>7, <2>5, <2>6
<1> QED BY <1>3, <1>8, <1>9
=============================================================================
