------------------------- MODULE PredicationProofs --------------------------
(***************************************************************************)
(* The execution predicate of module Predication is right for every number *)
(* of lanes, every program and every depth of nesting.                     *)
(***************************************************************************)
EXTENDS Predication, WellFoundedInduction, SequenceTheorems, TLAPS

-----------------------------------------------------------------------------
(* The shape of the state.                                                 *)
LocalState == [Locals -> Word]
Labels == SUBSET (Selectors \cup {Default})
Edges == [returns : Nat, breaks : Nat]
EarlyReturn == [lanes : SUBSET Lanes, value : Word]
BreakEdge == [lanes : SUBSET Lanes, locals : LocalState, argument : Word]
ArmResult == [value : Word \cup {NoValue}, locals : LocalState, argument : Word,
              mask : SUBSET Lanes, partial : BOOLEAN]
ArmFrame == [condition : SUBSET Lanes, parent : SUBSET Lanes, locals : LocalState,
             argument : Word, before : Edges, accepted : {NoValue} \cup ArmResult]
SwitchFrame == [selection : [Lanes -> Selectors], cases : Switches, todo : Seq(Labels),
                matched : SUBSET Lanes]
CallFrame == [mask : SUBSET Lanes, locals : LocalState, argument : Word,
              early : Seq(EarlyReturn)]
LowererFrame == ArmFrame \cup SwitchFrame \cup CallFrame
ArmKinds == {"if", "else", "case"}
Block == [kind : ArmKinds \cup {"switch"}, lanes : SUBSET Lanes]
Activation == [kind : {"call"}, lanes : SUBSET Lanes,
               target : Locals \cup {Argument, NoPointer}, own : LocalState, pointee : Word]

IsArm(k) == nest[k].kind \in ArmKinds
FrameOf(kind) == CASE kind \in ArmKinds -> ArmFrame
                   [] kind = "switch"   -> SwitchFrame
                   [] kind = "call"     -> CallFrame

Frames ==
    /\ nest \in Seq(Block \cup Activation) /\ Depth > 0
    /\ stack \in Seq(LowererFrame) /\ Len(stack) = Depth
    /\ \A k \in 1..Depth : stack[k] \in FrameOf(nest[k].kind)

MeaningType ==
    /\ Frames /\ wait \in [Lanes -> 0..Depth]
    /\ own \in LocalState /\ pointee \in Word /\ given \in Word /\ output \in Word

LowererType ==
    /\ mask \in SUBSET Lanes /\ locals \in LocalState /\ argument \in Word
    /\ early \in Seq(EarlyReturn) /\ breaks \in Seq(Seq(BreakEdge))
    /\ returned \in Word \cup {NoValue} /\ broke \in BOOLEAN
    /\ memory \in Word /\ size \in Nat

-----------------------------------------------------------------------------
(* How constructs nest.                                                    *)
SameFunction(j, k) == \A i \in j+1..k : nest[i].kind # "call"
SameSwitch(j, k) == \A i \in j+1..k : nest[i].kind # "switch"

Nesting ==
    /\ nest[1].kind = "call"
    /\ \A k \in 2..Depth : nest[k].kind = "case" <=> nest[k - 1].kind = "switch"
    /\ \A k \in 1..Depth : \E f \in 1..k : nest[f].kind = "call" /\ SameFunction(f, k)
    /\ \A k \in 1..Depth : nest[k].kind = "switch" =>
          \A j \in k..Depth : \E s \in k..j : nest[s].kind = "switch" /\ SameSwitch(s, j)

(* `slot` finds for every open construct the list of breaks that is        *)
(* innermost in it, 0 outside of switches.                                 *)
Slots(slot) ==
    /\ slot \in [1..Depth -> 0..Len(breaks)]
    /\ slot[1] = 0 /\ slot[Depth] = Len(breaks)
    /\ \A k \in 2..Depth :
          slot[k] = IF nest[k].kind = "switch" THEN slot[k - 1] + 1 ELSE slot[k - 1]
    /\ \A j, k \in 1..Depth : j <= k =>
          slot[j] <= slot[k] /\ (slot[j] = slot[k] <=> SameSwitch(j, k))

(* `returns` counts the early returns of the function it belongs to.       *)
Returns(returns) ==
    /\ returns \in [1..Depth -> Nat] /\ returns[Depth] = Len(early)
    /\ \A k \in 1..Depth - 1 :
          returns[k] = IF nest[k + 1].kind = "call" THEN Len(stack[k + 1].early)
                                                    ELSE returns[k + 1]

-----------------------------------------------------------------------------
(* Where lanes wait.                                                       *)
At(k) == { l \in Lanes : wait[l] = k }
Inside(k) == { l \in Lanes : wait[l] = 0 \/ wait[l] > k }

Start(k) == IF nest[k].kind = "else" THEN stack[k].parent \ stack[k].condition
                                     ELSE stack[k].parent \cap stack[k].condition

(* The lanes of a switch that go on behind the case that is open.          *)
Outside(k) == IF k = Depth THEN mask ELSE stack[k + 1].parent \ stack[k + 1].condition
Todo(k) == IF k = Depth THEN stack[k].todo ELSE Tail(stack[k].todo)

AcceptedArm(k) ==
    LET a == stack[k].accepted IN
    /\ a \in ArmResult
    /\ a.value # NoValue => a.mask = {}
    /\ a.value = NoValue /\ ~a.partial => a.mask = stack[k].parent \cap stack[k].condition

Waiting(k, slot) ==
    /\ nest[k].kind = "if" => At(k) = nest[k].lanes
                              /\ nest[k].lanes = stack[k].parent \ stack[k].condition
    /\ nest[k].kind = "else" => AcceptedArm(k) /\ At(k) = stack[k].accepted.mask
    /\ nest[k].kind = "case" => At(k) = {}
    /\ nest[k].kind = "switch" => /\ At(k) = Outside(k) \cup Covered(breaks[slot[k]])
                                  /\ Outside(k) \cap Covered(breaks[slot[k]]) = {}
    /\ nest[k].kind = "call" => At(k) \cup Inside(k) = stack[k].mask

(* The cases still to come find all the lanes that select them.            *)
DisjointLabels(todo) == \A i, j \in DOMAIN todo : i # j => todo[i] \cap todo[j] = {}
AllLabels(todo) == UNION { todo[i] : i \in DOMAIN todo }

SwitchOk(s) ==
    /\ DisjointLabels(s.todo) /\ AllLabels(s.todo) \subseteq AllLabels(s.cases)
    /\ Grouped(s.cases) => s.matched = Selected(s.selection, Literals(s.cases))
    /\ ~Grouped(s.cases) =>
          /\ \A i \in DOMAIN s.todo : Default \in s.todo[i] =>
                i = Len(s.todo) /\ s.todo[i] = {Default}
          /\ s.todo # <<>> => s.matched \cup Selected(s.selection, AllLabels(s.todo) \ {Default})
                              = Selected(s.selection, Literals(s.cases))

CasesFind(k) ==
    nest[k].kind = "switch" =>
        /\ SwitchOk(stack[k])
        /\ \A l \in nest[k].lanes : \A i \in DOMAIN Todo(k) :
              l \in Taken(stack[k], Todo(k)[i]) => l \in Outside(k)
        /\ k = Depth => mask \subseteq nest[k].lanes
        /\ k < Depth => /\ stack[k].todo # <<>>
                        /\ stack[k + 1].condition = CaseCondition(stack[k], Head(stack[k].todo))
                        /\ stack[k + 1].parent \subseteq nest[k].lanes

-----------------------------------------------------------------------------
(* A lane has left an arm by a return that no early return stands for yet. *)
Pending(k) ==
    \/ returned # NoValue /\ SameFunction(k, Depth)
    \/ \E j \in k+1..Depth : /\ nest[j].kind = "else" /\ stack[j].accepted.value # NoValue
                             /\ SameFunction(k, j)

BreaksOf(k, slot) == IF slot[k] = 0 THEN 0 ELSE Len(breaks[slot[k]])

(* When no edge has been added since an arm began, no lane has left it.    *)
EdgesTell(k, slot, returns) ==
    IsArm(k) =>
        /\ stack[k].before.returns <= returns[k] /\ stack[k].before.breaks <= BreaksOf(k, slot)
        /\ Inside(k) \subseteq Start(k)
        /\ stack[k].before.returns = returns[k] /\ stack[k].before.breaks = BreaksOf(k, slot)
           /\ ~Pending(k) => Inside(k) = Start(k)

Live ==
    /\ Top.kind = "switch" => Running = {} /\ returned = NoValue
    /\ Top.kind # "switch" /\ returned = NoValue => mask = Running
    /\ returned # NoValue => Running = {}

Inductive(slot, returns) ==
    /\ MeaningType /\ LowererType /\ Nesting /\ Slots(slot) /\ Returns(returns) /\ Live
    /\ \A k \in 1..Depth : Waiting(k, slot) /\ CasesFind(k) /\ EdgesTell(k, slot, returns)

-----------------------------------------------------------------------------
(* A set of natural numbers that is not empty has a least element.         *)
LEMMA LeastElement ==
    ASSUME NEW T, T \subseteq Nat, T # {}
    PROVE  \E n \in T : \A m \in T : n <= m
<1> DEFINE R == OpToRel(<, Nat)
<1>1. IsWellFoundedOn(R, Nat)
  BY NatLessThanWellFounded
<1>2. \A a, b \in Nat : a < b => <<a, b>> \in R
  BY DEF OpToRel
<1> HIDE DEF R
<1>3. PICK n \in T : \A m \in T : ~ (<<m, n>> \in R)
  BY <1>1, WFMin
<1>4. \A m \in T : ~ (m < n)
  BY <1>2, <1>3
<1> QED BY <1>4

(* A lane that some entry covers has a first one.                          *)
LEMMA FirstCovers ==
    ASSUME NEW S, NEW entries \in Seq(S), NEW l \in Covered(entries)
    PROVE  First(entries, l) \in DOMAIN entries /\ l \in entries[First(entries, l)].lanes
<1> DEFINE T == { k \in DOMAIN entries : l \in entries[k].lanes }
<1>1. T \subseteq Nat /\ T # {}
  BY DEF Covered
<1>2. PICK n \in T : \A m \in T : n <= m
  BY <1>1, LeastElement
<1>3. DOMAIN entries = 1..Len(entries) /\ Len(entries) \in Nat
  OBVIOUS
<1>4. \A j \in 1..n-1 : l \notin entries[j].lanes
  BY <1>2, <1>3
<1> QED BY <1>2, <1>4 DEF First

LEMMA SelectType ==
    ASSUME NEW condition, NEW a \in Word, NEW b \in Word
    PROVE  Select(condition, a, b) \in Word
BY DEF Select, Word

LEMMA UpdateType ==
    ASSUME NEW w \in Word, NEW lanes, NEW v \in Word
    PROVE  Update(w, lanes, v) \in Word
BY DEF Update, Word

LEMMA ZerosType == Zeros \in Word
BY InvocationsAssumption DEF Zeros, Word

(* A value that is returned early is one, and so is what is made of it.    *)
LEMMA FinalizeType ==
    ASSUME early \in Seq(EarlyReturn), NEW v \in Word
    PROVE  FinalizeReturn(v) \in Word
<1>1. ASSUME NEW l \in Lanes, l \in Covered(early)
      PROVE  early[First(early, l)].value[l] \in Values
  <2>1. early[First(early, l)] \in EarlyReturn
    BY <1>1, FirstCovers
  <2> QED BY <2>1 DEF EarlyReturn, Word
<1> QED BY <1>1 DEF FinalizeReturn, Word

(* Opening and closing constructs.                                         *)
LEMMA Opening ==
    ASSUME NEW S, NEW s \in Seq(S), NEW e \in S
    PROVE  /\ Append(s, e) \in Seq(S) /\ Len(Append(s, e)) = Len(s) + 1
           /\ \A k \in 1..Len(s) : Append(s, e)[k] = s[k]
           /\ Append(s, e)[Len(s) + 1] = e
BY AppendProperties

LEMMA Closing ==
    ASSUME NEW S, NEW s \in Seq(S), Len(s) > 0
    PROVE  /\ SubSeq(s, 1, Len(s) - 1) \in Seq(S)
           /\ Len(SubSeq(s, 1, Len(s) - 1)) = Len(s) - 1
           /\ \A k \in 1..Len(s) - 1 : SubSeq(s, 1, Len(s) - 1)[k] = s[k]
<1> DEFINE n == Len(s) - 1
<1>1. n \in Nat /\ \A k \in 1..n : s[k] \in S
  OBVIOUS
<1>2. /\ SubSeq(s, 1, n) \in Seq(S)
      /\ Len(SubSeq(s, 1, n)) = IF 1 <= n THEN n - 1 + 1 ELSE 0
      /\ \A k \in 1..n - 1 + 1 : SubSeq(s, 1, n)[k] = s[1 + k - 1]
  <2> HIDE DEF n
  <2> QED BY <1>1, SubSeqProperties
<1>3. Len(SubSeq(s, 1, n)) = n
  <2> HIDE DEF n
  <2> QED BY <1>1, <1>2
<1>4. \A k \in 1..n : SubSeq(s, 1, n)[k] = s[k]
  <2> HIDE DEF n
  <2> QED BY <1>1, <1>2
<1> QED BY <1>2, <1>3, <1>4

-----------------------------------------------------------------------------
(* Constructs and how they nest.                                           *)
LEMMA FunctionIsInnermost ==
    ASSUME MeaningType, Nesting
    PROVE  Function \in 1..Depth /\ nest[Function].kind = "call" /\ SameFunction(Function, Depth)
<1>1. Depth \in 1..Depth
  BY DEF MeaningType, Frames, Depth
<1>2. PICK f \in 1..Depth : nest[f].kind = "call" /\ SameFunction(f, Depth)
  BY <1>1 DEF Nesting
<1>3. nest[f].kind = "call" /\ \A j \in f+1..Depth : nest[j].kind # "call"
  BY <1>2 DEF SameFunction
<1>4. \E k \in 1..Depth : nest[k].kind = "call" /\ \A j \in k+1..Depth : nest[j].kind # "call"
  BY <1>3
<1> QED BY <1>4 DEF Function, Innermost, SameFunction

LEMMA SwitchIsInnermost ==
    ASSUME MeaningType, Nesting, InSwitch
    PROVE  LET s == Innermost("switch") IN
           s \in Function+1..Depth /\ nest[s].kind = "switch" /\ SameSwitch(s, Depth)
<1>1. Depth \in 1..Depth /\ Depth \in Nat
  BY DEF MeaningType, Frames, Depth
<1>2. PICK k \in 1..Depth : k > Function /\ nest[k].kind = "switch"
  BY DEF InSwitch
<1>3. PICK s \in k..Depth : nest[s].kind = "switch" /\ SameSwitch(s, Depth)
  BY <1>1, <1>2 DEF Nesting
<1>4. nest[s].kind = "switch" /\ \A j \in s+1..Depth : nest[j].kind # "switch"
  BY <1>3 DEF SameSwitch
<1> DEFINE i == Innermost("switch")
<1>5. i \in 1..Depth /\ nest[i].kind = "switch" /\ \A j \in i+1..Depth : nest[j].kind # "switch"
  <2>1. \E q \in 1..Depth : nest[q].kind = "switch" /\ \A j \in q+1..Depth : nest[j].kind # "switch"
    BY <1>2, <1>3, <1>4
  <2> QED BY <2>1 DEF Innermost
<1>6. i >= k
  <2> HIDE DEF i
  <2> QED BY <1>1, <1>2, <1>5
<1>7. Function \in 1..Depth
  BY FunctionIsInnermost
<1> HIDE DEF i
<1>8. i \in Function+1..Depth
  BY <1>1, <1>2, <1>5, <1>6, <1>7
<1> QED BY <1>5, <1>8 DEF SameSwitch, i

(* What holds of the constructs up to `d` holds as long as their kinds do. *)
KindsKept(d) ==
    \A i \in 1..d : /\ nest'[i].kind = "call" <=> nest[i].kind = "call"
                    /\ nest'[i].kind = "switch" <=> nest[i].kind = "switch"
                    /\ nest'[i].kind = "case" <=> nest[i].kind = "case"

LEMMA SameKept ==
    ASSUME NEW d \in Nat, KindsKept(d), NEW j \in Nat, NEW k \in 0..d
    PROVE  /\ SameFunction(j, k)' <=> SameFunction(j, k)
           /\ SameSwitch(j, k)' <=> SameSwitch(j, k)
BY DEF KindsKept, SameFunction, SameSwitch

LEMMA NestingKept ==
    ASSUME MeaningType, Nesting, NEW d \in 1..Depth, KindsKept(d), Depth' = d
    PROVE  Nesting'
<1>1. Depth \in Nat /\ d \in Nat
  BY DEF MeaningType, Frames, Depth
<1>2. nest'[1].kind = "call"
  BY <1>1 DEF Nesting, KindsKept
<1>3. \A k \in 2..d : nest'[k].kind = "case" <=> nest'[k - 1].kind = "switch"
  <2> TAKE k \in 2..d
  <2>1. k \in 2..Depth /\ k \in 1..d /\ k - 1 \in 1..d
    BY <1>1
  <2> QED BY <2>1 DEF Nesting, KindsKept
<1>4. ASSUME NEW k \in 1..d
      PROVE  \E f \in 1..k : nest'[f].kind = "call" /\ SameFunction(f, k)'
  <2>1. PICK f \in 1..k : nest[f].kind = "call" /\ SameFunction(f, k)
    BY <1>1 DEF Nesting
  <2>2. SameFunction(f, k)' /\ nest'[f].kind = "call"
    BY <1>1, <2>1, SameKept DEF KindsKept
  <2> QED BY <2>2
<1>5. ASSUME NEW k \in 1..d, nest'[k].kind = "switch", NEW j \in k..d
      PROVE  \E s \in k..j : nest'[s].kind = "switch" /\ SameSwitch(s, j)'
  <2>1. nest[k].kind = "switch" /\ k \in 1..Depth /\ j \in k..Depth
    BY <1>1, <1>5 DEF KindsKept
  <2>2. PICK s \in k..j : nest[s].kind = "switch" /\ SameSwitch(s, j)
    BY <2>1 DEF Nesting
  <2>3. SameSwitch(s, j)' /\ nest'[s].kind = "switch"
    BY <1>1, <2>2, SameKept DEF KindsKept
  <2> QED BY <2>3
<1> QED BY <1>1, <1>2, <1>3, <1>4, <1>5 DEF Nesting

LEMMA SlotsKept ==
    ASSUME MeaningType, LowererType, NEW slot, Slots(slot), NEW d \in 1..Depth, KindsKept(d),
           Depth' = d, Len(breaks') \in Nat, slot[d] = Len(breaks')
    PROVE  Slots([k \in 1..d |-> slot[k]])'
<1> DEFINE kept == [k \in 1..d |-> slot[k]]
<1>1. Depth \in Nat /\ d \in Nat
  BY DEF MeaningType, Frames, Depth
<1>2. \A k \in 1..d : slot[k] \in Nat /\ slot[k] <= slot[d]
  BY <1>1 DEF Slots
<1>3. kept \in [1..d -> 0..Len(breaks')]
  BY <1>2, <1>1
<1>4. kept[1] = 0 /\ kept[d] = Len(breaks')
  BY <1>1 DEF Slots
<1>5. \A k \in 2..d : kept[k] = IF nest'[k].kind = "switch" THEN kept[k - 1] + 1 ELSE kept[k - 1]
  <2> TAKE k \in 2..d
  <2>1. k \in 2..Depth /\ k \in 1..d /\ k - 1 \in 1..d
    BY <1>1
  <2> QED BY <2>1 DEF Slots, KindsKept
<1>6. \A j, k \in 1..d : j <= k =>
         kept[j] <= kept[k] /\ (kept[j] = kept[k] <=> SameSwitch(j, k)')
  BY <1>1, SameKept DEF Slots
<1> HIDE DEF kept
<1>7. Slots(kept)'
  BY <1>3, <1>4, <1>5, <1>6 DEF Slots
<1> QED BY <1>7 DEF kept

LEMMA ReturnsKept ==
    ASSUME MeaningType, LowererType, NEW returns, Returns(returns), NEW d \in 1..Depth,
           KindsKept(d), Depth' = d, returns[d] = Len(early'),
           \A k \in 1..d : nest[k].kind = "call" => stack'[k].early = stack[k].early
    PROVE  Returns([k \in 1..d |-> returns[k]])'
<1> DEFINE kept == [k \in 1..d |-> returns[k]]
<1>1. Depth \in Nat /\ d \in Nat
  BY DEF MeaningType, Frames, Depth
<1>2. kept \in [1..d -> Nat] /\ kept[d] = Len(early')
  BY <1>1 DEF Returns
<1>3. \A k \in 1..d - 1 :
         kept[k] = IF nest'[k + 1].kind = "call" THEN Len(stack'[k + 1].early) ELSE kept[k + 1]
  <2> TAKE k \in 1..d - 1
  <2>1. k \in 1..Depth - 1 /\ k + 1 \in 1..d /\ k \in 1..d
    BY <1>1
  <2> QED BY <2>1 DEF Returns, KindsKept
<1> HIDE DEF kept
<1>4. Returns(kept)'
  BY <1>2, <1>3 DEF Returns
<1> QED BY <1>4 DEF kept

(* An early return counts in the constructs of its function.               *)
Counted(returns, d) == [k \in 1..d |-> IF SameFunction(k, Depth) THEN returns[k] + 1 ELSE returns[k]]

LEMMA ReturnsCounted ==
    ASSUME MeaningType, LowererType, NEW returns, Returns(returns), NEW d \in 1..Depth,
           d = Depth - 1, nest[Depth].kind # "call",
           KindsKept(d), Depth' = d, Len(early') = Len(early) + 1,
           \A k \in 1..d : nest[k].kind = "call" => stack'[k].early = stack[k].early,
           NEW kept, kept = Counted(returns, d)
    PROVE  Returns(kept)'
<1>1. Depth \in Nat /\ d \in Nat /\ d > 0
  BY DEF MeaningType, Frames, Depth
<1>2. kept \in [1..d -> Nat]
  BY <1>1 DEF Returns, Counted
<1>3. SameFunction(d, Depth)
  BY <1>1 DEF SameFunction
<1>4. kept[d] = Len(early')
  BY <1>1, <1>3 DEF Returns, Counted
<1>5. ASSUME NEW k \in 1..d - 1
      PROVE  kept[k] = IF nest'[k + 1].kind = "call" THEN Len(stack'[k + 1].early) ELSE kept[k + 1]
  <2>1. k \in 1..Depth - 1 /\ k + 1 \in 1..d /\ k \in 1..d
    BY <1>1
  <2>2. returns[k] = IF nest[k + 1].kind = "call" THEN Len(stack[k + 1].early) ELSE returns[k + 1]
    BY <2>1 DEF Returns
  <2>3. nest'[k + 1].kind = "call" <=> nest[k + 1].kind = "call"
    BY <2>1 DEF KindsKept
  <2>4. CASE nest[k + 1].kind = "call"
    <3>1. ~SameFunction(k, Depth)
      BY <1>1, <2>1, <2>4 DEF SameFunction
    <3> QED BY <2>1, <2>2, <2>3, <2>4, <3>1 DEF Counted
  <2>5. CASE nest[k + 1].kind # "call"
    <3>1. SameFunction(k, Depth) <=> SameFunction(k + 1, Depth)
      BY <1>1, <2>1, <2>5 DEF SameFunction
    <3> QED BY <2>1, <2>2, <2>3, <2>5, <3>1 DEF Counted
  <2> QED BY <2>4, <2>5
<1> QED BY <1>2, <1>4, <1>5 DEF Returns

(* A construct is opened.                                                  *)
Extended(f, e) == [k \in 1..Depth + 1 |-> IF k <= Depth THEN f[k] ELSE e]

Opened(block, frame) ==
    /\ Depth' = Depth + 1 /\ stack' \in Seq(LowererFrame)
    /\ \A k \in 1..Depth : nest'[k] = nest[k] /\ stack'[k] = stack[k]
    /\ nest'[Depth + 1] = block /\ stack'[Depth + 1] = frame

LEMMA NestingOpened ==
    ASSUME MeaningType, Nesting, NEW block, NEW frame, Opened(block, frame),
           block.kind = "case" <=> Top.kind = "switch"
    PROVE  Nesting'
<1>0. PICK d, m : d = Depth + 1 /\ m = Depth
  OBVIOUS
<1>1. Depth \in Nat /\ Depth > 0 /\ d = Depth + 1 /\ m = Depth
  BY <1>0 DEF MeaningType, Frames, Depth
<1>2. Depth' = d /\ KindsKept(Depth) /\ nest'[d] = block
  BY <1>1 DEF Opened, KindsKept
<1>3. nest'[1].kind = "call"
  BY <1>1 DEF Nesting, Opened
<1>4. \A k \in 2..d : nest'[k].kind = "case" <=> nest'[k - 1].kind = "switch"
  <2> TAKE k \in 2..d
  <2>1. CASE k \in 2..Depth
    <3>1. k \in 1..Depth /\ k - 1 \in 1..Depth
      BY <1>1, <2>1
    <3> QED BY <2>1, <3>1 DEF Nesting, Opened
  <2>2. CASE k = Depth + 1
    BY <1>1, <2>2 DEF Opened, Top
  <2> QED BY <1>1, <2>1, <2>2
<1>5. ASSUME NEW k \in 1..d
      PROVE  \E f \in 1..k : nest'[f].kind = "call" /\ SameFunction(f, k)'
  <2>1. \A f \in 1..Depth : SameFunction(f, m)' <=> SameFunction(f, Depth)
    BY <1>1, <1>2, SameKept
  <2>2. CASE k <= Depth
    <3>1. PICK f \in 1..k : nest[f].kind = "call" /\ SameFunction(f, k)
      BY <1>1, <2>2 DEF Nesting
    <3>2. SameFunction(f, k)' /\ nest'[f].kind = "call"
      BY <1>1, <1>2, <2>2, <3>1, SameKept DEF KindsKept
    <3> QED BY <3>2
  <2>3. CASE k = d /\ block.kind = "call"
    BY <1>1, <1>2, <2>3 DEF SameFunction
  <2>4. CASE k = d /\ block.kind # "call"
    <3>1. PICK f \in 1..Depth : nest[f].kind = "call" /\ SameFunction(f, Depth)
      BY <1>1 DEF Nesting
    <3>2. SameFunction(f, m)' /\ nest'[f].kind = "call"
      BY <1>1, <1>2, <3>1, SameKept DEF KindsKept
    <3>3. SameFunction(f, d)'
      BY <1>1, <1>2, <2>4, <3>2 DEF SameFunction
    <3> QED BY <1>1, <2>4, <3>2, <3>3
  <2> QED BY <1>1, <2>2, <2>3, <2>4
<1>6. ASSUME NEW k \in 1..d, nest'[k].kind = "switch", NEW j \in k..d
      PROVE  \E s \in k..j : nest'[s].kind = "switch" /\ SameSwitch(s, j)'
  <2>1. CASE j <= Depth
    <3>1. nest[k].kind = "switch" /\ k \in 1..Depth /\ j \in k..Depth
      BY <1>1, <1>2, <1>6, <2>1 DEF KindsKept
    <3>2. PICK s \in k..j : nest[s].kind = "switch" /\ SameSwitch(s, j)
      BY <3>1 DEF Nesting
    <3>3. SameSwitch(s, j)' /\ nest'[s].kind = "switch"
      BY <1>1, <1>2, <3>1, <3>2, SameKept DEF KindsKept
    <3> QED BY <3>3
  <2>2. CASE j = d /\ block.kind = "switch"
    BY <1>1, <1>2, <2>2 DEF SameSwitch
  <2>3. CASE j = d /\ block.kind # "switch"
    <3>1. nest[k].kind = "switch" /\ k \in 1..Depth
      BY <1>1, <1>2, <1>6, <2>3 DEF KindsKept
    <3>2. PICK s \in k..Depth : nest[s].kind = "switch" /\ SameSwitch(s, Depth)
      BY <1>1, <3>1 DEF Nesting
    <3>3. SameSwitch(s, m)' /\ nest'[s].kind = "switch"
      BY <1>1, <1>2, <3>1, <3>2, SameKept DEF KindsKept
    <3>4. SameSwitch(s, d)'
      BY <1>1, <1>2, <2>3, <3>3 DEF SameSwitch
    <3> QED BY <1>1, <2>3, <3>1, <3>2, <3>3, <3>4
  <2> QED BY <1>1, <2>1, <2>2, <2>3
<1> QED BY <1>1, <1>2, <1>3, <1>4, <1>5, <1>6 DEF Nesting

LEMMA SlotsOpened ==
    ASSUME MeaningType, LowererType, NEW slot, Slots(slot), NEW block, NEW frame,
           Opened(block, frame), Len(breaks') \in Nat,
           Len(breaks') = IF block.kind = "switch" THEN Len(breaks) + 1 ELSE Len(breaks),
           NEW more, more = Extended(slot, Len(breaks'))
    PROVE  Slots(more)'
<1>0. PICK d, m : d = Depth + 1 /\ m = Depth
  OBVIOUS
<1>1. Depth \in Nat /\ Depth > 0 /\ Len(breaks) \in Nat /\ d = Depth + 1 /\ m = Depth
  BY <1>0 DEF MeaningType, Frames, Depth, LowererType
<1>2. Depth' = d /\ KindsKept(Depth) /\ nest'[d] = block
  BY <1>1 DEF Opened, KindsKept
<1>3. \A k \in 1..Depth : more[k] = slot[k] /\ slot[k] \in 0..Len(breaks)
  BY <1>1 DEF Slots, Extended
<1>4. more[d] = Len(breaks')
  BY <1>1 DEF Extended
<1>5. more \in [1..d -> 0..Len(breaks')]
  <2>1. Len(breaks) <= Len(breaks')
    BY <1>1
  <2>2. \A k \in 1..Depth : more[k] \in 0..Len(breaks')
    BY <1>1, <1>3, <2>1
  <2>3. \A k \in 1..d : more[k] \in 0..Len(breaks')
    <3>1. \A k \in 1..d : k \in 1..Depth \/ k = d
      BY <1>1
    <3>2. more[d] \in 0..Len(breaks')
      BY <1>4
    <3> QED BY <2>2, <3>1, <3>2
  <2>4. more = [k \in 1..d |-> more[k]]
    BY <1>1 DEF Extended
  <2> QED BY <2>3, <2>4
<1>6. more[1] = 0
  BY <1>1, <1>3 DEF Slots
<1>7. \A k \in 2..d : more[k] = IF nest'[k].kind = "switch" THEN more[k - 1] + 1 ELSE more[k - 1]
  <2> TAKE k \in 2..d
  <2>1. CASE k \in 2..Depth
    <3>1. k \in 1..Depth /\ k - 1 \in 1..Depth
      BY <1>1, <2>1
    <3> QED BY <2>1, <3>1, <1>3, <1>2 DEF Slots, KindsKept
  <2>2. CASE k = Depth + 1
    <3>1. more[k - 1] = Len(breaks)
      BY <1>1, <1>3, <2>2 DEF Slots
    <3> QED BY <1>1, <1>2, <1>4, <2>2, <3>1
  <2> QED BY <1>1, <2>1, <2>2
<1>8. ASSUME NEW j \in 1..d, NEW k \in 1..d, j <= k
      PROVE  more[j] <= more[k] /\ (more[j] = more[k] <=> SameSwitch(j, k)')
  <2>1. CASE k <= Depth
    BY <1>1, <1>2, <1>3, <1>8, <2>1, SameKept DEF Slots
  <2>2. CASE j = d
    BY <1>1, <1>2, <1>4, <1>8, <2>2 DEF SameSwitch
  <2>3. CASE j <= Depth /\ k = d
    <3>1. more[j] = slot[j] /\ slot[j] <= Len(breaks)
          /\ (slot[j] = Len(breaks) <=> SameSwitch(j, Depth))
      BY <1>1, <1>3, <2>3 DEF Slots
    <3>2. SameSwitch(j, m)' <=> SameSwitch(j, Depth)
      BY <1>1, <1>2, <2>3, SameKept
    <3>3. SameSwitch(j, d)' <=> SameSwitch(j, m)' /\ block.kind # "switch"
      BY <1>1, <1>2, <2>3 DEF SameSwitch
    <3> QED BY <1>1, <1>3, <1>4, <2>3, <3>1, <3>2, <3>3
  <2> QED BY <1>1, <1>8, <2>1, <2>2, <2>3
<1> QED BY <1>1, <1>2, <1>4, <1>5, <1>6, <1>7, <1>8 DEF Slots

LEMMA ReturnsOpened ==
    ASSUME MeaningType, LowererType, NEW returns, Returns(returns), NEW block, NEW frame,
           Opened(block, frame), early' \in Seq(EarlyReturn),
           IF block.kind = "call" THEN frame.early = early ELSE early' = early,
           NEW more, more = Extended(returns, Len(early'))
    PROVE  Returns(more)'
<1>0. PICK d : d = Depth + 1
  OBVIOUS
<1>1. Depth \in Nat /\ Depth > 0 /\ Len(early') \in Nat /\ d = Depth + 1
  BY <1>0 DEF MeaningType, Frames, Depth
<1>2. Depth' = d /\ nest'[d] = block /\ stack'[d] = frame
  BY <1>1 DEF Opened
<1>3. (\A k \in 1..Depth : more[k] = returns[k]) /\ more[d] = Len(early')
  BY <1>1 DEF Extended
<1>4. more \in [1..d -> Nat]
  BY <1>1 DEF Extended, Returns
<1>5. ASSUME NEW k \in 1..d - 1
      PROVE  more[k] = IF nest'[k + 1].kind = "call" THEN Len(stack'[k + 1].early) ELSE more[k + 1]
  <2>1. CASE k = Depth
    BY <1>1, <1>2, <1>3, <2>1 DEF Returns
  <2>2. CASE k < Depth
    <3>1. k \in 1..Depth - 1 /\ k \in 1..Depth /\ k + 1 \in 1..Depth
      BY <1>1, <2>2
    <3> QED BY <3>1, <1>3 DEF Returns, Opened
  <2> QED BY <1>1, <2>1, <2>2
<1> QED BY <1>1, <1>2, <1>3, <1>4, <1>5 DEF Returns

Closed(d) ==
    /\ Depth' = d /\ stack' \in Seq(LowererFrame)
    /\ \A k \in 1..d : nest'[k] = nest[k]
    /\ \A k \in 1..d - 1 : stack'[k] = stack[k]

-----------------------------------------------------------------------------
(* Every step keeps the types.                                             *)
LEMMA FrameTypes ==
    \A kind \in ArmKinds \cup {"switch", "call"} :
       /\ FrameOf(kind) \subseteq LowererFrame
       /\ kind \in ArmKinds => FrameOf(kind) = ArmFrame
       /\ kind = "switch" => FrameOf(kind) = SwitchFrame
       /\ kind = "call" => FrameOf(kind) = CallFrame
BY DEF FrameOf, ArmKinds, LowererFrame

LEMMA BlockKinds ==
    ASSUME Frames, NEW k \in 1..Depth
    PROVE  /\ nest[k] \in Block \cup Activation
           /\ nest[k].kind \in ArmKinds \cup {"switch", "call"}
           /\ nest[k].kind = "call" => nest[k] \in Activation
           /\ nest[k].kind # "call" => nest[k] \in Block
           /\ nest[k].lanes \subseteq Lanes
<1>1. nest[k] \in Block \cup Activation
  BY DEF Frames, Depth
<1> QED BY <1>1 DEF Block, Activation, ArmKinds

LEMMA OpenedTypes ==
    ASSUME Frames, NEW block \in Block \cup Activation, NEW frame \in FrameOf(block.kind),
           nest' = Append(nest, block), stack' = Append(stack, frame)
    PROVE  Frames' /\ Opened(block, frame)
<1>1. Depth \in Nat /\ Depth > 0
  BY DEF Frames, Depth
<1>2. /\ nest' \in Seq(Block \cup Activation) /\ Depth' = Depth + 1
      /\ \A k \in 1..Depth : nest'[k] = nest[k]
      /\ nest'[Depth + 1] = block
  BY Opening DEF Frames, Depth
<1>3. frame \in LowererFrame
  <2>1. block.kind \in ArmKinds \cup {"switch", "call"}
    BY DEF Block, Activation, ArmKinds
  <2> QED BY <2>1, FrameTypes
<1>4. /\ stack' \in Seq(LowererFrame) /\ Len(stack') = Depth + 1
      /\ \A k \in 1..Depth : stack'[k] = stack[k]
      /\ stack'[Depth + 1] = frame
  BY <1>3, Opening DEF Frames
<1>5. \A k \in 1..Depth' : stack'[k] \in FrameOf(nest'[k].kind)
  <2> TAKE k \in 1..Depth'
  <2>1. CASE k \in 1..Depth
    BY <1>2, <1>4, <2>1 DEF Frames
  <2>2. CASE k = Depth + 1
    BY <1>2, <1>4, <2>2
  <2>3. k \in 1..Depth \/ k = Depth + 1
    BY <1>1, <1>2
  <2> QED BY <2>1, <2>2, <2>3
<1>6. Depth' > 0 /\ Len(stack') = Depth'
  BY <1>1, <1>2, <1>4
<1>7. Frames'
  BY <1>2, <1>4, <1>5, <1>6 DEF Frames
<1> QED BY <1>2, <1>4, <1>7 DEF Opened

LEMMA ClosedTypes ==
    ASSUME Frames, Depth > 1, nest' = Pop, stack' = SubSeq(stack, 1, Depth - 1)
    PROVE  Frames' /\ Closed(Depth - 1) /\ \A k \in 1..Depth - 1 : stack'[k] = stack[k]
<1>1. Depth \in Nat /\ Depth > 0
  BY DEF Frames, Depth
<1>2. /\ nest' \in Seq(Block \cup Activation) /\ Depth' = Depth - 1
      /\ \A k \in 1..Depth - 1 : nest'[k] = nest[k]
  BY Closing DEF Frames, Depth, Pop
<1>3. /\ stack' \in Seq(LowererFrame) /\ Len(stack') = Depth - 1
      /\ \A k \in 1..Depth - 1 : stack'[k] = stack[k]
  BY Closing DEF Frames
<1>4. \A k \in 1..Depth' : stack'[k] \in FrameOf(nest'[k].kind)
  BY <1>1, <1>2, <1>3 DEF Frames
<1> QED BY <1>1, <1>2, <1>3, <1>4 DEF Frames, Closed

(* What EndCase does to the frames: the switch below goes on.              *)
LEMMA CaseClosedTypes ==
    ASSUME Frames, Depth > 2, nest' = Pop, NEW frame \in SwitchFrame,
           nest[Depth - 1].kind = "switch",
           stack' = Append(SubSeq(stack, 1, Depth - 2), frame)
    PROVE  Frames' /\ Closed(Depth - 1) /\ stack'[Depth - 1] = frame
<1>0. PICK d : d = Depth - 2
  OBVIOUS
<1>1. Depth \in Nat /\ Depth > 0 /\ d \in Nat /\ d + 1 = Depth - 1
  BY <1>0 DEF Frames, Depth
<1>2. /\ nest' \in Seq(Block \cup Activation) /\ Depth' = Depth - 1
      /\ \A k \in 1..Depth - 1 : nest'[k] = nest[k]
  BY Closing DEF Frames, Depth, Pop
<1> DEFINE s == SubSeq(stack, 1, d)
<1>3. s \in Seq(LowererFrame) /\ Len(s) = d /\ \A k \in 1..d : s[k] = stack[k]
  <2>1. \A k \in 1..d : stack[k] \in LowererFrame
    BY <1>0, <1>1 DEF Frames
  <2>2. /\ SubSeq(stack, 1, d) \in Seq(LowererFrame)
        /\ Len(SubSeq(stack, 1, d)) = IF 1 <= d THEN d - 1 + 1 ELSE 0
        /\ \A k \in 1..d - 1 + 1 : SubSeq(stack, 1, d)[k] = stack[1 + k - 1]
    BY <1>1, <2>1, SubSeqProperties
  <2> QED BY <1>1, <2>2
<1> HIDE DEF s
<1>4. frame \in LowererFrame
  BY DEF LowererFrame
<1>5. /\ stack' \in Seq(LowererFrame) /\ Len(stack') = d + 1
      /\ \A k \in 1..d : stack'[k] = stack[k]
      /\ stack'[d + 1] = frame
  BY <1>0, <1>3, <1>4, Opening DEF s
<1>6. \A k \in 1..Depth' : stack'[k] \in FrameOf(nest'[k].kind)
  <2> TAKE k \in 1..Depth'
  <2>1. CASE k \in 1..d
    BY <1>0, <1>1, <1>2, <1>5, <2>1 DEF Frames
  <2>2. CASE k = d + 1
    BY <1>0, <1>1, <1>2, <1>5, <2>2, FrameTypes
  <2> QED BY <1>0, <1>1, <1>2, <2>1, <2>2
<1> QED BY <1>0, <1>1, <1>2, <1>5, <1>6 DEF Frames, Closed

LEMMA Assumptions ==
    /\ Zeros \in Word /\ NoValue \notin Word /\ Operands \subseteq Word
    /\ Conditions \subseteq SUBSET Lanes /\ Selections \subseteq [Lanes -> Selectors]
    /\ Argument \notin Locals /\ NoPointer \notin Locals /\ Argument # NoPointer
BY PredicationAssumption, InvocationsAssumption, ZerosType

LEMMA DepthFacts ==
    ASSUME Frames
    PROVE  Depth \in Nat /\ Depth > 0 /\ Depth \in 1..Depth /\ Top \in Block \cup Activation
           /\ Top.kind \in ArmKinds \cup {"switch", "call"} /\ Top.lanes \subseteq Lanes
           /\ DOMAIN stack = 1..Depth
<1>1. Depth \in Nat /\ Depth > 0
  BY DEF Frames, Depth
<1> QED BY <1>1, BlockKinds DEF Top, Frames

LEMMA ParkType ==
    ASSUME Frames, NEW d \in Nat, NEW k \in 0..d, NEW lanes, wait \in [Lanes -> 0..d]
    PROVE  Park(lanes, k) \in [Lanes -> 0..d]
BY DEF Park

LEMMA ResumeType ==
    ASSUME Frames, wait \in [Lanes -> 0..Depth]
    PROVE  Resume \in [Lanes -> 0..Depth - 1]
BY DepthFacts DEF Resume

LEMMA StoreTypes ==
    ASSUME MeaningType, LowererType, NEW x \in Locals, NEW v \in Operands, Store(x, v)
    PROVE  MeaningType' /\ LowererType'
<1>1. v \in Word
  BY Assumptions
<1>2. own' \in LocalState
  <2>1. own[x] \in Word
    BY DEF MeaningType, LocalState
  <2>2. Update(own[x], Running, v) \in Word
    BY <1>1, <2>1, UpdateType
  <2> QED BY <2>2 DEF MeaningType, LocalState, Store, RunStore
<1>3. locals' \in LocalState
  BY <1>1 DEF LowererType, LocalState, Store
<1>4. MeaningType'
  BY <1>2 DEF MeaningType, Frames, Depth, Store, RunStore
<1>5. LowererType'
  BY <1>3 DEF LowererType, Store, Statement
<1> QED BY <1>4, <1>5

LEMMA StorePointerTypes ==
    ASSUME MeaningType, LowererType, NEW v \in Operands, StoreArgumentPointer(v)
    PROVE  MeaningType' /\ LowererType'
<1>1. v \in Word
  BY Assumptions
<1>2. pointee' \in Word
  BY <1>1, UpdateType DEF MeaningType, StoreArgumentPointer, RunStorePointer
<1>3. MeaningType'
  BY <1>2 DEF MeaningType, Frames, Depth, StoreArgumentPointer, RunStorePointer
<1>4. LowererType'
  BY <1>1 DEF LowererType, StoreArgumentPointer, Statement
<1> QED BY <1>3, <1>4

LEMMA EmitTypes ==
    ASSUME MeaningType, LowererType, NEW x \in Locals, Emit(x)
    PROVE  MeaningType' /\ LowererType'
<1>1. own[x] \in Word /\ locals[x] \in Word
  BY DEF MeaningType, LowererType, LocalState
<1>2. output' \in Word /\ memory' \in Word
  BY <1>1, UpdateType DEF MeaningType, LowererType, Emit, RunEffect, Predicated
<1>3. MeaningType'
  BY <1>2 DEF MeaningType, Frames, Depth, Emit, RunEffect
<1>4. LowererType'
  BY <1>2 DEF LowererType, Emit, Statement
<1> QED BY <1>3, <1>4

LEMMA EdgesType ==
    ASSUME LowererType
    PROVE  EdgesBefore \in Edges
<1>1. breaks # <<>> => Len(LastBreaks) \in Nat
  <2>1. SUFFICES ASSUME breaks # <<>> PROVE Len(LastBreaks) \in Nat
    OBVIOUS
  <2>2. Len(breaks) \in 1..Len(breaks) /\ breaks \in Seq(Seq(BreakEdge))
    BY <2>1 DEF LowererType
  <2>3. LastBreaks \in Seq(BreakEdge)
    BY <2>2, ElementOfSeq DEF LastBreaks
  <2> QED BY <2>3
<1>2. SwitchBreakCount \in Nat
  BY <1>1 DEF SwitchBreakCount
<1>3. Len(early) \in Nat
  BY DEF LowererType
<1> QED BY <1>2, <1>3 DEF EdgesBefore, Edges

LEMMA ConditionalType ==
    ASSUME LowererType, NEW condition \in SUBSET Lanes
    PROVE  Conditional(condition) \in ArmFrame
BY EdgesType DEF LowererType, Conditional, ArmFrame

LEMMA ArmType ==
    ASSUME LowererType, NEW before \in Edges
    PROVE  Arm(before) \in ArmResult
BY DEF LowererType, Arm, ArmResult

LEMMA IfTypes ==
    ASSUME MeaningType, LowererType, NEW condition \in Conditions, If(condition)
    PROVE  /\ MeaningType' /\ LowererType'
           /\ Opened(Frame("if", Running \ condition), Conditional(condition))
<1> DEFINE block == Frame("if", Running \ condition)
           frame == Conditional(condition)
<1>1. condition \in SUBSET Lanes
  BY Assumptions
<1>2. block \in Block \cup Activation /\ block.kind = "if"
  BY DEF Frame, Block, ArmKinds, Running
<1>3. frame \in FrameOf(block.kind)
  BY <1>1, <1>2, ConditionalType, FrameTypes DEF ArmKinds
<1>4. nest' = Append(nest, block) /\ stack' = Append(stack, frame)
  BY DEF If, RunIf, Accept
<1> HIDE DEF block, frame
<1>5. Frames' /\ Opened(block, frame)
  BY <1>2, <1>3, <1>4, OpenedTypes DEF MeaningType
<1>6. wait' \in [Lanes -> 0..Depth']
  <2>1. Depth \in Nat /\ Depth' = Depth + 1
    BY <1>5, DepthFacts DEF MeaningType, Opened
  <2>2. wait \in [Lanes -> 0..Depth + 1] /\ wait' = Park(Running \ condition, Depth + 1)
    BY <2>1 DEF MeaningType, If, RunIf
  <2> QED BY <2>1, <2>2, ParkType DEF MeaningType
<1>7. MeaningType'
  BY <1>5, <1>6 DEF MeaningType, If, RunIf
<1>8. LowererType'
  BY DEF LowererType, If, Accept, Statement
<1> QED BY <1>5, <1>7, <1>8 DEF block, frame

(* The arms change places.                                                 *)
Exchanged ==
    /\ Depth' = Depth /\ stack' \in Seq(LowererFrame)
    /\ \A k \in 1..Depth - 1 : nest'[k] = nest[k] /\ stack'[k] = stack[k]
    /\ nest[Depth].kind = "if" /\ nest'[Depth].kind = "else"
    /\ stack[Depth] \in ArmFrame /\ stack'[Depth] \in ArmFrame
    /\ stack'[Depth].condition = stack[Depth].condition
    /\ stack'[Depth].parent = stack[Depth].parent
    /\ stack'[Depth].locals = stack[Depth].locals
    /\ stack'[Depth].argument = stack[Depth].argument
    /\ stack'[Depth].accepted = Arm(Inner.before) /\ stack'[Depth].accepted \in ArmResult
    /\ stack'[Depth].before = EdgesBefore

LEMMA ElseTypes ==
    ASSUME MeaningType, LowererType, Else
    PROVE  MeaningType' /\ LowererType' /\ Exchanged
<1> DEFINE block == [nest[Depth] EXCEPT !.kind = "else"]
           frame == [stack[Depth] EXCEPT !.accepted = Arm(Inner.before), !.before = EdgesBefore]
<1>1. Depth \in Nat /\ Depth \in 1..Depth /\ DOMAIN stack = 1..Depth /\ Frames
  BY DepthFacts DEF MeaningType
<1>2. nest[Depth] \in Block /\ nest[Depth].kind = "if"
  <2>1. nest[Depth].kind = "if"
    BY DEF Else, RunElse, Top
  <2> QED BY <1>1, <2>1, BlockKinds
<1>3. stack[Depth] \in ArmFrame
  BY <1>1, <1>2, FrameTypes DEF Frames, ArmKinds
<1>4. block \in Block /\ block.kind = "else"
  BY <1>2 DEF Block, ArmKinds
<1>5. stack[Depth].before \in Edges /\ EdgesBefore \in Edges
  BY <1>3, EdgesType DEF ArmFrame
<1>6. Arm(Inner.before) \in ArmResult
  BY <1>5, ArmType DEF Inner
<1>7. frame \in ArmFrame
  BY <1>3, <1>5, <1>6 DEF ArmFrame
<1>8. /\ frame.condition = stack[Depth].condition /\ frame.parent = stack[Depth].parent
      /\ frame.locals = stack[Depth].locals /\ frame.argument = stack[Depth].argument
      /\ frame.accepted = Arm(Inner.before) /\ frame.before = EdgesBefore
  BY <1>3 DEF ArmFrame
<1>9. nest' = [nest EXCEPT ![Depth] = block] /\ stack' = [stack EXCEPT ![Depth] = frame]
  BY DEF Else, RunElse, Reject, Inner
<1> HIDE DEF block, frame
<1>10. /\ nest' \in Seq(Block \cup Activation) /\ Depth' = Depth
       /\ \A k \in 1..Depth : nest'[k] = IF k = Depth THEN block ELSE nest[k]
  <2>1. nest \in Seq(Block \cup Activation) /\ Depth \in 1..Len(nest)
    BY <1>1 DEF Frames, Depth
  <2> QED BY <2>1, <1>4, <1>9, ExceptSeq DEF Depth
<1>11. /\ stack' \in Seq(LowererFrame) /\ Len(stack') = Depth
       /\ \A k \in 1..Depth : stack'[k] = IF k = Depth THEN frame ELSE stack[k]
  <2>1. stack \in Seq(LowererFrame) /\ Depth \in 1..Len(stack)
    BY <1>1 DEF Frames
  <2>2. frame \in LowererFrame
    BY <1>7 DEF LowererFrame
  <2> QED BY <2>1, <2>2, <1>1, <1>9, ExceptSeq DEF Frames
<1>12. \A k \in 1..Depth : stack'[k] \in FrameOf(nest'[k].kind)
  <2> TAKE k \in 1..Depth
  <2>1. CASE k = Depth
    <3>1. FrameOf("else") = ArmFrame
      BY FrameTypes DEF ArmKinds
    <3> QED BY <2>1, <3>1, <1>4, <1>7, <1>10, <1>11
  <2>2. CASE k # Depth
    BY <2>2, <1>1, <1>10, <1>11 DEF Frames
  <2> QED BY <2>1, <2>2
<1>13. Frames'
  <2>1. Depth' > 0 /\ Len(stack') = Depth'
    BY <1>1, <1>10, <1>11
  <2> QED BY <2>1, <1>10, <1>11, <1>12 DEF Frames
<1>14. Exchanged
  BY <1>1, <1>2, <1>3, <1>4, <1>6, <1>7, <1>8, <1>10, <1>11 DEF Exchanged
<1>15. MeaningType'
  <2>1. wait' \in [Lanes -> 0..Depth]
    BY <1>1 DEF MeaningType, Else, RunElse
  <2> QED BY <2>1, <1>10, <1>13 DEF MeaningType, Else, RunElse
<1>16. LowererType'
  <2>1. mask' \in SUBSET Lanes /\ locals' \in LocalState /\ argument' \in Word
    BY <1>3 DEF Else, Reject, Inner, ArmFrame, RestoredArgument
  <2> QED BY <2>1 DEF LowererType, Else, Reject
<1> QED BY <1>14, <1>15, <1>16

LEMMA MergeTypes ==
    ASSUME LowererType, NEW c \in ArmFrame, NEW accepted \in ArmResult, NEW rejected \in ArmResult,
           Merge(c, accepted, rejected), UNCHANGED size
    PROVE  LowererType'
<1>1. /\ c.parent \subseteq Lanes /\ c.condition \subseteq Lanes
      /\ accepted.mask \subseteq Lanes /\ rejected.mask \subseteq Lanes
      /\ accepted.locals \in LocalState /\ rejected.locals \in LocalState
      /\ accepted.argument \in Word /\ rejected.argument \in Word
      /\ accepted.value \in Word \cup {NoValue} /\ rejected.value \in Word \cup {NoValue}
  BY DEF ArmFrame, ArmResult
<1>2. argument' \in Word
  BY <1>1, SelectType DEF Merge, MergedArgument
<1>3. broke' = FALSE /\ breaks' = breaks /\ memory' = memory /\ size' = size
  BY DEF Merge
<1>4. CASE accepted.value # NoValue /\ rejected.value # NoValue
  <2>1. /\ returned' = Select(c.condition, accepted.value, rejected.value)
        /\ mask' = c.parent /\ locals' = rejected.locals /\ early' = early
    BY <1>4 DEF Merge
  <2>2. returned' \in Word
    BY <1>1, <1>4, <2>1, SelectType
  <2> QED BY <1>1, <1>2, <1>3, <2>1, <2>2 DEF LowererType
<1>5. CASE accepted.value # NoValue /\ rejected.value = NoValue
  <2>1. /\ early' = Append(early, [lanes |-> c.parent \cap c.condition, value |-> accepted.value])
        /\ mask' = rejected.mask /\ locals' = rejected.locals /\ returned' = NoValue
    BY <1>5 DEF Merge
  <2>2. [lanes |-> c.parent \cap c.condition, value |-> accepted.value] \in EarlyReturn
    BY <1>1, <1>5 DEF EarlyReturn
  <2>3. early' \in Seq(EarlyReturn)
    BY <2>1, <2>2 DEF LowererType
  <2> QED BY <1>1, <1>2, <1>3, <2>1, <2>3 DEF LowererType
<1>6. CASE accepted.value = NoValue /\ rejected.value # NoValue
  <2>1. /\ early' = Append(early, [lanes |-> c.parent \ c.condition, value |-> rejected.value])
        /\ mask' = accepted.mask /\ locals' = accepted.locals /\ returned' = NoValue
    BY <1>6 DEF Merge
  <2>2. [lanes |-> c.parent \ c.condition, value |-> rejected.value] \in EarlyReturn
    BY <1>1, <1>6 DEF EarlyReturn
  <2>3. early' \in Seq(EarlyReturn)
    BY <2>1, <2>2 DEF LowererType
  <2> QED BY <1>1, <1>2, <1>3, <2>1, <2>3 DEF LowererType
<1>7. CASE accepted.value = NoValue /\ rejected.value = NoValue
  <2>1. /\ locals' = [x \in Locals |-> Select(c.condition, accepted.locals[x], rejected.locals[x])]
        /\ mask' = MergedMask(c, accepted, rejected) /\ returned' = NoValue /\ early' = early
    BY <1>7 DEF Merge
  <2>2. locals' \in LocalState
    BY <1>1, <2>1, SelectType DEF LocalState
  <2>3. mask' \subseteq Lanes
    BY <1>1, <2>1 DEF MergedMask
  <2> QED BY <1>2, <1>3, <2>1, <2>2, <2>3 DEF LowererType
<1> QED BY <1>4, <1>5, <1>6, <1>7

LEMMA EndIfTypes ==
    ASSUME MeaningType, LowererType, Nesting, AcceptedArm(Depth), EndIf
    PROVE  /\ MeaningType' /\ LowererType' /\ Closed(Depth - 1)
           /\ \A k \in 1..Depth - 1 : stack'[k] = stack[k]
           /\ nest[Depth].kind = "else" /\ Depth > 1
           /\ stack[Depth] \in ArmFrame
           /\ Inner.accepted \in ArmResult /\ Arm(Inner.before) \in ArmResult
<1>1. Depth \in Nat /\ Depth \in 1..Depth /\ Frames
  BY DepthFacts DEF MeaningType
<1>2. nest[Depth].kind = "else" /\ Depth > 1
  BY <1>1 DEF EndIf, RunEndIf, Top, Nesting
<1>3. stack[Depth] \in ArmFrame
  BY <1>1, <1>2, FrameTypes DEF Frames, ArmKinds
<1>4. Inner.accepted \in ArmResult /\ Arm(Inner.before) \in ArmResult
  BY <1>3, ArmType DEF AcceptedArm, Inner, ArmFrame
<1>5. Frames' /\ Closed(Depth - 1) /\ \A k \in 1..Depth - 1 : stack'[k] = stack[k]
  BY <1>1, <1>2, ClosedTypes DEF EndIf, RunEndIf
<1>6. wait' \in [Lanes -> 0..Depth']
  BY <1>1, <1>5, ResumeType DEF MeaningType, EndIf, RunEndIf, Closed
<1>7. MeaningType'
  BY <1>5, <1>6 DEF MeaningType, EndIf, RunEndIf
<1>8. LowererType'
  BY <1>3, <1>4, MergeTypes DEF EndIf, Inner
<1> QED BY <1>2, <1>3, <1>4, <1>5, <1>7, <1>8

LEMMA EmptyArmType ==
    ASSUME NEW c \in ArmFrame
    PROVE  EmptyArm(c) \in ArmResult
BY DEF EmptyArm, ArmFrame, ArmResult

LEMMA EndCaseTypes ==
    ASSUME MeaningType, LowererType, Nesting, At(Depth) = {}, stack[Depth - 1].todo # <<>>, EndCase
    PROVE  /\ MeaningType' /\ LowererType' /\ Closed(Depth - 1)
           /\ nest[Depth].kind = "case" /\ Depth > 2 /\ nest[Depth - 1].kind = "switch"
           /\ stack[Depth] \in ArmFrame /\ stack[Depth - 1] \in SwitchFrame
           /\ stack'[Depth - 1] = AfterCase(stack[Depth - 1], Inner.condition)
           /\ Arm(Inner.before) \in ArmResult /\ EmptyArm(Inner) \in ArmResult
<1>1. Depth \in Nat /\ Depth \in 1..Depth /\ Frames
  BY DepthFacts DEF MeaningType
<1>2. nest[Depth].kind = "case" /\ Depth > 1
  BY <1>1 DEF EndCase, RunEndCase, Top, Nesting
<1>3. nest[Depth - 1].kind = "switch" /\ Depth > 2
  BY <1>1, <1>2 DEF Nesting
<1>4. stack[Depth] \in ArmFrame
  BY <1>1, <1>2, FrameTypes DEF Frames, ArmKinds
<1>5. stack[Depth - 1] \in SwitchFrame
  <2>1. Depth - 1 \in 1..Depth
    BY <1>1, <1>2
  <2> QED BY <2>1, <1>3, FrameTypes, <1>1 DEF Frames
<1> DEFINE frame == AfterCase(stack[Depth - 1], Inner.condition)
<1>6. frame \in SwitchFrame
  <2>1. Inner.condition \subseteq Lanes
    BY <1>4 DEF Inner, ArmFrame
  <2>2. Tail(stack[Depth - 1].todo) \in Seq(Labels)
    BY <1>5 DEF SwitchFrame
  <2> QED BY <2>1, <2>2, <1>5 DEF AfterCase, SwitchFrame
<1>7. Arm(Inner.before) \in ArmResult /\ EmptyArm(Inner) \in ArmResult
  BY <1>4, ArmType, EmptyArmType DEF Inner, ArmFrame
<1>8. Frames' /\ Closed(Depth - 1) /\ stack'[Depth - 1] = frame
  <2> HIDE DEF frame
  <2>1. nest' = Pop /\ stack' = Append(SubSeq(stack, 1, Depth - 2), frame)
    BY DEF EndCase, RunEndCase, frame
  <2> QED BY <2>1, <1>1, <1>3, <1>6, CaseClosedTypes
<1>9. wait' \in [Lanes -> 0..Depth']
  <2>1. wait \in [Lanes -> 0..Depth - 1]
    BY <1>1 DEF MeaningType, At
  <2>2. Depth - 1 \in Nat /\ Depth' = Depth - 1
    BY <1>1, <1>3, <1>8 DEF Closed
  <2> QED BY <2>1, <2>2, <1>1, ParkType DEF EndCase, RunEndCase
<1>10. MeaningType'
  BY <1>8, <1>9 DEF MeaningType, EndCase, RunEndCase
<1>11. LowererType'
  BY <1>4, <1>7, MergeTypes DEF EndCase, Inner
<1> QED BY <1>2, <1>3, <1>4, <1>5, <1>7, <1>8, <1>10, <1>11

(* The order of the cases loses none of them.                              *)
LEMMA LoweringOrderFacts ==
    ASSUME NEW cases \in Switches
    PROVE  LET todo == LoweringOrder(cases) IN
           /\ todo \in Seq(Labels)
           /\ DisjointLabels(todo) /\ AllLabels(todo) = AllLabels(cases)
           /\ ~Grouped(cases) => \A i \in DOMAIN todo : Default \in todo[i] =>
                                    i = Len(todo) /\ todo[i] = {Default}
<1>1. cases \in Seq(Labels) /\ \A j, k \in DOMAIN cases : j # k => cases[j] \cap cases[k] = {}
  BY PredicationAssumption DEF Labels
<1>2. CASE Grouped(cases) \/ \A k \in DOMAIN cases : Default \notin cases[k]
  BY <1>1, <1>2 DEF LoweringOrder, DisjointLabels
<1>3. CASE ~Grouped(cases) /\ \E k \in DOMAIN cases : Default \in cases[k]
  <2> DEFINE e == CHOOSE k \in DOMAIN cases : Default \in cases[k]
  <2>1. PICK d : d = e
    OBVIOUS
  <2>2. d \in DOMAIN cases /\ Default \in cases[d]
    BY <1>3, <2>1
  <2>3. LoweringOrder(cases) = DefaultLast(cases, d)
    BY <1>3, <2>1 DEF LoweringOrder
  <2> HIDE DEF e
  <2>4. PICK n \in Nat : n = Len(cases) /\ DOMAIN cases = 1..n /\ d \in 1..n
    BY <1>1, <2>2
  <2>5. PICK todo : todo = DefaultLast(cases, d)
    OBVIOUS
  <2>6. todo = [k \in 1..n |-> IF k < d THEN cases[k] ELSE IF k < n THEN cases[k + 1] ELSE cases[d]]
    BY <2>4, <2>5 DEF DefaultLast
  <2>7. \A k \in 1..n : cases[k] \in Labels
    BY <1>1, <2>4
  <2>8. todo \in [1..n -> Labels]
    BY <2>4, <2>6, <2>7
  <2>9. todo \in Seq(Labels) /\ Len(todo) = n /\ DOMAIN todo = 1..n
    BY <2>8
  <2>10. DisjointLabels(todo)
    <3> DEFINE from(i) == IF i < d THEN i ELSE IF i < n THEN i + 1 ELSE d
    <3>1. \A i \in 1..n : from(i) \in 1..n /\ todo[i] = cases[from(i)]
      BY <2>4, <2>6
    <3>2. \A i, j \in 1..n : i # j => from(i) # from(j)
      BY <2>4
    <3> HIDE DEF from
    <3> QED BY <1>1, <2>4, <2>9, <3>1, <3>2 DEF DisjointLabels
  <2>11. AllLabels(todo) = AllLabels(cases)
    <3>1. \A i \in 1..n : \E j \in 1..n : todo[i] = cases[j]
      BY <2>4, <2>6
    <3>2. \A j \in 1..n : \E i \in 1..n : todo[i] = cases[j]
      <4> TAKE j \in 1..n
      <4>1. CASE j < d
        BY <2>4, <2>6, <4>1
      <4>2. CASE j = d
        BY <2>4, <2>6, <4>2
      <4>3. CASE j > d
        <5>1. j - 1 \in 1..n /\ ~(j - 1 < d) /\ j - 1 < n /\ (j - 1) + 1 = j
          BY <2>4, <4>3
        <5> QED BY <2>6, <5>1
      <4> QED BY <2>4, <4>1, <4>2, <4>3
    <3> QED BY <2>4, <2>9, <3>1, <3>2 DEF AllLabels
  <2>12. \A i \in DOMAIN todo : Default \in todo[i] => i = Len(todo) /\ todo[i] = {Default}
    <3> TAKE i \in DOMAIN todo
    <3>1. ASSUME NEW k \in 1..n, k # d PROVE Default \notin cases[k]
      BY <1>1, <2>2, <2>4, <3>1
    <3>2. cases[d] = {Default}
      BY <1>3, <2>2 DEF Grouped
    <3> QED BY <2>4, <2>6, <2>9, <3>1, <3>2
  <2> QED BY <2>3, <2>5, <2>9, <2>10, <2>11, <2>12
<1> QED BY <1>2, <1>3

NewSwitch(selection, cases) ==
    [selection |-> selection, cases |-> cases, todo |-> LoweringOrder(cases),
     matched |-> IF Grouped(cases) THEN Selected(selection, Literals(cases)) ELSE {}]

LEMMA SwitchTypes ==
    ASSUME MeaningType, LowererType, NEW selection \in Selections, NEW cases \in Switches,
           Switch(selection, cases)
    PROVE  /\ MeaningType' /\ LowererType'
           /\ Opened(Frame("switch", Running), NewSwitch(selection, cases))
           /\ Len(breaks') = Len(breaks) + 1 /\ breaks'[Len(breaks) + 1] = <<>>
           /\ \A i \in 1..Len(breaks) : breaks'[i] = breaks[i]
<1> DEFINE block == Frame("switch", Running)
           frame == NewSwitch(selection, cases)
<1>1. block \in Block \cup Activation /\ block.kind = "switch"
  BY DEF Frame, Block, ArmKinds, Running
<1>2. frame \in FrameOf(block.kind)
  <2>1. selection \in [Lanes -> Selectors] /\ LoweringOrder(cases) \in Seq(Labels)
    BY Assumptions, LoweringOrderFacts
  <2>2. frame.matched \subseteq Lanes
    BY DEF NewSwitch, Selected
  <2>3. frame \in SwitchFrame
    BY <2>1, <2>2 DEF NewSwitch, SwitchFrame
  <2> QED BY <1>1, <2>3, FrameTypes
<1>3. nest' = Append(nest, block) /\ stack' = Append(stack, frame)
  BY DEF Switch, RunSwitch, NewSwitch
<1> HIDE DEF block, frame
<1>4. Frames' /\ Opened(block, frame)
  BY <1>1, <1>2, <1>3, OpenedTypes DEF MeaningType
<1>5. wait' \in [Lanes -> 0..Depth']
  <2>1. Depth \in Nat /\ Depth' = Depth + 1
    BY <1>4, DepthFacts DEF MeaningType, Opened
  <2>2. wait \in [Lanes -> 0..Depth + 1] /\ wait' = Park(Running, Depth + 1)
    BY <2>1 DEF MeaningType, Switch, RunSwitch
  <2> QED BY <2>1, <2>2, ParkType DEF MeaningType
<1>6. MeaningType'
  BY <1>4, <1>5 DEF MeaningType, Switch, RunSwitch
<1>7. /\ breaks' \in Seq(Seq(BreakEdge))
      /\ Len(breaks') = Len(breaks) + 1 /\ breaks'[Len(breaks) + 1] = <<>>
      /\ \A i \in 1..Len(breaks) : breaks'[i] = breaks[i]
  <2>1. breaks \in Seq(Seq(BreakEdge)) /\ <<>> \in Seq(BreakEdge) /\ breaks' = Append(breaks, <<>>)
    BY DEF LowererType, Switch
  <2> QED BY <2>1, Opening
<1>8. LowererType'
  BY <1>7 DEF LowererType, Switch, Statement
<1> QED BY <1>4, <1>6, <1>7, <1>8 DEF block, frame

LEMMA CaseTypes ==
    ASSUME MeaningType, LowererType, Case
    PROVE  LET labels == Head(Inner.todo) IN
           /\ MeaningType' /\ LowererType'
           /\ nest[Depth].kind = "switch" /\ stack[Depth] \in SwitchFrame /\ labels \in Labels
           /\ CaseCondition(Inner, labels) \subseteq Lanes
           /\ Opened(Frame("case", Top.lanes \cap Taken(Inner, labels)),
                     Conditional(CaseCondition(Inner, labels)))
<1> DEFINE labels == Head(Inner.todo)
           condition == CaseCondition(Inner, labels)
           block == Frame("case", Top.lanes \cap Taken(Inner, labels))
           frame == Conditional(condition)
<1>1. Depth \in Nat /\ Depth \in 1..Depth /\ Frames /\ Top.lanes \subseteq Lanes
  BY DepthFacts DEF MeaningType
<1>2. nest[Depth].kind = "switch"
  BY DEF Case, Top
<1>3. stack[Depth] \in SwitchFrame /\ labels \in Labels
  <2>1. stack[Depth] \in SwitchFrame
    BY <1>1, <1>2, FrameTypes DEF Frames
  <2>2. Inner.todo \in Seq(Labels) /\ Inner.todo # <<>>
    BY <2>1 DEF Case, Inner, SwitchFrame
  <2> QED BY <2>1, <2>2, HeadTailProperties
<1>4. block \in Block \cup Activation /\ block.kind = "case"
  BY <1>1 DEF Frame, Block, ArmKinds
<1>5. condition \subseteq Lanes
  BY DEF CaseCondition, Selected
<1>6. frame \in FrameOf(block.kind)
  BY <1>4, <1>5, ConditionalType, FrameTypes DEF ArmKinds
<1>7. nest' = Append(nest, block) /\ stack' = Append(stack, frame)
  BY DEF Case, RunCase, Accept
<1> HIDE DEF block, frame, condition, labels
<1>8. Frames' /\ Opened(block, frame)
  BY <1>1, <1>4, <1>6, <1>7, OpenedTypes
<1>9. wait' \in [Lanes -> 0..Depth']
  <2>1. Depth' = Depth + 1
    BY <1>8 DEF Opened
  <2>2. wait \in [Lanes -> 0..Depth + 1] /\ wait' = Park(Top.lanes \cap Taken(Inner, labels), 0)
    BY <1>1, <2>1 DEF MeaningType, Case, RunCase, labels
  <2>3. Depth + 1 \in Nat /\ 0 \in 0..Depth + 1
    BY <1>1
  <2> QED BY <1>1, <2>1, <2>2, <2>3, ParkType
<1>10. MeaningType'
  BY <1>8, <1>9 DEF MeaningType, Case, RunCase
<1>11. LowererType'
  BY DEF LowererType, Case, Accept
<1> QED BY <1>2, <1>3, <1>5, <1>8, <1>10, <1>11 DEF block, frame, condition, labels

LEMMA ReturnTypes ==
    ASSUME MeaningType, LowererType, Nesting, NEW x \in Locals, Return(x)
    PROVE  MeaningType' /\ LowererType' /\ returned' \in Word
<1>1. own[x] \in Word /\ locals[x] \in Word
  BY DEF MeaningType, LowererType, LocalState
<1>2. Frames /\ Depth \in Nat /\ Function \in 0..Depth
  BY FunctionIsInnermost, DepthFacts DEF MeaningType
<1>3. given' \in Word
  BY <1>1, UpdateType DEF MeaningType, Return, RunReturn
<1>4. wait' \in [Lanes -> 0..Depth]
  BY <1>2, ParkType DEF MeaningType, Return, RunReturn
<1>5. MeaningType'
  BY <1>3, <1>4 DEF MeaningType, Frames, Depth, Return, RunReturn
<1>6. LowererType' /\ returned' \in Word
  BY <1>1 DEF LowererType, Return, Statement
<1> QED BY <1>5, <1>6

LEMMA BreakTypes ==
    ASSUME MeaningType, LowererType, Nesting, Break
    PROVE  /\ MeaningType' /\ LowererType'
           /\ Len(breaks') = Len(breaks)
           /\ \A i \in 1..Len(breaks) - 1 : breaks'[i] = breaks[i]
           /\ Len(breaks) > 0 =>
                breaks'[Len(breaks)] =
                   IF mask = {} THEN LastBreaks
                   ELSE Append(LastBreaks, [lanes |-> mask, locals |-> locals, argument |-> argument])
<1> DEFINE edge == [lanes |-> mask, locals |-> locals, argument |-> argument]
           last == IF mask = {} THEN LastBreaks ELSE Append(LastBreaks, edge)
<1>1. Frames /\ Depth \in Nat /\ Innermost("switch") \in 0..Depth
  <2>1. Frames /\ Depth \in Nat /\ InSwitch
    BY DepthFacts DEF MeaningType, Break, RunBreak
  <2>2. Function \in 1..Depth /\ Innermost("switch") \in Function + 1..Depth
    BY <2>1, FunctionIsInnermost, SwitchIsInnermost
  <2> QED BY <2>1, <2>2
<1>2. wait' \in [Lanes -> 0..Depth]
  BY <1>1, ParkType DEF MeaningType, Break, RunBreak
<1>3. MeaningType'
  BY <1>2 DEF MeaningType, Frames, Depth, Break, RunBreak
<1>4. edge \in BreakEdge
  BY DEF LowererType, BreakEdge
<1>5. breaks' = [breaks EXCEPT ![Len(breaks)] = last]
  BY DEF Break, LastBreaks
<1>6. breaks \in Seq(Seq(BreakEdge)) /\ Len(breaks) \in Nat
  BY DEF LowererType
<1>7. CASE breaks = <<>>
  <2>1. breaks' = breaks
    BY <1>5, <1>6, <1>7
  <2>2. breaks' \in Seq(Seq(BreakEdge)) /\ mask' \in SUBSET Lanes
    BY <1>6, <2>1 DEF Break
  <2>3. LowererType'
    BY <2>2 DEF LowererType, Break, Statement
  <2> QED BY <1>3, <1>6, <1>7, <2>1, <2>3
<1>8. CASE breaks # <<>>
  <2>1. Len(breaks) \in 1..Len(breaks)
    BY <1>6, <1>8
  <2>2. LastBreaks \in Seq(BreakEdge)
    BY <1>6, <2>1, ElementOfSeq DEF LastBreaks
  <2>3. last \in Seq(BreakEdge)
    BY <1>4, <2>2
  <2> HIDE DEF last, edge
  <2>4. /\ breaks' \in Seq(Seq(BreakEdge)) /\ Len(breaks') = Len(breaks)
        /\ \A i \in 1..Len(breaks) : breaks'[i] = IF i = Len(breaks) THEN last ELSE breaks[i]
    BY <1>5, <1>6, <2>1, <2>3, ExceptSeq
  <2>5. LowererType'
    BY <2>4 DEF LowererType, Break, Statement
  <2>6. breaks'[Len(breaks)] = last
    BY <2>1, <2>4
  <2>8. \A i \in 1..Len(breaks) - 1 : i \in 1..Len(breaks) /\ i # Len(breaks)
    BY <1>6
  <2>9. \A i \in 1..Len(breaks) - 1 : breaks'[i] = breaks[i]
    BY <2>4, <2>8
  <2>7. breaks'[Len(breaks)] = IF mask = {} THEN LastBreaks ELSE Append(LastBreaks, edge)
    BY <2>6 DEF last
  <2> QED BY <1>3, <2>4, <2>5, <2>9, <2>7 DEF edge
<1> QED BY <1>7, <1>8

NewCall == [mask |-> mask, locals |-> locals, argument |-> argument, early |-> early]
NewActivation(target) == [kind |-> "call", lanes |-> Running, target |-> target,
                          own |-> own, pointee |-> pointee]

LEMMA CallTypes ==
    ASSUME MeaningType, LowererType, NEW target \in Locals \cup {Argument, NoPointer}, Call(target)
    PROVE  MeaningType' /\ LowererType' /\ Opened(NewActivation(target), NewCall)
<1> DEFINE block == NewActivation(target)
           frame == NewCall
<1>1. block \in Block \cup Activation /\ block.kind = "call"
  BY DEF NewActivation, Activation, MeaningType, Running
<1>2. frame \in FrameOf(block.kind)
  <2>1. frame \in CallFrame
    BY DEF NewCall, CallFrame, LowererType
  <2> QED BY <1>1, <2>1, FrameTypes
<1>3. nest' = Append(nest, block) /\ stack' = Append(stack, frame)
  BY DEF Call, RunCall, NewCall, NewActivation
<1> HIDE DEF block, frame
<1>4. Frames' /\ Opened(block, frame)
  BY <1>1, <1>2, <1>3, OpenedTypes DEF MeaningType
<1>5. wait' \in [Lanes -> 0..Depth']
  <2>1. Depth \in Nat /\ Depth' = Depth + 1
    BY <1>4, DepthFacts DEF MeaningType, Opened
  <2> QED BY <2>1 DEF MeaningType, Call, RunCall
<1>6. [x \in Locals |-> Zeros] \in LocalState
  BY Assumptions DEF LocalState
<1>7. pointee' \in Word /\ argument' \in Word
  <2>1. CASE target \in Locals
    BY <2>1 DEF MeaningType, LowererType, LocalState, Call, RunCall
  <2>2. CASE target = Argument
    BY <2>2, Assumptions DEF MeaningType, LowererType, Call, RunCall
  <2>3. CASE target = NoPointer
    BY <2>3, Assumptions DEF Call, RunCall
  <2> QED BY <2>1, <2>2, <2>3
<1>8. MeaningType'
  BY <1>4, <1>5, <1>6, <1>7 DEF MeaningType, Call, RunCall
<1>9. LowererType'
  <2>1. locals' \in LocalState /\ early' \in Seq(EarlyReturn)
    BY <1>6 DEF Call
  <2> QED BY <1>7, <2>1 DEF LowererType, Call, Statement
<1> QED BY <1>4, <1>8, <1>9 DEF block, frame

LEMMA EndSwitchTypes ==
    ASSUME MeaningType, LowererType, Nesting, Len(breaks) > 0, EndSwitch
    PROVE  /\ MeaningType' /\ LowererType' /\ Closed(Depth - 1)
           /\ \A k \in 1..Depth - 1 : stack'[k] = stack[k]
           /\ nest[Depth].kind = "switch" /\ Depth > 1 /\ stack[Depth] \in SwitchFrame
           /\ Len(breaks') = Len(breaks) - 1
           /\ \A i \in 1..Len(breaks) - 1 : breaks'[i] = breaks[i]
<1>1. Depth \in Nat /\ Depth \in 1..Depth /\ Frames
  BY DepthFacts DEF MeaningType
<1>2. nest[Depth].kind = "switch" /\ Depth > 1
  BY <1>1 DEF EndSwitch, RunEndSwitch, Top, Nesting
<1>3. stack[Depth] \in SwitchFrame
  BY <1>1, <1>2, FrameTypes DEF Frames
<1>4. Frames' /\ Closed(Depth - 1) /\ \A k \in 1..Depth - 1 : stack'[k] = stack[k]
  BY <1>1, <1>2, ClosedTypes DEF EndSwitch, RunEndSwitch
<1>5. wait' \in [Lanes -> 0..Depth']
  BY <1>1, <1>4, ResumeType DEF MeaningType, EndSwitch, RunEndSwitch, Closed
<1>6. MeaningType'
  BY <1>4, <1>5 DEF MeaningType, EndSwitch, RunEndSwitch
<1>7. breaks \in Seq(Seq(BreakEdge)) /\ Len(breaks) \in 1..Len(breaks)
  BY DEF LowererType
<1>8. /\ breaks' \in Seq(Seq(BreakEdge)) /\ Len(breaks') = Len(breaks) - 1
      /\ \A i \in 1..Len(breaks) - 1 : breaks'[i] = breaks[i]
  BY <1>7, Closing DEF EndSwitch
<1>9. LastBreaks \in Seq(BreakEdge)
  BY <1>7, ElementOfSeq DEF LastBreaks
<1>10. ASSUME NEW l \in Covered(LastBreaks)
       PROVE  LastBreaks[First(LastBreaks, l)] \in BreakEdge
  BY <1>9, FirstCovers
<1>11. mask' \in SUBSET Lanes
  <2>1. Covered(LastBreaks) \subseteq Lanes
    <3>1. \A k \in DOMAIN LastBreaks : LastBreaks[k] \in BreakEdge
      BY <1>9
    <3> QED BY <3>1 DEF Covered, BreakEdge
  <2> QED BY <2>1 DEF LowererType, EndSwitch
<1>12. locals' \in LocalState /\ argument' \in Word
  <2>1. ASSUME NEW x \in Locals
        PROVE  [l \in Lanes |-> IF l \in Covered(LastBreaks)
                                THEN LastBreaks[First(LastBreaks, l)].locals[x][l]
                                ELSE locals[x][l]] \in Word
    BY <1>10 DEF BreakEdge, LocalState, Word, LowererType
  <2>2. locals' \in LocalState
    BY <2>1 DEF LocalState, EndSwitch
  <2>3. argument' \in Word
    BY <1>10 DEF BreakEdge, Word, LowererType, EndSwitch
  <2> QED BY <2>2, <2>3
<1>13. LowererType'
  BY <1>8, <1>11, <1>12 DEF LowererType, EndSwitch
<1> QED BY <1>2, <1>3, <1>4, <1>6, <1>8, <1>13

LEMMA EndCallTypes ==
    ASSUME MeaningType, LowererType, NEW results \in { {} } \cup { {x} : x \in Locals }, EndCall(results)
    PROVE  /\ MeaningType' /\ LowererType' /\ Closed(Depth - 1)
           /\ \A k \in 1..Depth - 1 : stack'[k] = stack[k]
           /\ nest[Depth].kind = "call" /\ Depth > 1 /\ stack[Depth] \in CallFrame
<1>1. Depth \in Nat /\ Depth \in 1..Depth /\ Frames
  BY DepthFacts DEF MeaningType
<1>2. nest[Depth].kind = "call" /\ Depth > 1
  BY DEF EndCall, RunEndCall, Top
<1>3. stack[Depth] \in CallFrame /\ Top \in Activation
  BY <1>1, <1>2, FrameTypes, BlockKinds DEF Frames, Top
<1>4. Frames' /\ Closed(Depth - 1) /\ \A k \in 1..Depth - 1 : stack'[k] = stack[k]
  BY <1>1, <1>2, ClosedTypes DEF EndCall, RunEndCall
<1>5. wait' \in [Lanes -> 0..Depth']
  BY <1>1, <1>4, ResumeType DEF MeaningType, EndCall, RunEndCall, Closed
<1>6. Top.own \in LocalState /\ Top.pointee \in Word
  BY <1>3 DEF Activation
<1>7. own' \in LocalState
  <2>1. ASSUME NEW x \in Locals
        PROVE  own'[x] \in Word /\ own'[x] =
                  CASE x \in results -> Update(Top.own[x], Top.lanes, given)
                    [] x = Top.target /\ x \notin results -> Update(Top.own[x], Top.lanes, pointee)
                    [] OTHER -> Top.own[x]
    <3>1. Top.own[x] \in Word
      BY <1>6 DEF LocalState
    <3>2. Update(Top.own[x], Top.lanes, given) \in Word /\ Update(Top.own[x], Top.lanes, pointee) \in Word
      BY <3>1, UpdateType DEF MeaningType
    <3> QED BY <3>1, <3>2 DEF EndCall, RunEndCall
  <2>2. own' = [x \in Locals |-> own'[x]]
    BY DEF EndCall, RunEndCall
  <2> QED BY <2>1, <2>2 DEF LocalState
<1>8. pointee' \in Word
  <2>1. Update(Top.pointee, Top.lanes, pointee) \in Word
    BY <1>6, UpdateType DEF MeaningType
  <2> QED BY <1>6, <2>1 DEF EndCall, RunEndCall
<1>9. MeaningType'
  BY <1>4, <1>5, <1>7, <1>8 DEF MeaningType, EndCall, RunEndCall
<1>10. Inner.locals \in LocalState /\ Inner.argument \in Word /\ Inner.mask \in SUBSET Lanes
       /\ Inner.early \in Seq(EarlyReturn)
  BY <1>3 DEF Inner, CallFrame
<1>11. locals' \in LocalState
  <2>1. ASSUME NEW x \in Locals, x \in results
        PROVE  FinalizeReturn(returned) \in Word
    BY <2>1, FinalizeType DEF LowererType, EndCall
  <2>2. ASSUME NEW x \in Locals
        PROVE  locals'[x] \in Word
    BY <1>10, <2>1 DEF LocalState, LowererType, EndCall
  <2>3. locals' = [x \in Locals |-> locals'[x]]
    BY DEF EndCall
  <2> QED BY <2>2, <2>3 DEF LocalState
<1>12. argument' \in Word /\ mask' \in SUBSET Lanes /\ early' \in Seq(EarlyReturn)
       /\ returned' = NoValue
  BY <1>10 DEF LowererType, EndCall
<1>13. LowererType'
  BY <1>11, <1>12 DEF LowererType, EndCall
<1> QED BY <1>2, <1>3, <1>4, <1>9, <1>13

-----------------------------------------------------------------------------
(* Opening a construct.                                                    *)
LanesEnter ==
    \A l \in Lanes : \/ wait'[l] = wait[l]
                     \/ wait[l] = 0 /\ wait'[l] = Depth + 1
                     \/ Top.kind = "switch" /\ wait[l] = Depth /\ wait'[l] = 0

Entering(block, frame) ==
    /\ MeaningType /\ LowererType /\ Opened(block, frame) /\ LanesEnter
    /\ wait' \in [Lanes -> 0..Depth + 1]
    /\ returned = NoValue /\ returned' = NoValue /\ block.kind # "else"
    /\ Len(breaks') >= Len(breaks) /\ \A i \in 1..Len(breaks) : breaks'[i] = breaks[i]

LEMMA LanesOpened ==
    ASSUME NEW block, NEW frame, Entering(block, frame), NEW k \in 1..Depth,
           k < Depth \/ nest[Depth].kind # "switch"
    PROVE  At(k)' = At(k) /\ Inside(k)' = Inside(k)
<1>1. Depth \in Nat /\ wait \in [Lanes -> 0..Depth]
  BY DepthFacts DEF Entering, MeaningType
<1>2. \A l \in Lanes : /\ wait'[l] = k <=> wait[l] = k
                       /\ (wait'[l] = 0 \/ wait'[l] > k) <=> (wait[l] = 0 \/ wait[l] > k)
  BY <1>1 DEF Entering, LanesEnter, Top
<1> QED BY <1>2 DEF At, Inside

LEMMA PendingOpened ==
    ASSUME NEW block, NEW frame, Entering(block, frame), NEW k \in 1..Depth
    PROVE  Pending(k)' <=> Pending(k)
<1>0. PICK m : m = Depth
  OBVIOUS
<1>1. m \in Nat /\ Depth \in Nat /\ KindsKept(m) /\ Depth' = m + 1 /\ nest'[m + 1].kind # "else"
      /\ \A j \in 1..m : nest'[j] = nest[j] /\ stack'[j] = stack[j]
  BY <1>0, DepthFacts DEF Entering, MeaningType, Opened, KindsKept
<1>2. Pending(k) <=> \E j \in k+1..m : nest[j].kind = "else" /\ stack[j].accepted.value # NoValue
                                       /\ SameFunction(k, j)
  BY <1>0 DEF Pending, Entering
<1>3. Pending(k)' <=> \E j \in k+1..m+1 : nest'[j].kind = "else" /\ stack'[j].accepted.value # NoValue
                                          /\ SameFunction(k, j)'
  BY <1>1 DEF Pending, Entering
<1>4. ASSUME NEW j \in k+1..m+1
      PROVE  (nest'[j].kind = "else" /\ stack'[j].accepted.value # NoValue /\ SameFunction(k, j)')
             <=> (j \in k+1..m /\ nest[j].kind = "else" /\ stack[j].accepted.value # NoValue
                  /\ SameFunction(k, j))
  <2>1. CASE j = m + 1
    BY <1>1, <2>1
  <2>2. CASE j \in k+1..m
    <3>1. SameFunction(k, j)' <=> SameFunction(k, j)
      BY <1>0, <1>1, <2>2, SameKept
    <3>2. j \in 1..m
      BY <1>0, <1>1, <2>2
    <3> QED BY <1>1, <2>2, <3>1, <3>2
  <2> QED BY <1>0, <1>1, <2>1, <2>2
<1> QED BY <1>0, <1>1, <1>2, <1>3, <1>4

LEMMA EdgesOpened ==
    ASSUME NEW block, NEW frame, Entering(block, frame), NEW slot, NEW returns,
           Slots(slot), NEW k \in 1..Depth, EdgesTell(k, slot, returns),
           NEW s, s = Extended(slot, Len(breaks')), NEW r, r = Extended(returns, Len(early'))
    PROVE  EdgesTell(k, s, r)'
<1>1. Depth \in Nat /\ Len(breaks) \in Nat
  BY DepthFacts DEF Entering, MeaningType, LowererType
<1>2. s[k] = slot[k] /\ r[k] = returns[k] /\ slot[k] \in 0..Len(breaks)
  BY <1>1 DEF Extended, Slots
<1>3. BreaksOf(k, s)' = BreaksOf(k, slot)
  BY <1>1, <1>2 DEF BreaksOf, Entering
<1>4. nest'[k] = nest[k] /\ stack'[k] = stack[k] /\ Start(k)' = Start(k)
  BY DEF Entering, Opened, Start
<1>5. ASSUME IsArm(k) PROVE Inside(k)' = Inside(k)
  <2>1. k < Depth \/ nest[Depth].kind # "switch"
    BY <1>1, <1>5 DEF IsArm, ArmKinds
  <2> QED BY <2>1, LanesOpened
<1>6. Pending(k)' <=> Pending(k)
  BY PendingOpened
<1> QED BY <1>2, <1>3, <1>4, <1>5, <1>6 DEF EdgesTell, IsArm

LEMMA SwitchHasSlot ==
    ASSUME MeaningType, LowererType, Nesting, NEW slot, Slots(slot), NEW k \in 1..Depth,
           nest[k].kind = "switch"
    PROVE  k > 1 /\ slot[k] \in 1..Len(breaks) /\ slot[k] = slot[k - 1] + 1
<1>1. Depth \in Nat /\ Len(breaks) \in Nat
  BY DepthFacts DEF MeaningType, LowererType
<1>2. k # 1
  BY DEF Nesting
<1>3. k \in 2..Depth /\ k - 1 \in 1..Depth
  BY <1>1, <1>2
<1>4. slot[k - 1] \in 0..Len(breaks) /\ slot[k] \in 0..Len(breaks) /\ slot[k] = slot[k - 1] + 1
  BY <1>1, <1>3 DEF Slots
<1> QED BY <1>1, <1>3, <1>4

LEMMA WaitingOpened ==
    ASSUME NEW block, NEW frame, Entering(block, frame), NEW slot, Nesting,
           Slots(slot), NEW k \in 1..Depth, Waiting(k, slot), CasesFind(k),
           k < Depth \/ nest[Depth].kind # "switch",
           NEW s, s = Extended(slot, Len(breaks'))
    PROVE  Waiting(k, s)' /\ CasesFind(k)'
<1>1. Depth \in Nat /\ Len(breaks) \in Nat /\ Depth' = Depth + 1
  BY DepthFacts DEF Entering, MeaningType, LowererType, Opened
<1>2. s[k] = slot[k] /\ slot[k] \in 0..Len(breaks)
  BY <1>1 DEF Extended, Slots
<1>3. nest'[k] = nest[k] /\ stack'[k] = stack[k]
  BY DEF Entering, Opened
<1>4. At(k)' = At(k) /\ Inside(k)' = Inside(k)
  BY LanesOpened
<1>5. AcceptedArm(k)' <=> AcceptedArm(k)
  BY <1>3 DEF AcceptedArm
<1>6. CASE nest[k].kind = "switch"
  <2>1. k < Depth /\ k + 1 \in 1..Depth /\ k # Depth'
    BY <1>1, <1>6
  <2>2. nest'[k + 1] = nest[k + 1] /\ stack'[k + 1] = stack[k + 1]
    BY <2>1 DEF Entering, Opened
  <2>3. Outside(k)' = Outside(k) /\ Todo(k)' = Todo(k)
    BY <1>3, <2>1, <2>2 DEF Outside, Todo
  <2>4. CasesFind(k)'
    BY <1>1, <1>3, <1>6, <2>1, <2>2, <2>3 DEF CasesFind
  <2>5. breaks'[slot[k]] = breaks[slot[k]]
    BY <1>6, SwitchHasSlot DEF Entering
  <2> QED BY <1>2, <1>3, <1>4, <1>6, <2>3, <2>4, <2>5 DEF Waiting
<1>7. CASE nest[k].kind # "switch"
  <2>1. CasesFind(k)'
    BY <1>3, <1>7 DEF CasesFind
  <2>2. Waiting(k, s)'
    BY <1>3, <1>4, <1>5, <1>7 DEF Waiting
  <2> QED BY <2>1, <2>2
<1> QED BY <1>6, <1>7

(* The edges of a construct that is opened now.                            *)
LEMMA EdgesNow ==
    ASSUME LowererType
    PROVE  /\ EdgesBefore.returns = Len(early) /\ EdgesBefore.breaks = SwitchBreakCount
           /\ SwitchBreakCount = IF Len(breaks) = 0 THEN 0 ELSE Len(breaks[Len(breaks)])
<1>1. breaks = <<>> <=> Len(breaks) = 0
  BY DEF LowererType
<1> QED BY <1>1 DEF EdgesBefore, SwitchBreakCount, LastBreaks

LEMMA IfKeeps ==
    ASSUME NEW slot, NEW returns, Inductive(slot, returns), NEW condition \in Conditions, If(condition)
    PROVE  \E s, r : Inductive(s, r)'
<1> DEFINE block == Frame("if", Running \ condition)
           frame == Conditional(condition)
<1>0. PICK s, r, d : s = Extended(slot, Len(breaks')) /\ r = Extended(returns, Len(early')) /\ d = Depth + 1
  OBVIOUS
<1>1. /\ MeaningType /\ LowererType /\ Nesting /\ Slots(slot) /\ Returns(returns) /\ Live
      /\ Depth \in Nat /\ condition \subseteq Lanes
  BY DepthFacts, Assumptions DEF Inductive, MeaningType
<1>2. MeaningType' /\ LowererType' /\ Opened(block, frame)
  BY <1>1, IfTypes
<1>3. /\ block.kind = "if" /\ block.lanes = Running \ condition
      /\ frame.parent = mask /\ frame.condition = condition /\ frame.before = EdgesBefore
  BY DEF Frame, Conditional
<1>4. /\ breaks' = breaks /\ early' = early /\ mask' = mask \cap condition
      /\ returned = NoValue /\ returned' = NoValue /\ nest[Depth].kind # "switch"
      /\ wait' = Park(Running \ condition, Depth + 1)
  BY DEF If, Accept, Statement, RunIf, Top
<1>5. mask = Running
  BY <1>1, <1>4 DEF Live, Top
<1> HIDE DEF block, frame
<1>6. Entering(block, frame)
  <2>1. LanesEnter /\ wait' \in [Lanes -> 0..Depth + 1]
    BY <1>1, <1>4 DEF LanesEnter, Park, Running, MeaningType
  <2>2. Len(breaks') >= Len(breaks)
    BY <1>1, <1>4 DEF LowererType
  <2> QED BY <1>1, <1>2, <1>3, <1>4, <2>1, <2>2 DEF Entering
<1>7. Nesting' /\ Slots(s)' /\ Returns(r)'
  <2>1. block.kind # "case" /\ block.kind # "call" /\ block.kind # "switch" /\ Top.kind # "switch"
    BY <1>3, <1>4 DEF Top
  <2>2. Nesting'
    BY <1>1, <1>2, <2>1, NestingOpened
  <2>3. Slots(s)'
    BY <1>0, <1>1, <1>2, <1>4, <2>1, SlotsOpened DEF LowererType
  <2>4. Returns(r)'
    BY <1>0, <1>1, <1>2, <1>4, <2>1, ReturnsOpened DEF LowererType
  <2> QED BY <2>2, <2>3, <2>4
<1>8. \A k \in 1..Depth : Waiting(k, s)' /\ CasesFind(k)' /\ EdgesTell(k, s, r)'
  BY <1>0, <1>1, <1>4, <1>6, WaitingOpened, EdgesOpened DEF Inductive
<1>9. Depth' = d /\ d = Depth + 1 /\ nest'[d] = block /\ stack'[d] = frame
  BY <1>0, <1>2 DEF Opened
<1>10. /\ At(d)' = Running \ condition /\ Inside(d)' = Running \cap condition
       /\ Running' = Running \cap condition
  <2>1. \A l \in Lanes : wait[l] \in 0..Depth
    BY <1>1 DEF MeaningType
  <2>2. \A l \in Lanes : wait'[l] = IF wait[l] = 0 /\ l \notin condition THEN d ELSE wait[l]
    BY <1>4, <1>9 DEF Park, Running
  <2> QED BY <1>1, <1>9, <2>1, <2>2 DEF At, Inside, Running
<1>11. Waiting(d, s)' /\ CasesFind(d)'
  BY <1>3, <1>5, <1>9, <1>10 DEF Waiting, CasesFind
<1>12. EdgesTell(d, s, r)'
  <2>1. Start(d)' = Inside(d)'
    BY <1>3, <1>5, <1>9, <1>10 DEF Start
  <2>2. r[d] = Len(early) /\ s[d] = Len(breaks)
    BY <1>0, <1>1, <1>4, <1>9 DEF Extended
  <2>3. frame.before.returns = r[d] /\ frame.before.breaks = BreaksOf(d, s)'
    BY <1>1, <1>3, <1>4, <2>2, EdgesNow DEF BreaksOf
  <2>4. r[d] \in Nat /\ BreaksOf(d, s)' \in Nat
    BY <1>1, <1>3, <2>3, EdgesType DEF Edges
  <2> QED BY <1>9, <2>1, <2>3, <2>4 DEF EdgesTell
<1>13. Live'
  BY <1>3, <1>4, <1>5, <1>9, <1>10 DEF Live, Top
<1>14. \A k \in 1..Depth' : Waiting(k, s)' /\ CasesFind(k)' /\ EdgesTell(k, s, r)'
  BY <1>1, <1>8, <1>9, <1>11, <1>12
<1> QED BY <1>2, <1>7, <1>13, <1>14 DEF Inductive

LEMMA CoveredEmpty == Covered(<<>>) = {}
BY DEF Covered

(* At first the cases of a switch find every lane.                         *)
LEMMA NewSwitchOk ==
    ASSUME NEW selection, NEW cases \in Switches
    PROVE  SwitchOk(NewSwitch(selection, cases))
<1>1. PICK todo : todo = LoweringOrder(cases)
  OBVIOUS
<1>2. /\ DisjointLabels(todo) /\ AllLabels(todo) = AllLabels(cases)
      /\ ~Grouped(cases) => \A i \in DOMAIN todo : Default \in todo[i] =>
                               i = Len(todo) /\ todo[i] = {Default}
  BY <1>1, LoweringOrderFacts
<1>3. AllLabels(cases) \ {Default} = Literals(cases)
  BY DEF AllLabels, Literals
<1> DEFINE s == NewSwitch(selection, cases)
<1>4. /\ s.selection = selection /\ s.cases = cases /\ s.todo = todo
      /\ s.matched = IF Grouped(cases) THEN Selected(selection, Literals(cases)) ELSE {}
  BY <1>1 DEF NewSwitch
<1> HIDE DEF s
<1>5. SwitchOk(s)
  BY <1>2, <1>3, <1>4 DEF SwitchOk
<1> QED BY <1>5 DEF s

LEMMA SwitchKeeps ==
    ASSUME NEW slot, NEW returns, Inductive(slot, returns),
           NEW selection \in Selections, NEW cases \in Switches, Switch(selection, cases)
    PROVE  \E s, r : Inductive(s, r)'
<1> DEFINE block == Frame("switch", Running)
           frame == NewSwitch(selection, cases)
<1>0. PICK s, r, d : s = Extended(slot, Len(breaks')) /\ r = Extended(returns, Len(early')) /\ d = Depth + 1
  OBVIOUS
<1>1. /\ MeaningType /\ LowererType /\ Nesting /\ Slots(slot) /\ Returns(returns) /\ Live
      /\ Depth \in Nat /\ Len(breaks) \in Nat
  BY DepthFacts DEF Inductive, MeaningType, LowererType
<1>2. /\ MeaningType' /\ LowererType' /\ Opened(block, frame)
      /\ Len(breaks') = Len(breaks) + 1 /\ breaks'[Len(breaks) + 1] = <<>>
      /\ \A i \in 1..Len(breaks) : breaks'[i] = breaks[i]
  BY <1>1, SwitchTypes
<1>3. block.kind = "switch" /\ block.lanes = Running /\ SwitchOk(frame)
  BY NewSwitchOk DEF Frame
<1>4. /\ early' = early /\ mask' = mask
      /\ returned = NoValue /\ returned' = NoValue /\ nest[Depth].kind # "switch"
      /\ wait' = Park(Running, Depth + 1)
  BY DEF Switch, Statement, RunSwitch, Top
<1>5. mask = Running
  BY <1>1, <1>4 DEF Live, Top
<1> HIDE DEF block, frame
<1>6. Entering(block, frame)
  <2>1. LanesEnter /\ wait' \in [Lanes -> 0..Depth + 1]
    BY <1>1, <1>4 DEF LanesEnter, Park, Running, MeaningType
  <2>2. Len(breaks') >= Len(breaks)
    BY <1>1, <1>2
  <2> QED BY <1>1, <1>2, <1>3, <1>4, <2>1, <2>2 DEF Entering
<1>7. Nesting' /\ Slots(s)' /\ Returns(r)'
  <2>1. block.kind # "case" /\ block.kind # "call" /\ Top.kind # "switch"
    BY <1>3, <1>4 DEF Top
  <2>2. Nesting'
    BY <1>1, <1>2, <2>1, NestingOpened
  <2>3. Slots(s)'
    BY <1>0, <1>1, <1>2, <1>3, SlotsOpened
  <2>4. Returns(r)'
    BY <1>0, <1>1, <1>2, <1>4, <2>1, ReturnsOpened DEF LowererType
  <2> QED BY <2>2, <2>3, <2>4
<1>8. \A k \in 1..Depth : Waiting(k, s)' /\ CasesFind(k)' /\ EdgesTell(k, s, r)'
  BY <1>0, <1>1, <1>4, <1>6, WaitingOpened, EdgesOpened DEF Inductive
<1>9. Depth' = d /\ d = Depth + 1 /\ nest'[d] = block /\ stack'[d] = frame
  BY <1>0, <1>2 DEF Opened
<1>10. At(d)' = Running /\ Running' = {}
  <2>1. \A l \in Lanes : wait[l] \in 0..Depth
    BY <1>1 DEF MeaningType
  <2>2. \A l \in Lanes : wait'[l] = IF wait[l] = 0 THEN d ELSE wait[l]
    BY <1>4, <1>9 DEF Park, Running
  <2> QED BY <1>1, <1>9, <2>1, <2>2 DEF At, Running
<1>11. Outside(d)' = Running
  BY <1>4, <1>5, <1>9 DEF Outside
<1>12. Waiting(d, s)'
  <2>1. s[d] = Len(breaks) + 1
    BY <1>0, <1>1, <1>2, <1>9 DEF Extended
  <2>2. Covered(breaks[s[d]])' = {}
    BY <1>2, <2>1, CoveredEmpty
  <2> QED BY <1>3, <1>9, <1>10, <1>11, <2>2 DEF Waiting
<1>13. CasesFind(d)'
  BY <1>3, <1>4, <1>5, <1>9, <1>11 DEF CasesFind
<1>14. EdgesTell(d, s, r)'
  BY <1>3, <1>9 DEF EdgesTell, IsArm, ArmKinds
<1>15. Live'
  BY <1>3, <1>4, <1>9, <1>10 DEF Live, Top
<1>16. \A k \in 1..Depth' : Waiting(k, s)' /\ CasesFind(k)' /\ EdgesTell(k, s, r)'
  BY <1>1, <1>8, <1>9, <1>12, <1>13, <1>14
<1> QED BY <1>2, <1>7, <1>15, <1>16 DEF Inductive

LEMMA CallKeeps ==
    ASSUME NEW slot, NEW returns, Inductive(slot, returns),
           NEW target \in Locals \cup {Argument, NoPointer}, Call(target)
    PROVE  \E s, r : Inductive(s, r)'
<1> DEFINE block == NewActivation(target)
           frame == NewCall
<1>0. PICK s, r, d : s = Extended(slot, Len(breaks')) /\ r = Extended(returns, Len(early')) /\ d = Depth + 1
  OBVIOUS
<1>1. /\ MeaningType /\ LowererType /\ Nesting /\ Slots(slot) /\ Returns(returns) /\ Live
      /\ Depth \in Nat /\ Len(breaks) \in Nat
  BY DepthFacts DEF Inductive, MeaningType, LowererType
<1>2. MeaningType' /\ LowererType' /\ Opened(block, frame)
  BY <1>1, CallTypes
<1>3. block.kind = "call" /\ frame.mask = mask /\ frame.early = early
  BY DEF NewActivation, NewCall
<1>4. /\ breaks' = breaks /\ mask' = mask
      /\ returned = NoValue /\ returned' = NoValue /\ nest[Depth].kind # "switch"
      /\ wait' = wait
  BY DEF Call, Statement, RunCall, Top
<1>5. mask = Running
  BY <1>1, <1>4 DEF Live, Top
<1> HIDE DEF block, frame
<1>6. Entering(block, frame)
  <2>1. LanesEnter /\ wait' \in [Lanes -> 0..Depth + 1]
    BY <1>1, <1>4 DEF LanesEnter, MeaningType
  <2>2. Len(breaks') >= Len(breaks)
    BY <1>1, <1>4
  <2> QED BY <1>1, <1>2, <1>3, <1>4, <2>1, <2>2 DEF Entering
<1>7. Nesting' /\ Slots(s)' /\ Returns(r)'
  <2>1. block.kind # "case" /\ block.kind # "switch" /\ Top.kind # "switch"
    BY <1>3, <1>4 DEF Top
  <2>2. Nesting'
    BY <1>1, <1>2, <2>1, NestingOpened
  <2>3. Slots(s)'
    BY <1>0, <1>1, <1>2, <1>4, <2>1, SlotsOpened
  <2>4. Returns(r)'
    BY <1>0, <1>1, <1>2, <1>3, ReturnsOpened DEF LowererType
  <2> QED BY <2>2, <2>3, <2>4
<1>8. \A k \in 1..Depth : Waiting(k, s)' /\ CasesFind(k)' /\ EdgesTell(k, s, r)'
  BY <1>0, <1>1, <1>4, <1>6, WaitingOpened, EdgesOpened DEF Inductive
<1>9. Depth' = d /\ d = Depth + 1 /\ nest'[d] = block /\ stack'[d] = frame
  BY <1>0, <1>2 DEF Opened
<1>10. At(d)' = {} /\ Inside(d)' = Running /\ Running' = Running
  <2>1. \A l \in Lanes : wait[l] \in 0..Depth
    BY <1>1 DEF MeaningType
  <2> QED BY <1>1, <1>4, <1>9, <2>1 DEF At, Inside, Running
<1>11. Waiting(d, s)' /\ CasesFind(d)' /\ EdgesTell(d, s, r)'
  BY <1>3, <1>5, <1>9, <1>10 DEF Waiting, CasesFind, EdgesTell, IsArm, ArmKinds
<1>12. Live'
  BY <1>3, <1>4, <1>5, <1>9, <1>10 DEF Live, Top
<1>13. \A k \in 1..Depth' : Waiting(k, s)' /\ CasesFind(k)' /\ EdgesTell(k, s, r)'
  BY <1>1, <1>8, <1>9, <1>11
<1> QED BY <1>2, <1>7, <1>12, <1>13 DEF Inductive

(* The condition of the next case is the one in the text.                  *)
LEMMA ConditionIsTaken ==
    ASSUME NEW s \in SwitchFrame, SwitchOk(s), s.todo # <<>>
    PROVE  CaseCondition(s, Head(s.todo)) = Taken(s, Head(s.todo))
<1> DEFINE labels == Head(s.todo)
<1>1. /\ s.todo \in Seq(Labels) /\ Len(s.todo) \in Nat /\ Len(s.todo) > 0
      /\ labels = s.todo[1] /\ 1 \in DOMAIN s.todo /\ DOMAIN s.todo = 1..Len(s.todo)
  BY DEF SwitchFrame
<1>2. s.selection \in [Lanes -> Selectors]
  BY DEF SwitchFrame
<1> HIDE DEF labels
<1>3. CASE Default \notin labels
  BY <1>3 DEF CaseCondition, Taken, Selected, labels
<1>4. CASE Default \in labels
  <2>1. s.matched = Selected(s.selection, Literals(s.cases))
    <3>1. CASE Grouped(s.cases)
      BY <3>1 DEF SwitchOk
    <3>2. CASE ~Grouped(s.cases)
      <4>1. Len(s.todo) = 1 /\ labels = {Default}
        BY <1>1, <1>4, <3>2 DEF SwitchOk
      <4>2. AllLabels(s.todo) \ {Default} = {}
        <5>1. \A i \in DOMAIN s.todo : i = 1
          BY <1>1, <4>1
        <5>2. \A i \in DOMAIN s.todo : s.todo[i] = {Default}
          BY <1>1, <4>1, <5>1
        <5> QED BY <5>2 DEF AllLabels
      <4>3. s.matched \cup Selected(s.selection, AllLabels(s.todo) \ {Default})
               = Selected(s.selection, Literals(s.cases))
        BY <3>2 DEF SwitchOk
      <4> QED BY <4>2, <4>3 DEF Selected
    <3> QED BY <3>1, <3>2
  <2> QED BY <1>4, <2>1 DEF CaseCondition, Taken, Selected, labels
<1> QED BY <1>3, <1>4

(* No lane takes two cases.                                                *)
LEMMA TakenOnce ==
    ASSUME NEW s \in SwitchFrame, SwitchOk(s), NEW i \in DOMAIN s.todo, NEW j \in DOMAIN s.todo, i # j
    PROVE  Taken(s, s.todo[i]) \cap Taken(s, s.todo[j]) = {}
<1>1. s.selection \in [Lanes -> Selectors] /\ Default \notin Selectors
  BY InvocationsAssumption DEF SwitchFrame
<1>2. s.todo[i] \cap s.todo[j] = {}
  BY DEF SwitchOk, DisjointLabels
<1>3. \A e \in DOMAIN s.todo : \A a \in s.todo[e] : a # Default => a \in Literals(s.cases)
  BY DEF SwitchOk, AllLabels, Literals
<1> QED BY <1>1, <1>2, <1>3 DEF Taken

LEMMA CaseKeeps ==
    ASSUME NEW slot, NEW returns, Inductive(slot, returns), Case
    PROVE  \E s, r : Inductive(s, r)'
<1> DEFINE labels == Head(Inner.todo)
           condition == CaseCondition(Inner, labels)
           started == Top.lanes \cap Taken(Inner, labels)
           block == Frame("case", started)
           frame == Conditional(condition)
<1>0. PICK s, r, d, m : /\ s = Extended(slot, Len(breaks')) /\ r = Extended(returns, Len(early'))
                        /\ d = Depth + 1 /\ m = Depth
  OBVIOUS
<1>1. /\ MeaningType /\ LowererType /\ Nesting /\ Slots(slot) /\ Returns(returns) /\ Live
      /\ Depth \in Nat /\ Depth > 0 /\ Len(breaks) \in Nat /\ m \in 1..Depth
  BY <1>0, DepthFacts DEF Inductive, MeaningType, LowererType
<1>2. /\ MeaningType' /\ LowererType' /\ Opened(block, frame)
      /\ nest[Depth].kind = "switch" /\ stack[Depth] \in SwitchFrame
      /\ condition \subseteq Lanes
  BY <1>1, CaseTypes
<1>3. /\ block.kind = "case" /\ block.lanes = started
      /\ frame.parent = mask /\ frame.condition = condition /\ frame.before = EdgesBefore
  BY DEF Frame, Conditional
<1>4. /\ breaks' = breaks /\ early' = early /\ mask' = mask \cap condition
      /\ wait' = Park(started, 0) /\ Inner.todo # <<>>
      /\ Running = {} /\ returned = NoValue /\ returned' = NoValue
  BY <1>1 DEF Case, Accept, RunCase, Live
<1>5. Waiting(m, slot) /\ CasesFind(m)
  BY <1>1 DEF Inductive
<1>6. /\ At(m) = mask \cup Covered(breaks[slot[m]]) /\ mask \cap Covered(breaks[slot[m]]) = {}
      /\ mask \subseteq Top.lanes /\ SwitchOk(Inner)
      /\ \A l \in Top.lanes : \A i \in DOMAIN Inner.todo : l \in Taken(Inner, Inner.todo[i]) => l \in mask
  BY <1>0, <1>2, <1>5 DEF Waiting, CasesFind, Outside, Todo, Inner, Top
<1>7. /\ Inner.todo \in Seq(Labels) /\ 1 \in DOMAIN Inner.todo /\ labels = Inner.todo[1]
      /\ Inner \in SwitchFrame
  BY <1>2, <1>4 DEF SwitchFrame, Inner
<1>8. condition = Taken(Inner, labels)
  BY <1>4, <1>6, <1>7, ConditionIsTaken
<1>9. started = mask \cap condition
  <2> HIDE DEF condition
  <2> QED BY <1>6, <1>7, <1>8
<1> HIDE DEF block, frame, condition, started, labels
<1>10. Entering(block, frame)
  <2>1. LanesEnter /\ wait' \in [Lanes -> 0..Depth + 1]
    <3>1. started \subseteq At(m)
      BY <1>6, <1>9
    <3> QED BY <1>0, <1>1, <1>2, <1>4, <3>1 DEF LanesEnter, Park, MeaningType, At, Top
  <2>2. Len(breaks') >= Len(breaks)
    BY <1>1, <1>4
  <2> QED BY <1>1, <1>2, <1>3, <1>4, <2>1, <2>2 DEF Entering
<1>11. Nesting' /\ Slots(s)' /\ Returns(r)'
  <2>1. block.kind # "call" /\ block.kind # "switch" /\ Top.kind = "switch"
    BY <1>2, <1>3 DEF Top
  <2>2. Nesting'
    BY <1>1, <1>2, <1>3, <2>1, NestingOpened
  <2>3. Slots(s)'
    BY <1>0, <1>1, <1>2, <1>4, <2>1, SlotsOpened
  <2>4. Returns(r)'
    BY <1>0, <1>1, <1>2, <1>4, <2>1, ReturnsOpened DEF LowererType
  <2> QED BY <2>2, <2>3, <2>4
<1>12. \A k \in 1..Depth : EdgesTell(k, s, r)'
  BY <1>0, <1>1, <1>10, EdgesOpened DEF Inductive
<1>13. \A k \in 1..Depth : k < Depth => Waiting(k, s)' /\ CasesFind(k)'
  BY <1>0, <1>1, <1>10, WaitingOpened DEF Inductive
<1>14. /\ Depth' = d /\ d = Depth + 1 /\ m = Depth /\ nest'[d] = block /\ stack'[d] = frame
       /\ nest'[m] = nest[m] /\ stack'[m] = stack[m]
  BY <1>0, <1>1, <1>2 DEF Opened
<1>15. /\ At(d)' = {} /\ Inside(d)' = mask \cap condition /\ Running' = mask \cap condition
       /\ At(m)' = At(m) \ started
  <2>1. \A l \in Lanes : wait[l] \in 0..Depth /\ wait[l] # 0
    BY <1>1, <1>4 DEF MeaningType, Running
  <2>2. \A l \in Lanes : wait'[l] = IF l \in started THEN 0 ELSE wait[l]
    BY <1>4 DEF Park
  <2>3. mask \subseteq Lanes
    BY <1>1 DEF LowererType
  <2>4. \A l \in Lanes : /\ wait'[l] # d /\ ~(wait'[l] > d)
                         /\ wait'[l] = 0 <=> l \in started
                         /\ wait'[l] = m <=> wait[l] = m /\ l \notin started
    BY <1>1, <1>14, <2>1, <2>2
  <2> QED BY <1>9, <2>3, <2>4 DEF At, Inside, Running
<1>16. Waiting(m, s)'
  <2>1. Outside(m)' = mask \ condition
    BY <1>1, <1>3, <1>14 DEF Outside
  <2>2. s[m] = slot[m]
    BY <1>0, <1>1 DEF Extended
  <2>3. At(m)' = (mask \ condition) \cup Covered(breaks[slot[m]])
    BY <1>6, <1>9, <1>15
  <2> QED BY <1>2, <1>4, <1>6, <1>14, <2>1, <2>2, <2>3 DEF Waiting
<1>17. CasesFind(m)'
  <2>1. Outside(m)' = mask \ condition /\ Todo(m)' = Tail(Inner.todo)
    BY <1>1, <1>3, <1>14 DEF Outside, Todo, Inner
  <2>2. ASSUME NEW l \in Top.lanes, NEW i \in DOMAIN Tail(Inner.todo),
               l \in Taken(Inner, Tail(Inner.todo)[i])
        PROVE  l \in mask \ condition
    <3>1. i + 1 \in DOMAIN Inner.todo /\ i + 1 # 1 /\ Tail(Inner.todo)[i] = Inner.todo[i + 1]
      BY <1>4, <1>7, HeadTailProperties
    <3>2. l \in mask
      BY <1>6, <2>2, <3>1
    <3>3. l \notin Taken(Inner, Inner.todo[1])
      BY <1>6, <1>7, <2>2, <3>1, TakenOnce
    <3> QED BY <1>7, <1>8, <3>2, <3>3
  <2>3. stack'[m] = Inner /\ nest'[m].lanes = Top.lanes /\ nest'[m].kind = "switch"
    BY <1>2, <1>14 DEF Inner, Top
  <2>4. m # Depth' /\ m < Depth' /\ m + 1 = d
    BY <1>1, <1>14
  <2>5. stack'[d].condition = CaseCondition(Inner, Head(Inner.todo)) /\ stack'[d].parent \subseteq Top.lanes
    BY <1>3, <1>6, <1>14 DEF condition, labels
  <2> QED BY <1>4, <1>6, <2>1, <2>2, <2>3, <2>4, <2>5 DEF CasesFind
<1>18. Waiting(d, s)' /\ CasesFind(d)'
  BY <1>3, <1>14, <1>15 DEF Waiting, CasesFind
<1>19. EdgesTell(d, s, r)'
  <2>1. Start(d)' = Inside(d)'
    BY <1>3, <1>14, <1>15 DEF Start
  <2>2. r[d] = Len(early) /\ s[d] = Len(breaks)
    BY <1>0, <1>1, <1>4, <1>14 DEF Extended
  <2>3. frame.before.returns = r[d] /\ frame.before.breaks = BreaksOf(d, s)'
    BY <1>1, <1>3, <1>4, <2>2, EdgesNow DEF BreaksOf
  <2>4. r[d] \in Nat /\ BreaksOf(d, s)' \in Nat
    BY <1>1, <1>3, <2>3, EdgesType DEF Edges
  <2> QED BY <1>14, <2>1, <2>3, <2>4 DEF EdgesTell
<1>20. Live'
  BY <1>3, <1>4, <1>14, <1>15 DEF Live, Top
<1>21. \A k \in 1..Depth' : Waiting(k, s)' /\ CasesFind(k)' /\ EdgesTell(k, s, r)'
  BY <1>1, <1>12, <1>13, <1>14, <1>16, <1>17, <1>18, <1>19
<1> QED BY <1>2, <1>11, <1>20, <1>21 DEF Inductive

-----------------------------------------------------------------------------
(* Steps that leave the constructs as they are.                            *)
LEMMA ConstructsKept ==
    ASSUME NEW slot, NEW returns, Inductive(slot, returns),
           UNCHANGED <<nest, stack, early>>, Len(breaks') = Len(breaks)
    PROVE  Nesting' /\ Slots(slot)' /\ Returns(returns)' /\ Depth' = Depth
<1>1. Depth' = Depth /\ Depth \in 1..Depth /\ KindsKept(Depth)
  BY DepthFacts DEF Inductive, MeaningType, Depth, KindsKept
<1>2. Nesting'
  BY <1>1, NestingKept DEF Inductive
<1>3. Slots(slot)' /\ Returns(returns)'
  BY DEF Inductive, Slots, SameSwitch, Returns, Depth
<1> QED BY <1>1, <1>2, <1>3

LEMMA IdleKeeps ==
    ASSUME NEW slot, NEW returns, Inductive(slot, returns), MeaningType', LowererType',
           UNCHANGED <<nest, wait, mask, early, breaks, stack, returned>>
    PROVE  Inductive(slot, returns)'
<1>1. Nesting' /\ Slots(slot)' /\ Returns(returns)' /\ Live'
  <2>1. Live'
    BY DEF Inductive, Live, Depth, Top, Running
  <2> QED BY <2>1, ConstructsKept
<1>2. ASSUME NEW k \in 1..Depth
      PROVE  Waiting(k, slot)' /\ CasesFind(k)' /\ EdgesTell(k, slot, returns)'
  <2>1. Waiting(k, slot) /\ CasesFind(k) /\ EdgesTell(k, slot, returns)
    BY DEF Inductive
  <2>2. /\ At(k)' = At(k) /\ Inside(k)' = Inside(k) /\ Outside(k)' = Outside(k)
        /\ Todo(k)' = Todo(k) /\ Start(k)' = Start(k) /\ BreaksOf(k, slot)' = BreaksOf(k, slot)
        /\ (AcceptedArm(k)' <=> AcceptedArm(k)) /\ (Pending(k)' <=> Pending(k)) /\ Depth' = Depth
    BY DEF At, Inside, Outside, Todo, Start, BreaksOf, AcceptedArm, Pending, SameFunction, Depth
  <2>3. Waiting(k, slot)'
    BY <2>1, <2>2 DEF Waiting
  <2>4. CasesFind(k)'
    BY <2>1, <2>2 DEF CasesFind
  <2>5. EdgesTell(k, slot, returns)'
    BY <2>1, <2>2 DEF EdgesTell, IsArm
  <2> QED BY <2>3, <2>4, <2>5
<1> QED BY <1>1, <1>2 DEF Inductive, Depth

LEMMA CoveredAppend ==
    ASSUME NEW S, NEW entries \in Seq(S), NEW e \in S
    PROVE  Covered(Append(entries, e)) = Covered(entries) \cup e.lanes
<1> DEFINE more == Append(entries, e)
<1>1. /\ Len(entries) \in Nat /\ DOMAIN entries = 1..Len(entries)
      /\ DOMAIN more = 1..Len(entries) + 1
      /\ \A k \in 1..Len(entries) : more[k] = entries[k]
      /\ more[Len(entries) + 1] = e
  BY Opening
<1> HIDE DEF more
<1>2. \A l : (\E k \in DOMAIN more : l \in more[k].lanes)
             <=> (\E k \in DOMAIN entries : l \in entries[k].lanes) \/ l \in e.lanes
  BY <1>1
<1> QED BY <1>2 DEF Covered, more

(* Steps that keep the constructs and park the lanes that run.             *)
Parking(j) ==
    /\ MeaningType /\ LowererType /\ MeaningType' /\ LowererType'
    /\ UNCHANGED <<nest, stack, early>> /\ wait' = Park(Running, j)
    /\ j \in 1..Depth

LEMMA ParkingFacts ==
    ASSUME NEW j, Parking(j), NEW k \in 1..Depth
    PROVE  /\ Running' = {} /\ Depth' = Depth /\ Depth \in Nat
           /\ At(k)' = IF k = j THEN At(k) \cup Running ELSE At(k)
           /\ Inside(k)' = IF k < j THEN Inside(k) ELSE Inside(k) \ Running
           /\ At(j) \cap Running = {}
<1>1. Depth \in Nat /\ Depth' = Depth
  BY DepthFacts DEF Parking, MeaningType, Depth
<1>2. \A l \in Lanes : wait'[l] = IF wait[l] = 0 THEN j ELSE wait[l]
  BY DEF Parking, Park, Running
<1>3. j \in Nat /\ j # 0 /\ k \in Nat /\ k # 0 /\ \A l \in Lanes : wait[l] \in Nat
  BY <1>1 DEF Parking, MeaningType
<1> QED BY <1>1, <1>2, <1>3 DEF At, Inside, Running

LEMMA BreakKeeps ==
    ASSUME NEW slot, NEW returns, Inductive(slot, returns), Break
    PROVE  \E s, r : Inductive(s, r)'
<1>0. PICK j : j = Innermost("switch")
  OBVIOUS
<1>1. /\ MeaningType /\ LowererType /\ Nesting /\ Slots(slot) /\ Returns(returns) /\ Live
      /\ Depth \in Nat /\ Len(breaks) \in Nat
  BY DepthFacts DEF Inductive, MeaningType, LowererType
<1>2. Function \in 1..Depth /\ SameFunction(Function, Depth)
  BY <1>1, FunctionIsInnermost
<1>3. j \in Function + 1..Depth /\ nest[j].kind = "switch" /\ SameSwitch(j, Depth)
  BY <1>0, <1>1, SwitchIsInnermost DEF Break, RunBreak
<1>4. /\ MeaningType' /\ LowererType' /\ Len(breaks') = Len(breaks)
      /\ \A i \in 1..Len(breaks) - 1 : breaks'[i] = breaks[i]
  BY <1>1, BreakTypes
<1>5. /\ returned = NoValue /\ returned' = NoValue /\ nest[Depth].kind # "switch"
      /\ mask' = {} /\ UNCHANGED <<nest, stack, early>> /\ wait' = Park(Running, j)
  BY <1>0 DEF Break, Statement, RunBreak, Top
<1>6. mask = Running
  BY <1>1, <1>5 DEF Live, Top
<1>7. Parking(j) /\ j \in 1..Depth
  BY <1>1, <1>2, <1>3, <1>4, <1>5 DEF Parking
<1>8. slot[j] = Len(breaks) /\ slot[j] \in 1..Len(breaks)
  <2>1. slot[j] = slot[Depth]
    BY <1>1, <1>3, <1>7 DEF Slots
  <2> QED BY <1>1, <1>3, <1>7, <2>1, SwitchHasSlot DEF Slots
<1>9. \A k \in 1..Depth : k >= j => slot[k] = Len(breaks)
  BY <1>1, <1>7, <1>8 DEF Slots
<1>10. \A k \in 1..Depth : k < j => slot[k] \in 0..Len(breaks) - 1
  <2> TAKE k \in 1..Depth
  <2>1. SUFFICES ASSUME k < j PROVE slot[k] \in 0..Len(breaks) - 1
    OBVIOUS
  <2>2. ~SameSwitch(k, j)
    BY <1>3, <1>7, <2>1 DEF SameSwitch
  <2>3. slot[k] <= slot[j] /\ slot[k] # slot[j]
    BY <1>1, <1>7, <2>1, <2>2 DEF Slots
  <2> QED BY <1>1, <1>8, <2>3 DEF Slots
<1>11. LastBreaks \in Seq(BreakEdge) /\ Len(LastBreaks) \in Nat /\ breaks[slot[j]] = LastBreaks
  <2>1. LastBreaks \in Seq(BreakEdge)
    BY <1>1, <1>8, ElementOfSeq DEF LowererType, LastBreaks
  <2> QED BY <1>8, <2>1 DEF LastBreaks
<1>12. /\ Covered(breaks'[slot[j]]) = Covered(LastBreaks) \cup mask
       /\ Len(breaks'[slot[j]]) = IF mask = {} THEN Len(LastBreaks) ELSE Len(LastBreaks) + 1
  <2> DEFINE edge == [lanes |-> mask, locals |-> locals, argument |-> argument]
  <2>1. edge \in BreakEdge /\ edge.lanes = mask
    BY <1>1 DEF LowererType, BreakEdge
  <2>2. breaks'[slot[j]] = IF mask = {} THEN LastBreaks ELSE Append(LastBreaks, edge)
    BY <1>1, <1>8, BreakTypes
  <2> HIDE DEF edge
  <2>3. /\ Covered(Append(LastBreaks, edge)) = Covered(LastBreaks) \cup mask
        /\ Len(Append(LastBreaks, edge)) = Len(LastBreaks) + 1
    BY <1>11, <2>1, CoveredAppend, Opening
  <2> QED BY <2>2, <2>3
<1>13. Nesting' /\ Slots(slot)' /\ Returns(returns)' /\ Live'
  <2>1. Running' = {}
    BY <1>7, ParkingFacts
  <2>2. Live'
    BY <1>5, <2>1 DEF Live, Top, Depth
  <2> QED BY <1>4, <1>5, <2>2, ConstructsKept
<1>14. ASSUME NEW k \in 1..Depth
       PROVE  Waiting(k, slot)' /\ CasesFind(k)' /\ EdgesTell(k, slot, returns)'
  <2>1. Waiting(k, slot) /\ CasesFind(k) /\ EdgesTell(k, slot, returns)
    BY DEF Inductive
  <2>2. /\ nest' = nest /\ stack' = stack /\ Depth' = Depth
        /\ At(k)' = IF k = j THEN At(k) \cup Running ELSE At(k)
        /\ Inside(k)' = IF k < j THEN Inside(k) ELSE Inside(k) \ Running
        /\ At(j) \cap Running = {}
    BY <1>5, <1>7, ParkingFacts
  <2>3. /\ Todo(k)' = Todo(k) /\ Start(k)' = Start(k)
        /\ (AcceptedArm(k)' <=> AcceptedArm(k)) /\ (Pending(k)' <=> Pending(k))
    BY <1>5, <2>2 DEF Todo, Start, AcceptedArm, Pending, SameFunction
  <2>4. nest[k].kind = "switch" => Outside(k)' = Outside(k) /\ k # Depth
    BY <1>5, <2>2 DEF Outside
  <2>5. CasesFind(k)'
    BY <2>1, <2>2, <2>3, <2>4 DEF CasesFind
  <2>6. CASE nest[k].kind = "switch" /\ k = j
    <3>1. Outside(k) \subseteq At(k)
      BY <2>1, <2>6 DEF Waiting
    <3>2. Waiting(k, slot)'
      BY <1>6, <1>11, <1>12, <2>1, <2>2, <2>4, <2>6, <3>1 DEF Waiting
    <3>3. EdgesTell(k, slot, returns)'
      BY <2>2, <2>6 DEF EdgesTell, IsArm, ArmKinds
    <3> QED BY <2>5, <3>2, <3>3
  <2>7. CASE nest[k].kind = "switch" /\ k # j
    <3>1. k < j
      BY <1>1, <1>3, <1>7, <2>7 DEF SameSwitch
    <3>2. breaks'[slot[k]] = breaks[slot[k]]
      <4>1. slot[k] \in 1..Len(breaks) - 1
        BY <1>1, <1>10, <2>7, <3>1, SwitchHasSlot
      <4> QED BY <1>4, <4>1
    <3>3. Waiting(k, slot)'
      BY <2>1, <2>2, <2>4, <2>7, <3>2 DEF Waiting
    <3>4. EdgesTell(k, slot, returns)'
      BY <2>2, <2>7 DEF EdgesTell, IsArm, ArmKinds
    <3> QED BY <2>5, <3>3, <3>4
  <2>8. CASE nest[k].kind = "call"
    <3>1. k < j
      BY <1>1, <1>2, <1>3, <2>8 DEF SameFunction
    <3>2. Waiting(k, slot)'
      BY <2>1, <2>2, <2>8, <3>1 DEF Waiting
    <3>3. EdgesTell(k, slot, returns)'
      BY <2>2, <2>8 DEF EdgesTell, IsArm, ArmKinds
    <3> QED BY <2>5, <3>2, <3>3
  <2>9. CASE IsArm(k)
    <3>1. k # j /\ nest[k].kind # "switch" /\ nest[k].kind # "call"
      BY <1>3, <2>9 DEF IsArm, ArmKinds
    <3>2. Waiting(k, slot)'
      BY <2>1, <2>2, <2>3, <3>1 DEF Waiting
    <3>3. EdgesTell(k, slot, returns)'
      <4>1. CASE k < j
        <5>1. BreaksOf(k, slot)' = BreaksOf(k, slot)
          <6>1. slot[k] # 0 => slot[k] \in 1..Len(breaks) - 1
            BY <1>1, <1>10, <4>1
          <6> QED BY <1>4, <6>1 DEF BreaksOf
        <5> QED BY <2>1, <2>2, <2>3, <4>1, <5>1 DEF EdgesTell, IsArm
      <4>2. CASE k > j /\ mask = {}
        <5>1. Inside(k)' = Inside(k)
          BY <1>1, <1>6, <1>7, <2>2, <4>2
        <5>2. BreaksOf(k, slot)' = BreaksOf(k, slot)
          BY <1>8, <1>9, <1>11, <1>12, <4>2, <1>1, <1>7 DEF BreaksOf
        <5> QED BY <2>1, <2>2, <2>3, <5>1, <5>2 DEF EdgesTell, IsArm
      <4>3. CASE k > j /\ mask # {}
        <5>1. Inside(k)' \subseteq Inside(k)
          BY <2>2
        <5>2. BreaksOf(k, slot)' = BreaksOf(k, slot) + 1 /\ BreaksOf(k, slot) \in Nat
          <6>1. slot[k] = slot[j] /\ slot[k] # 0
            BY <1>1, <1>7, <1>8, <1>9, <4>3
          <6>2. Len(breaks'[slot[k]]) = Len(LastBreaks) + 1 /\ Len(breaks[slot[k]]) = Len(LastBreaks)
            BY <1>11, <1>12, <4>3, <6>1
          <6> QED BY <1>11, <6>1, <6>2 DEF BreaksOf
        <5>3. stack[k].before.breaks <= BreaksOf(k, slot) /\ stack[k].before.breaks \in Nat
          <6>1. stack[k] \in ArmFrame
            BY <1>1, <2>9, FrameTypes DEF MeaningType, Frames, IsArm
          <6> QED BY <2>1, <2>9, <6>1 DEF EdgesTell, ArmFrame, Edges
        <5> QED BY <2>1, <2>2, <2>3, <5>1, <5>2, <5>3 DEF EdgesTell, IsArm
      <4> QED BY <1>1, <1>7, <3>1, <4>1, <4>2, <4>3
    <3> QED BY <2>5, <3>2, <3>3
  <2>10. nest[k].kind \in ArmKinds \cup {"switch", "call"}
    BY <1>1, BlockKinds DEF MeaningType
  <2> QED BY <2>6, <2>7, <2>8, <2>9, <2>10 DEF IsArm
<1>15. Depth' = Depth
  BY <1>5 DEF Depth
<1> QED BY <1>4, <1>13, <1>14, <1>15 DEF Inductive

LEMMA ReturnKeeps ==
    ASSUME NEW slot, NEW returns, Inductive(slot, returns), NEW x \in Locals, Return(x)
    PROVE  \E s, r : Inductive(s, r)'
<1>0. PICK j : j = Function
  OBVIOUS
<1>1. /\ MeaningType /\ LowererType /\ Nesting /\ Slots(slot) /\ Returns(returns) /\ Live
      /\ Depth \in Nat
  BY DepthFacts DEF Inductive, MeaningType
<1>2. j \in 1..Depth /\ nest[j].kind = "call" /\ SameFunction(j, Depth)
  BY <1>0, <1>1, FunctionIsInnermost
<1>3. MeaningType' /\ LowererType' /\ returned' \in Word /\ returned' # NoValue
  BY <1>1, ReturnTypes, Assumptions
<1>4. /\ returned = NoValue /\ nest[Depth].kind # "switch"
      /\ UNCHANGED <<nest, stack, early, breaks, mask>> /\ wait' = Park(Running, j)
  BY <1>0 DEF Return, Statement, RunReturn, Top
<1>5. Parking(j)
  BY <1>1, <1>2, <1>3, <1>4 DEF Parking
<1>6. Nesting' /\ Slots(slot)' /\ Returns(returns)' /\ Live' /\ Depth' = Depth
  <2>1. Running' = {}
    BY <1>2, <1>5, ParkingFacts
  <2>2. Live'
    BY <1>3, <1>4, <2>1 DEF Live, Top, Depth
  <2> QED BY <1>4, <2>2, ConstructsKept
<1>7. ASSUME NEW k \in 1..Depth
      PROVE  Waiting(k, slot)' /\ CasesFind(k)' /\ EdgesTell(k, slot, returns)'
  <2>1. Waiting(k, slot) /\ CasesFind(k) /\ EdgesTell(k, slot, returns)
    BY DEF Inductive
  <2>2. /\ nest' = nest /\ stack' = stack /\ Depth' = Depth /\ breaks' = breaks
        /\ At(k)' = IF k = j THEN At(k) \cup Running ELSE At(k)
        /\ Inside(k)' = IF k < j THEN Inside(k) ELSE Inside(k) \ Running
    BY <1>4, <1>5, ParkingFacts
  <2>3. /\ Todo(k)' = Todo(k) /\ Start(k)' = Start(k) /\ (AcceptedArm(k)' <=> AcceptedArm(k))
        /\ Outside(k)' = Outside(k) /\ BreaksOf(k, slot)' = BreaksOf(k, slot)
    BY <1>4, <2>2 DEF Todo, Start, AcceptedArm, Outside, BreaksOf
  <2>4. CasesFind(k)'
    BY <1>4, <2>1, <2>2, <2>3 DEF CasesFind
  <2>5. CASE nest[k].kind = "call"
    <3>1. k <= j
      BY <1>1, <1>2, <2>5 DEF SameFunction
    <3>2. Running \subseteq Inside(k)
      BY DEF Running, Inside
    <3>3. At(k)' \cup Inside(k)' = At(k) \cup Inside(k)
      BY <1>1, <1>2, <2>2, <3>1, <3>2
    <3>4. Waiting(k, slot)'
      BY <2>1, <2>2, <2>5, <3>3 DEF Waiting
    <3>5. EdgesTell(k, slot, returns)'
      BY <2>2, <2>5 DEF EdgesTell, IsArm, ArmKinds
    <3> QED BY <2>4, <3>4, <3>5
  <2>6. CASE nest[k].kind # "call"
    <3>1. k # j
      BY <1>2, <2>6
    <3>2. Waiting(k, slot)'
      BY <2>1, <2>2, <2>3, <2>6, <3>1 DEF Waiting
    <3>3. CASE k < j
      <4>1. ~SameFunction(k, Depth)
        BY <1>1, <1>2, <3>3 DEF SameFunction
      <4>2. Pending(k)' <=> Pending(k)
        BY <1>4, <2>2, <4>1 DEF Pending, SameFunction
      <4> QED BY <2>1, <2>2, <2>3, <2>4, <3>2, <3>3, <4>2 DEF EdgesTell, IsArm
    <3>4. CASE k > j
      <4>1. Pending(k)'
        <5>1. SameFunction(k, Depth)'
          BY <1>1, <1>2, <2>2, <3>4 DEF SameFunction
        <5> QED BY <1>3, <5>1 DEF Pending
      <4>2. Inside(k)' \subseteq Inside(k)
        BY <2>2
      <4> QED BY <2>1, <2>2, <2>3, <2>4, <3>2, <4>1, <4>2 DEF EdgesTell, IsArm
    <3> QED BY <1>1, <1>2, <3>1, <3>3, <3>4
  <2> QED BY <2>5, <2>6
<1> QED BY <1>3, <1>6, <1>7 DEF Inductive

LEMMA ElseKeeps ==
    ASSUME NEW slot, NEW returns, Inductive(slot, returns), Else
    PROVE  \E s, r : Inductive(s, r)'
<1>0. PICK m : m = Depth
  OBVIOUS
<1>1. /\ MeaningType /\ LowererType /\ Nesting /\ Slots(slot) /\ Returns(returns) /\ Live
      /\ Depth \in Nat /\ Depth \in 1..Depth
  BY DepthFacts DEF Inductive, MeaningType
<1>2. MeaningType' /\ LowererType' /\ Exchanged
  BY <1>1, ElseTypes
<1>3. /\ breaks' = breaks /\ early' = early /\ returned' = NoValue
      /\ mask' = Inner.parent \ Inner.condition
      /\ wait' = [l \in Lanes |-> IF l \in Top.lanes THEN 0 ELSE IF l \in Running THEN Depth ELSE wait[l]]
  BY DEF Else, Reject, RunElse
<1>4. /\ m = Depth /\ Depth' = m /\ m \in Nat /\ m \in 1..m /\ KindsKept(m)
      /\ nest[m].kind = "if" /\ nest'[m].kind = "else"
      /\ \A k \in 1..m - 1 : nest'[k] = nest[k] /\ stack'[k] = stack[k]
      /\ stack'[m].parent = stack[m].parent /\ stack'[m].condition = stack[m].condition
      /\ stack'[m].accepted = Arm(stack[m].before) /\ stack'[m].accepted \in ArmResult
      /\ stack'[m].before = EdgesBefore
  BY <1>0, <1>1, <1>2 DEF Exchanged, KindsKept, Inner
<1>5. Waiting(m, slot) /\ EdgesTell(m, slot, returns)
  BY <1>0, <1>1 DEF Inductive
<1>6. /\ At(m) = nest[m].lanes /\ nest[m].lanes = stack[m].parent \ stack[m].condition
      /\ At(m) = Top.lanes
  BY <1>0, <1>4, <1>5 DEF Waiting, Top
<1>7. /\ Running' = At(m) /\ At(m)' = Running /\ Inside(m)' = At(m) /\ Inside(m) = Running
      /\ \A k \in 1..m - 1 : At(k)' = At(k) /\ Inside(k)' = Inside(k)
  <2>1. \A l \in Lanes : wait[l] \in 0..m
    BY <1>1, <1>4 DEF MeaningType
  <2>2. \A l \in Lanes : wait'[l] = IF wait[l] = m THEN 0 ELSE IF wait[l] = 0 THEN m ELSE wait[l]
    BY <1>3, <1>4, <1>6 DEF At, Running
  <2>3. \A l \in Lanes : /\ wait'[l] = 0 <=> wait[l] = m
                         /\ wait'[l] = m <=> wait[l] = 0
                         /\ (wait'[l] = 0 \/ wait'[l] > m) <=> wait[l] = m
                         /\ (wait[l] = 0 \/ wait[l] > m) <=> wait[l] = 0
    BY <1>4, <2>1, <2>2
  <2>4. \A l \in Lanes, k \in 1..m - 1 :
           /\ wait'[l] = k <=> wait[l] = k
           /\ (wait'[l] = 0 \/ wait'[l] > k) <=> (wait[l] = 0 \/ wait[l] > k)
    BY <1>4, <2>1, <2>2
  <2> QED BY <2>3, <2>4 DEF At, Running, Inside
<1>8. PICK s, r : s = [k \in 1..m |-> slot[k]] /\ r = [k \in 1..m |-> returns[k]]
  OBVIOUS
<1>9. Nesting' /\ Slots(s)' /\ Returns(r)'
  <2>1. m \in 1..Depth
    BY <1>4
  <2>2. Nesting'
    BY <1>1, <1>4, <2>1, NestingKept
  <2>3. slot[m] = Len(breaks') /\ Len(breaks') \in Nat /\ returns[m] = Len(early')
    BY <1>1, <1>3, <1>4 DEF Slots, Returns, LowererType
  <2>4. Slots(s)'
    BY <1>1, <1>4, <1>8, <2>1, <2>3, SlotsKept
  <2>5. \A k \in 1..m : nest[k].kind = "call" => stack'[k].early = stack[k].early
    BY <1>4
  <2>6. Returns(r)'
    BY <1>1, <1>4, <1>8, <2>1, <2>3, <2>5, ReturnsKept
  <2> QED BY <2>2, <2>4, <2>6
<1>10. Live'
  BY <1>3, <1>4, <1>6, <1>7 DEF Live, Top, Inner
<1>11. Waiting(m, s)' /\ CasesFind(m)' /\ EdgesTell(m, s, r)'
  <2>1. \A k \in m+1..m : FALSE
    BY <1>4
  <2>2. Pending(m) <=> returned # NoValue
    BY <1>4, <2>1 DEF Pending, SameFunction
  <2>3. Len(early) = r[m] /\ BreaksOf(m, slot) = SwitchBreakCount /\ r[m] = returns[m] /\ s[m] = slot[m]
    <3>1. slot[m] = Len(breaks) /\ returns[m] = Len(early)
      BY <1>1, <1>4 DEF Slots, Returns
    <3> QED BY <1>1, <1>4, <1>8, <3>1, EdgesNow DEF BreaksOf
  <2>4. Arm(stack[m].before).mask = Running
    BY <1>1, <1>4 DEF Arm, Live, Top
  <2>5. AcceptedArm(m)'
    <3> DEFINE a == Arm(stack[m].before)
    <3>1. a.value = returned /\ a.partial = (returned = NoValue /\ EdgesBefore # stack[m].before)
      BY DEF Arm
    <3>2. a.value # NoValue => a.mask = {}
      BY DEF Arm
    <3>3. ASSUME a.value = NoValue, ~a.partial
          PROVE  a.mask = stack[m].parent \cap stack[m].condition
      <4>1. returned = NoValue /\ stack[m].before = EdgesBefore
        BY <3>1, <3>3
      <4>2. Inside(m) = Start(m)
        BY <1>1, <1>4, <1>5, <2>2, <2>3, <4>1, EdgesNow DEF EdgesTell, IsArm, ArmKinds
      <4> QED BY <1>4, <1>7, <2>4, <4>2 DEF Start
    <3> HIDE DEF a
    <3>4. stack'[m].accepted = a /\ a \in ArmResult
      BY <1>4 DEF a
    <3> QED BY <1>4, <3>2, <3>3, <3>4 DEF AcceptedArm
  <2>6. Waiting(m, s)' /\ CasesFind(m)'
    BY <1>4, <1>7, <2>4, <2>5 DEF Waiting, CasesFind
  <2>7. EdgesTell(m, s, r)'
    <3>1. Start(m)' = Inside(m)'
      BY <1>4, <1>6, <1>7 DEF Start
    <3>2. BreaksOf(m, s)' = SwitchBreakCount
      BY <1>3, <2>3 DEF BreaksOf
    <3>3. stack'[m].before.returns = r[m] /\ stack'[m].before.breaks = BreaksOf(m, s)'
      BY <1>1, <1>4, <2>3, <3>2, EdgesNow
    <3>4. r[m] \in Nat /\ BreaksOf(m, s)' \in Nat
      BY <1>1, <1>4, <3>3, EdgesType DEF Edges
    <3> QED BY <3>1, <3>3, <3>4 DEF EdgesTell
  <2> QED BY <2>6, <2>7
<1>12. ASSUME NEW k \in 1..m - 1
       PROVE  Waiting(k, s)' /\ CasesFind(k)' /\ EdgesTell(k, s, r)'
  <2>1. Waiting(k, slot) /\ CasesFind(k) /\ EdgesTell(k, slot, returns) /\ k \in 1..m /\ k < m
        /\ k + 1 \in 1..m
    BY <1>4 DEF Inductive
  <2>2. nest'[k] = nest[k] /\ stack'[k] = stack[k] /\ At(k)' = At(k) /\ Inside(k)' = Inside(k)
        /\ s[k] = slot[k] /\ r[k] = returns[k]
    BY <1>4, <1>7, <1>8, <2>1
  <2>3. /\ stack'[k + 1].parent = stack[k + 1].parent
        /\ stack'[k + 1].condition = stack[k + 1].condition
    BY <1>4, <2>1
  <2>4. /\ Outside(k)' = Outside(k) /\ Todo(k)' = Todo(k) /\ Start(k)' = Start(k)
        /\ (AcceptedArm(k)' <=> AcceptedArm(k)) /\ BreaksOf(k, s)' = BreaksOf(k, slot)
    BY <1>3, <1>4, <2>1, <2>2, <2>3 DEF Outside, Todo, Start, AcceptedArm, BreaksOf
  <2>5. Waiting(k, s)'
    BY <1>3, <2>1, <2>2, <2>4 DEF Waiting
  <2>6. CasesFind(k)'
    BY <1>4, <2>1, <2>2, <2>3, <2>4 DEF CasesFind
  <2>7. Pending(k)' <=> Pending(k)
    <3>1. \A j \in 1..m : SameFunction(k, j)' <=> SameFunction(k, j)
      BY <1>4, SameKept
    <3>2. Pending(k) <=> \/ returned # NoValue /\ SameFunction(k, m)
                         \/ \E j \in k+1..m - 1 : /\ nest[j].kind = "else"
                                                  /\ stack[j].accepted.value # NoValue
                                                  /\ SameFunction(k, j)
      <4>1. \A j \in k+1..m : nest[j].kind = "else" => j \in k+1..m - 1
        BY <1>4
      <4>2. \A j \in k+1..m - 1 : j \in k+1..m
        BY <1>4
      <4> QED BY <1>4, <4>1, <4>2 DEF Pending
    <3>3. Pending(k)' <=> \E j \in k+1..m : /\ nest'[j].kind = "else"
                                            /\ stack'[j].accepted.value # NoValue
                                            /\ SameFunction(k, j)'
      BY <1>3, <1>4 DEF Pending
    <3>4. stack'[m].accepted.value = returned
      BY <1>4 DEF Arm
    <3>5. \A j \in k+1..m : j = m \/ j \in k+1..m - 1
      BY <1>4
    <3>6. m \in k+1..m /\ \A j \in k+1..m - 1 : j \in k+1..m /\ j \in 1..m - 1 /\ j \in 1..m
      BY <1>4, <2>1
    <3> QED BY <1>4, <3>1, <3>2, <3>3, <3>4, <3>5, <3>6
  <2>8. EdgesTell(k, s, r)'
    BY <2>1, <2>2, <2>4, <2>7 DEF EdgesTell, IsArm
  <2> QED BY <2>5, <2>6, <2>8
<1>13. \A k \in 1..Depth' : Waiting(k, s)' /\ CasesFind(k)' /\ EdgesTell(k, s, r)'
  BY <1>4, <1>11, <1>12
<1> QED BY <1>2, <1>9, <1>10, <1>13 DEF Inductive

-----------------------------------------------------------------------------
(* A construct is closed: the lanes that waited for its end run again.     *)
Leaving(d) ==
    /\ MeaningType /\ LowererType /\ MeaningType' /\ LowererType' /\ Nesting
    /\ wait' = Resume /\ d \in Nat /\ d > 0 /\ Depth = d + 1 /\ Closed(d)
    /\ \A k \in 1..d : stack'[k] = stack[k]
    /\ nest[Depth].kind # "case"

LEMMA LeavingFacts ==
    ASSUME NEW d, Leaving(d)
    PROVE  /\ Running' = Running \cup At(Depth)
           /\ \A k \in 1..d : /\ At(k)' = At(k) /\ Inside(k)' = Inside(k) /\ Start(k)' = Start(k)
                              /\ AcceptedArm(k)' <=> AcceptedArm(k)
           /\ d \in 1..Depth /\ Depth \in 1..Depth /\ Depth' = d /\ KindsKept(d)
           /\ nest[d].kind # "switch"
<1>1. d \in Nat /\ d > 0 /\ Depth = d + 1 /\ Depth' = d
  BY DEF Leaving, Closed
<1>2. \A k \in 1..d : nest'[k] = nest[k] /\ stack'[k] = stack[k]
  BY DEF Leaving, Closed
<1>3. \A l \in Lanes : wait[l] \in 0..d + 1
  BY <1>1 DEF Leaving, MeaningType
<1>4. \A l \in Lanes : wait'[l] = IF wait[l] = d + 1 THEN 0 ELSE wait[l]
  BY <1>1 DEF Leaving, Resume
<1>5. ASSUME NEW k \in 1..d
      PROVE  /\ At(k)' = At(k) /\ Inside(k)' = Inside(k)
  <2>1. \A l \in Lanes : /\ wait'[l] = k <=> wait[l] = k
                         /\ (wait'[l] = 0 \/ wait'[l] > k) <=> (wait[l] = 0 \/ wait[l] > k)
    BY <1>1, <1>3, <1>4
  <2> QED BY <2>1 DEF At, Inside
<1>6. Running' = Running \cup At(Depth)
  BY <1>1, <1>3, <1>4 DEF Running, At
<1>7. \A k \in 1..d : Start(k)' = Start(k) /\ (AcceptedArm(k)' <=> AcceptedArm(k))
  BY <1>2 DEF Start, AcceptedArm
<1>8. nest[d].kind # "switch"
  <2>1. d + 1 \in 2..Depth /\ d + 1 - 1 = d
    BY <1>1
  <2> QED BY <1>1, <2>1 DEF Leaving, Nesting
<1> QED BY <1>1, <1>2, <1>5, <1>6, <1>7, <1>8 DEF KindsKept

LEMMA WaitingLeft ==
    ASSUME NEW d, Leaving(d), NEW k \in 1..d, NEW slot, Waiting(k, slot), CasesFind(k),
           NEW s, s[k] = slot[k], nest[k].kind = "switch" => breaks'[slot[k]] = breaks[slot[k]]
    PROVE  Waiting(k, s)' /\ CasesFind(k)'
<1>1. d \in Nat /\ d > 0 /\ Depth = d + 1 /\ Depth' = d /\ nest'[k] = nest[k] /\ stack'[k] = stack[k]
  BY DEF Leaving, Closed
<1>2. /\ At(k)' = At(k) /\ Inside(k)' = Inside(k) /\ nest[d].kind # "switch"
      /\ (AcceptedArm(k)' <=> AcceptedArm(k))
  BY LeavingFacts
<1>3. CASE nest[k].kind = "switch"
  <2>1. k < d /\ k + 1 \in 1..d
    BY <1>1, <1>2, <1>3
  <2>2. stack'[k + 1] = stack[k + 1] /\ k # Depth /\ k # Depth' /\ k < Depth /\ k < Depth'
    BY <1>1, <2>1 DEF Leaving
  <2>3. Outside(k)' = Outside(k) /\ Todo(k)' = Todo(k)
    BY <1>1, <2>2 DEF Outside, Todo
  <2>4. Waiting(k, s)'
    BY <1>1, <1>2, <1>3, <2>3 DEF Waiting
  <2>5. CasesFind(k)'
    BY <1>1, <1>3, <2>2, <2>3 DEF CasesFind
  <2> QED BY <2>4, <2>5
<1>4. CASE nest[k].kind # "switch"
  BY <1>1, <1>2, <1>4 DEF Waiting, CasesFind
<1> QED BY <1>3, <1>4

LEMMA EdgesLeft ==
    ASSUME NEW d, Leaving(d), NEW k \in 1..d, NEW slot, NEW returns, EdgesTell(k, slot, returns),
           NEW s, NEW r, BreaksOf(k, s)' = BreaksOf(k, slot), returns[k] \in Nat, r[k] \in Nat,
           r[k] > returns[k] \/ (r[k] = returns[k] /\ (Pending(k) => Pending(k)'))
    PROVE  EdgesTell(k, s, r)'
<1>1. nest'[k] = nest[k] /\ stack'[k] = stack[k] /\ k \in 1..Depth
  BY DEF Leaving, Closed
<1>2. /\ Inside(k)' = Inside(k) /\ Start(k)' = Start(k)
  BY LeavingFacts
<1>3. SUFFICES ASSUME IsArm(k) PROVE EdgesTell(k, s, r)'
  BY <1>1 DEF EdgesTell, IsArm
<1>4. stack[k].before.returns \in Nat
  <2>1. stack[k] \in ArmFrame
    BY <1>1, <1>3, FrameTypes DEF Leaving, MeaningType, Frames, IsArm
  <2> QED BY <2>1 DEF ArmFrame, Edges
<1>5. stack[k].before.returns <= returns[k]
  BY <1>3 DEF EdgesTell
<1> QED BY <1>1, <1>2, <1>3, <1>4, <1>5 DEF EdgesTell

(* Lanes that have returned from a conditional that is closed.             *)
LEMMA PendingLeft ==
    ASSUME NEW d, Leaving(d), NEW k \in 1..d
    PROVE  /\ Pending(k)' <=> \/ returned' # NoValue /\ SameFunction(k, d)
                              \/ \E j \in k+1..d : /\ nest[j].kind = "else"
                                                   /\ stack[j].accepted.value # NoValue
                                                   /\ SameFunction(k, j)
           /\ Pending(k) <=> \/ returned # NoValue /\ SameFunction(k, Depth)
                             \/ /\ nest[Depth].kind = "else" /\ Inner.accepted.value # NoValue
                                /\ SameFunction(k, Depth)
                             \/ \E j \in k+1..d : /\ nest[j].kind = "else"
                                                  /\ stack[j].accepted.value # NoValue
                                                  /\ SameFunction(k, j)
           /\ SameFunction(k, Depth) <=> SameFunction(k, d) /\ nest[Depth].kind # "call"
<1>1. d \in Nat /\ d > 0 /\ Depth = d + 1 /\ Depth' = d /\ KindsKept(d)
  BY LeavingFacts DEF Leaving
<1>2. \A j \in 1..d : nest'[j] = nest[j] /\ stack'[j] = stack[j] /\ (SameFunction(k, j)' <=> SameFunction(k, j))
  BY <1>1, SameKept DEF Leaving, Closed
<1>3. \A j : j \in k+1..d + 1 <=> j \in k+1..d \/ j = d + 1
  BY <1>1
<1>4. \A j \in k+1..d : j \in 1..d
  BY <1>1
<1>5. d \in 1..d
  BY <1>1
<1>6. SameFunction(k, d)' <=> SameFunction(k, d)
  BY <1>2, <1>5
<1>7. Pending(k)' <=> \/ returned' # NoValue /\ SameFunction(k, d)
                      \/ \E j \in k+1..d : /\ nest[j].kind = "else"
                                           /\ stack[j].accepted.value # NoValue
                                           /\ SameFunction(k, j)
  BY <1>1, <1>2, <1>4, <1>6 DEF Pending
<1>8. SameFunction(k, Depth) <=> SameFunction(k, d) /\ nest[Depth].kind # "call"
  BY <1>1, <1>3 DEF SameFunction
<1>9. Pending(k) <=> \/ returned # NoValue /\ SameFunction(k, Depth)
                     \/ /\ nest[Depth].kind = "else" /\ Inner.accepted.value # NoValue
                        /\ SameFunction(k, Depth)
                     \/ \E j \in k+1..d : /\ nest[j].kind = "else"
                                          /\ stack[j].accepted.value # NoValue
                                          /\ SameFunction(k, j)
  BY <1>1, <1>3 DEF Pending, Inner
<1> QED BY <1>7, <1>8, <1>9

(* Of the lanes of the construct on top all run that do not wait.          *)
LEMMA InsideTop ==
    ASSUME MeaningType
    PROVE  Inside(Depth) = Running
<1>1. PICK m : m = Depth
  OBVIOUS
<1>2. m \in Nat /\ wait \in [Lanes -> 0..m]
  BY <1>1, DepthFacts DEF MeaningType
<1>3. Inside(m) = Running
  BY <1>2 DEF Inside, Running
<1> QED BY <1>1, <1>3

LEMMA EndSwitchKeeps ==
    ASSUME NEW slot, NEW returns, Inductive(slot, returns), EndSwitch
    PROVE  \E s, r : Inductive(s, r)'
<1>0. PICK m, d : m = Depth /\ d = Depth - 1
  OBVIOUS
<1>1. /\ MeaningType /\ LowererType /\ Nesting /\ Slots(slot) /\ Returns(returns) /\ Live
      /\ Depth \in Nat /\ Depth \in 1..Depth /\ Len(breaks) \in Nat /\ m \in 1..Depth
  BY <1>0, DepthFacts DEF Inductive, MeaningType, LowererType
<1>2. nest[m].kind = "switch" /\ Inner.todo = <<>> /\ wait' = Resume /\ Top.kind = "switch"
  BY <1>0 DEF EndSwitch, RunEndSwitch, Top
<1>3. m > 1 /\ slot[m] \in 1..Len(breaks) /\ slot[m] = slot[m - 1] + 1
  BY <1>1, <1>2, SwitchHasSlot
<1>4. /\ MeaningType' /\ LowererType' /\ Closed(Depth - 1)
      /\ \A k \in 1..Depth - 1 : stack'[k] = stack[k]
      /\ Len(breaks') = Len(breaks) - 1
      /\ \A i \in 1..Len(breaks) - 1 : breaks'[i] = breaks[i]
  BY <1>1, <1>3, EndSwitchTypes
<1>5. Leaving(d)
  BY <1>0, <1>1, <1>2, <1>3, <1>4 DEF Leaving
<1>6. /\ Running = {} /\ returned = NoValue /\ returned' = NoValue /\ early' = early
      /\ mask' = mask \cup Covered(LastBreaks)
  BY <1>1, <1>2 DEF Live, EndSwitch
<1>7. d \in Nat /\ d > 0 /\ m = d + 1 /\ Depth' = d /\ d \in 1..d /\ d \in 1..Depth
      /\ nest[d].kind # "switch" /\ nest'[d] = nest[d] /\ KindsKept(d)
  BY <1>0, <1>5, LeavingFacts DEF Leaving, Closed
<1>8. slot[m] = Len(breaks) /\ slot[d] = Len(breaks')
  <2>1. slot[Depth] = Len(breaks) /\ m - 1 = d /\ slot[d] \in Nat
    BY <1>0, <1>1, <1>7 DEF Slots
  <2> QED BY <1>0, <1>1, <1>3, <1>4, <1>7, <2>1
<1>9. PICK s, r : s = [k \in 1..d |-> slot[k]] /\ r = [k \in 1..d |-> returns[k]]
  OBVIOUS
<1>10. Nesting' /\ Slots(s)' /\ Returns(r)'
  <2>1. Nesting'
    BY <1>1, <1>7, NestingKept
  <2>2. Slots(s)'
    BY <1>1, <1>4, <1>7, <1>8, <1>9, SlotsKept
  <2>3. returns[d] = Len(early')
    <3>1. d \in 1..Depth - 1 /\ returns[Depth] = Len(early)
      BY <1>0, <1>1, <1>7 DEF Returns
    <3> QED BY <1>0, <1>1, <1>2, <1>6, <1>7, <3>1 DEF Returns
  <2>4. \A k \in 1..d : nest[k].kind = "call" => stack'[k].early = stack[k].early
    BY <1>5 DEF Leaving
  <2>5. Returns(r)'
    BY <1>1, <1>7, <1>9, <2>3, <2>4, ReturnsKept
  <2> QED BY <2>1, <2>2, <2>5
<1>11. Live'
  <2>1. Waiting(m, slot)
    BY <1>1 DEF Inductive
  <2>2. At(m) = mask \cup Covered(LastBreaks)
    BY <1>0, <1>2, <1>8, <2>1 DEF Waiting, Outside, LastBreaks
  <2>3. Running' = mask'
    BY <1>0, <1>5, <1>6, <2>2, LeavingFacts
  <2> QED BY <1>6, <1>7, <2>3 DEF Live, Top
<1>12. ASSUME NEW k \in 1..d
       PROVE  Waiting(k, s)' /\ CasesFind(k)' /\ EdgesTell(k, s, r)'
  <2>1. Waiting(k, slot) /\ CasesFind(k) /\ EdgesTell(k, slot, returns) /\ k \in 1..Depth
    BY <1>0, <1>1, <1>7 DEF Inductive
  <2>2. s[k] = slot[k] /\ r[k] = returns[k] /\ returns[k] \in Nat
    BY <1>1, <1>9, <2>1 DEF Returns
  <2>3. slot[k] # 0 => slot[k] \in 1..Len(breaks) - 1
    BY <1>1, <1>4, <1>7, <1>8, <2>1 DEF Slots
  <2>4. slot[k] # 0 => breaks'[slot[k]] = breaks[slot[k]]
    BY <1>4, <2>3
  <2>5. BreaksOf(k, s)' = BreaksOf(k, slot)
    BY <2>2, <2>4 DEF BreaksOf
  <2>6. nest[k].kind = "switch" => slot[k] # 0
    BY <1>1, <2>1, SwitchHasSlot
  <2>7. Waiting(k, s)' /\ CasesFind(k)'
    BY <1>5, <2>1, <2>2, <2>4, <2>6, WaitingLeft
  <2>8. Pending(k) => Pending(k)'
    BY <1>0, <1>2, <1>5, <1>6, PendingLeft
  <2>9. EdgesTell(k, s, r)'
    BY <1>5, <2>1, <2>2, <2>5, <2>8, EdgesLeft
  <2> QED BY <2>7, <2>9
<1> QED BY <1>4, <1>7, <1>10, <1>11, <1>12 DEF Inductive

LEMMA EndCallKeeps ==
    ASSUME NEW slot, NEW returns, Inductive(slot, returns),
           NEW results \in { {} } \cup { {x} : x \in Locals }, EndCall(results)
    PROVE  \E s, r : Inductive(s, r)'
<1>0. PICK m, d : m = Depth /\ d = Depth - 1
  OBVIOUS
<1>1. /\ MeaningType /\ LowererType /\ Nesting /\ Slots(slot) /\ Returns(returns) /\ Live
      /\ Depth \in Nat /\ Depth \in 1..Depth /\ Len(breaks) \in Nat /\ m \in 1..Depth
  BY <1>0, DepthFacts DEF Inductive, MeaningType, LowererType
<1>2. /\ MeaningType' /\ LowererType' /\ Closed(Depth - 1)
      /\ \A k \in 1..Depth - 1 : stack'[k] = stack[k]
      /\ nest[Depth].kind = "call" /\ Depth > 1
  BY <1>1, EndCallTypes
<1>3. /\ wait' = Resume /\ returned' = NoValue /\ breaks' = breaks
      /\ mask' = Inner.mask /\ early' = Inner.early
  BY DEF EndCall, RunEndCall
<1>4. Leaving(d)
  BY <1>0, <1>1, <1>2, <1>3 DEF Leaving
<1>5. d \in Nat /\ d > 0 /\ m = d + 1 /\ Depth' = d /\ d \in 1..d /\ d \in 1..Depth
      /\ nest[d].kind # "switch" /\ nest'[d] = nest[d] /\ KindsKept(d)
  BY <1>0, <1>4, LeavingFacts DEF Leaving, Closed
<1>6. PICK s, r : s = [k \in 1..d |-> slot[k]] /\ r = [k \in 1..d |-> returns[k]]
  OBVIOUS
<1>7. Nesting' /\ Slots(s)' /\ Returns(r)'
  <2>1. Nesting'
    BY <1>1, <1>5, NestingKept
  <2>2. slot[d] = Len(breaks')
    <3>1. m \in 2..Depth /\ m - 1 = d /\ nest[m].kind # "switch"
      BY <1>0, <1>1, <1>2, <1>5
    <3>2. slot[m] = slot[d] /\ slot[m] = Len(breaks)
      <4>1. slot[m] = IF nest[m].kind = "switch" THEN slot[m - 1] + 1 ELSE slot[m - 1]
        BY <1>1, <3>1 DEF Slots
      <4>2. slot[Depth] = Len(breaks)
        BY <1>1 DEF Slots
      <4> QED BY <1>0, <3>1, <4>1, <4>2
    <3> QED BY <1>3, <3>2
  <2>3. Slots(s)'
    BY <1>1, <1>3, <1>5, <1>6, <2>2, SlotsKept
  <2>4. returns[d] = Len(early')
    <3>1. d \in 1..Depth - 1 /\ d + 1 = Depth
      BY <1>0, <1>1, <1>5
    <3> QED BY <1>1, <1>2, <1>3, <3>1 DEF Returns, Inner
  <2>5. \A k \in 1..d : nest[k].kind = "call" => stack'[k].early = stack[k].early
    BY <1>4 DEF Leaving
  <2>6. Returns(r)'
    BY <1>1, <1>5, <1>6, <2>4, <2>5, ReturnsKept
  <2> QED BY <2>1, <2>3, <2>6
<1>8. Live'
  <2>1. Waiting(m, slot)
    BY <1>1 DEF Inductive
  <2>2. At(m) \cup Inside(m) = Inner.mask
    BY <1>0, <1>2, <2>1 DEF Waiting, Inner
  <2>3. Inside(m) = Running
    BY <1>0, <1>1, InsideTop
  <2>4. Running' = mask'
    BY <1>0, <1>3, <1>4, <2>2, <2>3, LeavingFacts
  <2> QED BY <1>3, <1>5, <2>4 DEF Live, Top
<1>9. ASSUME NEW k \in 1..d
      PROVE  Waiting(k, s)' /\ CasesFind(k)' /\ EdgesTell(k, s, r)'
  <2>1. Waiting(k, slot) /\ CasesFind(k) /\ EdgesTell(k, slot, returns) /\ k \in 1..Depth
    BY <1>0, <1>1, <1>5 DEF Inductive
  <2>2. s[k] = slot[k] /\ r[k] = returns[k] /\ returns[k] \in Nat
    BY <1>1, <1>6, <2>1 DEF Returns
  <2>3. BreaksOf(k, s)' = BreaksOf(k, slot)
    BY <1>3, <2>2 DEF BreaksOf
  <2>4. Waiting(k, s)' /\ CasesFind(k)'
    BY <1>3, <1>4, <2>1, <2>2, WaitingLeft
  <2>5. Pending(k) => Pending(k)'
    BY <1>0, <1>2, <1>4, PendingLeft
  <2>6. EdgesTell(k, s, r)'
    BY <1>4, <2>1, <2>2, <2>3, <2>5, EdgesLeft
  <2> QED BY <2>4, <2>6
<1> QED BY <1>2, <1>5, <1>7, <1>8, <1>9 DEF Inductive

(* What the arm that ends leaves to the merge.                             *)
ArmSays(arm, lanes) ==
    /\ arm \in ArmResult
    /\ arm.value # NoValue => arm.mask = {}
    /\ arm.value = NoValue /\ ~arm.partial => arm.mask = lanes

LEMMA ArmTells ==
    ASSUME MeaningType, LowererType, Live, NEW slot, NEW returns, Slots(slot), Returns(returns),
           EdgesTell(Depth, slot, returns), nest[Depth].kind \in ArmKinds, Inner \in ArmFrame
    PROVE  /\ ArmSays(Arm(Inner.before), Start(Depth))
           /\ Arm(Inner.before).mask = Running /\ Arm(Inner.before).value = returned
<1>0. PICK m : m = Depth
  OBVIOUS
<1>1. Depth \in Nat /\ Depth \in 1..Depth /\ m = Depth /\ m \in Nat
  BY <1>0, DepthFacts DEF MeaningType
<1>2. Top.kind # "switch" /\ Top.kind # "call" /\ nest[m].kind \in ArmKinds
  BY <1>0 DEF Top, ArmKinds
<1>3. Inside(Depth) = Running
  BY InsideTop
<1>4. Arm(Inner.before).mask = Running /\ Arm(Inner.before).value = returned
  BY <1>2 DEF Arm, Live
<1>5. Arm(Inner.before) \in ArmResult
  BY ArmType DEF ArmFrame
<1>6. ASSUME returned = NoValue, ~Arm(Inner.before).partial
      PROVE  Running = Start(Depth)
  <2>1. Inner.before = EdgesBefore
    BY <1>6 DEF Arm
  <2>2. ~Pending(Depth)
    <3>1. \A j \in m+1..m : FALSE
      BY <1>1
    <3> QED BY <1>1, <1>6, <3>1 DEF Pending
  <2>3. returns[m] = Len(early) /\ BreaksOf(m, slot) = SwitchBreakCount
    <3>1. slot[Depth] = Len(breaks) /\ returns[Depth] = Len(early)
      BY DEF Slots, Returns
    <3> QED BY <1>1, <3>1, EdgesNow DEF BreaksOf
  <2> QED BY <1>1, <1>3, <2>1, <2>2, <2>3, EdgesNow DEF EdgesTell, IsArm, Inner
<1>7. Arm(Inner.before).value # NoValue => Running = {}
  BY <1>4 DEF Live
<1> QED BY <1>4, <1>5, <1>6, <1>7 DEF ArmSays

(* What a merge makes of its two arms.                                     *)
LEMMA MergeFacts ==
    ASSUME LowererType, NEW c \in ArmFrame, NEW accepted, NEW rejected,
           ArmSays(accepted, c.parent \cap c.condition), ArmSays(rejected, c.parent \ c.condition),
           Merge(c, accepted, rejected)
    PROVE  /\ returned' = NoValue => mask' = accepted.mask \cup rejected.mask
           /\ returned' # NoValue => accepted.mask \cup rejected.mask = {}
           /\ returned' # NoValue <=> accepted.value # NoValue /\ rejected.value # NoValue
           /\ (accepted.value = NoValue <=> rejected.value = NoValue) => early' = early
           /\ ~(accepted.value = NoValue <=> rejected.value = NoValue) => Len(early') = Len(early) + 1
           /\ breaks' = breaks
<1>1. /\ c.parent \subseteq Lanes /\ c.condition \subseteq Lanes
      /\ accepted.value \in Word \cup {NoValue} /\ rejected.value \in Word \cup {NoValue}
  BY DEF ArmFrame, ArmResult, ArmSays
<1>2. breaks' = breaks
  BY DEF Merge
<1>3. CASE accepted.value # NoValue /\ rejected.value # NoValue
  <2>1. returned' = Select(c.condition, accepted.value, rejected.value) /\ early' = early
    BY <1>3 DEF Merge
  <2>2. returned' # NoValue
    BY <1>1, <1>3, <2>1, SelectType, Assumptions
  <2> QED BY <1>2, <1>3, <2>1, <2>2 DEF ArmSays
<1>4. CASE accepted.value # NoValue /\ rejected.value = NoValue
  <2>1. /\ early' = Append(early, [lanes |-> c.parent \cap c.condition, value |-> accepted.value])
        /\ mask' = rejected.mask /\ returned' = NoValue
    BY <1>4 DEF Merge
  <2>2. Len(early') = Len(early) + 1
    BY <2>1 DEF LowererType
  <2> QED BY <1>2, <1>4, <2>1, <2>2 DEF ArmSays
<1>5. CASE accepted.value = NoValue /\ rejected.value # NoValue
  <2>1. /\ early' = Append(early, [lanes |-> c.parent \ c.condition, value |-> rejected.value])
        /\ mask' = accepted.mask /\ returned' = NoValue
    BY <1>5 DEF Merge
  <2>2. Len(early') = Len(early) + 1
    BY <2>1 DEF LowererType
  <2> QED BY <1>2, <1>5, <2>1, <2>2 DEF ArmSays
<1>6. CASE accepted.value = NoValue /\ rejected.value = NoValue
  <2>1. early' = early /\ returned' = NoValue /\ mask' = MergedMask(c, accepted, rejected)
    BY <1>6 DEF Merge
  <2>2. mask' = accepted.mask \cup rejected.mask
    BY <1>1, <1>6, <2>1 DEF MergedMask, ArmSays
  <2> QED BY <1>2, <1>6, <2>1, <2>2
<1> QED BY <1>3, <1>4, <1>5, <1>6

LEMMA EndIfKeeps ==
    ASSUME NEW slot, NEW returns, Inductive(slot, returns), EndIf
    PROVE  \E s, r : Inductive(s, r)'
<1> DEFINE accepted == Inner.accepted
           rejected == Arm(Inner.before)
           alike == accepted.value = NoValue <=> returned = NoValue
<1>0. PICK m, d : m = Depth /\ d = Depth - 1
  OBVIOUS
<1>1. /\ MeaningType /\ LowererType /\ Nesting /\ Slots(slot) /\ Returns(returns) /\ Live
      /\ Depth \in Nat /\ Depth \in 1..Depth /\ Len(breaks) \in Nat /\ m \in 1..Depth
  BY <1>0, DepthFacts DEF Inductive, MeaningType, LowererType
<1>2. Waiting(m, slot) /\ EdgesTell(m, slot, returns) /\ nest[Depth].kind = "else"
  BY <1>1 DEF Inductive, EndIf, RunEndIf, Top
<1>3. AcceptedArm(Depth) /\ At(m) = accepted.mask
  BY <1>0, <1>2 DEF Waiting, Inner
<1>4. /\ MeaningType' /\ LowererType' /\ Closed(Depth - 1)
      /\ \A k \in 1..Depth - 1 : stack'[k] = stack[k]
      /\ Depth > 1 /\ Inner \in ArmFrame
  BY <1>1, <1>3, EndIfTypes DEF Inner
<1>5. wait' = Resume /\ Merge(Inner, accepted, rejected)
  BY DEF EndIf, RunEndIf
<1>6. Leaving(d)
  BY <1>0, <1>1, <1>2, <1>4, <1>5 DEF Leaving
<1>7. d \in Nat /\ d > 0 /\ m = d + 1 /\ Depth' = d /\ d \in 1..d /\ d \in 1..Depth
      /\ nest[d].kind # "switch" /\ nest'[d] = nest[d] /\ KindsKept(d)
  BY <1>0, <1>6, LeavingFacts DEF Leaving, Closed
<1>8. /\ ArmSays(rejected, Inner.parent \ Inner.condition)
      /\ rejected.mask = Running /\ rejected.value = returned
  BY <1>0, <1>1, <1>2, <1>4, ArmTells DEF ArmKinds, Start, Inner
<1>9. ArmSays(accepted, Inner.parent \cap Inner.condition)
  BY <1>3 DEF AcceptedArm, ArmSays, Inner
<1> HIDE DEF accepted, rejected
<1>10. /\ returned' = NoValue => mask' = Running'
       /\ returned' # NoValue => Running' = {}
       /\ returned' # NoValue <=> accepted.value # NoValue /\ returned # NoValue
       /\ alike => early' = early
       /\ ~alike => Len(early') = Len(early) + 1
       /\ breaks' = breaks
  <2>1. Running' = accepted.mask \cup rejected.mask
    BY <1>0, <1>3, <1>6, <1>8, LeavingFacts
  <2> QED BY <1>1, <1>4, <1>5, <1>8, <1>9, <2>1, MergeFacts
<1>11. PICK s, r : s = [k \in 1..d |-> slot[k]]
                   /\ r = IF alike THEN [k \in 1..d |-> returns[k]] ELSE Counted(returns, d)
  OBVIOUS
<1>12. Nesting' /\ Slots(s)' /\ Returns(r)'
  <2>1. Nesting'
    BY <1>1, <1>7, NestingKept
  <2>2. slot[d] = Len(breaks')
    <3>1. m \in 2..Depth /\ m - 1 = d /\ nest[m].kind # "switch"
      BY <1>0, <1>1, <1>2, <1>7
    <3>2. slot[m] = IF nest[m].kind = "switch" THEN slot[m - 1] + 1 ELSE slot[m - 1]
      BY <1>1, <3>1 DEF Slots
    <3>3. slot[Depth] = Len(breaks)
      BY <1>1 DEF Slots
    <3> QED BY <1>0, <1>10, <3>1, <3>2, <3>3
  <2>3. Slots(s)'
    BY <1>1, <1>10, <1>7, <1>11, <2>2, SlotsKept
  <2>4. \A k \in 1..d : nest[k].kind = "call" => stack'[k].early = stack[k].early
    BY <1>6 DEF Leaving
  <2>5. ASSUME alike PROVE Returns(r)'
    <3>1. d \in 1..Depth - 1 /\ d + 1 = Depth /\ nest[Depth].kind # "call"
      BY <1>0, <1>1, <1>2, <1>7
    <3>2. returns[d] = Len(early')
      BY <1>1, <1>10, <2>5, <3>1 DEF Returns
    <3>3. r = [k \in 1..d |-> returns[k]]
      BY <1>11, <2>5
    <3> HIDE DEF alike
    <3> QED BY <1>1, <1>7, <2>4, <3>2, <3>3, ReturnsKept
  <2>6. ASSUME ~alike PROVE Returns(r)'
    <3>1. r = Counted(returns, d) /\ Len(early') = Len(early) + 1
      BY <1>10, <1>11, <2>6
    <3>2. d = Depth - 1 /\ nest[Depth].kind # "call"
      BY <1>0, <1>2
    <3> HIDE DEF alike
    <3> QED BY <1>1, <1>7, <2>4, <3>1, <3>2, ReturnsCounted
  <2> QED BY <2>1, <2>3, <2>5, <2>6
<1>13. Live'
  BY <1>7, <1>10 DEF Live, Top
<1>14. ASSUME NEW k \in 1..d
       PROVE  Waiting(k, s)' /\ CasesFind(k)' /\ EdgesTell(k, s, r)'
  <2>1. Waiting(k, slot) /\ CasesFind(k) /\ EdgesTell(k, slot, returns) /\ k \in 1..Depth
    BY <1>0, <1>1, <1>7 DEF Inductive
  <2>2. /\ s[k] = slot[k] /\ returns[k] \in Nat
        /\ r[k] = IF alike \/ ~SameFunction(k, Depth) THEN returns[k] ELSE returns[k] + 1
    BY <1>1, <1>11, <2>1 DEF Returns, Counted
  <2>3. BreaksOf(k, s)' = BreaksOf(k, slot)
    BY <1>10, <2>2 DEF BreaksOf
  <2>4. Waiting(k, s)' /\ CasesFind(k)'
    BY <1>10, <1>6, <2>1, <2>2, WaitingLeft
  <2>5. alike \/ ~SameFunction(k, Depth) => (Pending(k) => Pending(k)')
    BY <1>10, <1>6, PendingLeft DEF accepted
  <2>6. r[k] \in Nat /\ (r[k] > returns[k] \/ (r[k] = returns[k] /\ (Pending(k) => Pending(k)')))
    <3>1. CASE alike \/ ~SameFunction(k, Depth)
      BY <2>2, <2>5, <3>1
    <3>2. CASE ~(alike \/ ~SameFunction(k, Depth))
      BY <2>2, <3>2
    <3> QED BY <3>1, <3>2
  <2>7. EdgesTell(k, s, r)'
    BY <1>6, <2>1, <2>2, <2>3, <2>6, EdgesLeft
  <2> QED BY <2>4, <2>7
<1> QED BY <1>4, <1>7, <1>12, <1>13, <1>14 DEF Inductive

(* The switch goes on with the cases that are left.                        *)
LEMMA AfterCaseOk ==
    ASSUME NEW s \in SwitchFrame, SwitchOk(s), s.todo # <<>>,
           NEW t, t = AfterCase(s, CaseCondition(s, Head(s.todo)))
    PROVE  /\ t.selection = s.selection /\ t.cases = s.cases /\ t.todo = Tail(s.todo)
           /\ \A labels : Taken(t, labels) = Taken(s, labels)
           /\ SwitchOk(t)
<1> DEFINE condition == CaseCondition(s, Head(s.todo))
<1>1. /\ t.selection = s.selection /\ t.cases = s.cases /\ t.todo = Tail(s.todo)
      /\ t.matched = IF Grouped(s.cases) THEN s.matched ELSE s.matched \cup condition
  BY DEF AfterCase, SwitchFrame
<1>2. \A labels : Taken(t, labels) = Taken(s, labels)
  BY <1>1 DEF Taken
<1>3. /\ s.todo \in Seq(Labels) /\ Len(s.todo) \in Nat /\ Len(s.todo) > 0
      /\ Head(s.todo) = s.todo[1] /\ DOMAIN s.todo = 1..Len(s.todo)
  BY DEF SwitchFrame
<1>4. /\ t.todo \in Seq(Labels) /\ Len(t.todo) = Len(s.todo) - 1
      /\ DOMAIN t.todo = 1..Len(s.todo) - 1
      /\ \A i \in DOMAIN t.todo : t.todo[i] = s.todo[i + 1] /\ i + 1 \in DOMAIN s.todo
  <2>1. /\ Tail(s.todo) \in Seq(Labels) /\ Len(Tail(s.todo)) = Len(s.todo) - 1
        /\ \A i \in 1..Len(Tail(s.todo)) : Tail(s.todo)[i] = s.todo[i + 1]
    BY <1>3, HeadTailProperties
  <2>2. DOMAIN Tail(s.todo) = 1..Len(Tail(s.todo))
    BY <2>1
  <2>3. \A i \in 1..Len(s.todo) - 1 : i + 1 \in DOMAIN s.todo
    BY <1>3
  <2>4. t.todo = Tail(s.todo)
    BY <1>1
  <2> QED BY <2>1, <2>2, <2>3, <2>4
<1>5. DisjointLabels(t.todo)
  <2>1. \A i, j \in DOMAIN s.todo : i # j => s.todo[i] \cap s.todo[j] = {}
    BY DEF SwitchOk, DisjointLabels
  <2>2. \A i, j \in DOMAIN t.todo : i # j => i + 1 # j + 1
    BY <1>3, <1>4
  <2> QED BY <1>4, <2>1, <2>2 DEF DisjointLabels
<1>6. AllLabels(s.todo) = s.todo[1] \cup AllLabels(t.todo)
  <2>1. ASSUME NEW i \in DOMAIN s.todo
        PROVE  i = 1 \/ \E j \in DOMAIN t.todo : t.todo[j] = s.todo[i]
    <3>1. SUFFICES ASSUME i # 1 PROVE \E j \in DOMAIN t.todo : t.todo[j] = s.todo[i]
      OBVIOUS
    <3>2. i - 1 \in DOMAIN t.todo /\ i - 1 + 1 = i
      BY <1>3, <1>4, <3>1
    <3> QED BY <1>4, <3>2
  <2>2. 1 \in DOMAIN s.todo
    BY <1>3
  <2> QED BY <1>4, <2>1, <2>2 DEF AllLabels
<1>7. AllLabels(t.todo) \subseteq AllLabels(t.cases)
  BY <1>1, <1>6 DEF SwitchOk
<1>8. Grouped(t.cases) => t.matched = Selected(t.selection, Literals(t.cases))
  BY <1>1 DEF SwitchOk
<1>9. ASSUME ~Grouped(t.cases)
      PROVE  /\ \A i \in DOMAIN t.todo : Default \in t.todo[i] =>
                   i = Len(t.todo) /\ t.todo[i] = {Default}
             /\ t.todo # <<>> => t.matched \cup Selected(t.selection, AllLabels(t.todo) \ {Default})
                                 = Selected(t.selection, Literals(t.cases))
  <2>1. ASSUME NEW i \in DOMAIN t.todo, Default \in t.todo[i]
        PROVE  i = Len(t.todo) /\ t.todo[i] = {Default}
    <3>1. i + 1 = Len(s.todo) /\ s.todo[i + 1] = {Default}
      BY <1>1, <1>4, <1>9, <2>1 DEF SwitchOk
    <3> QED BY <1>3, <1>4, <2>1, <3>1
  <2>2. ASSUME t.todo # <<>>
        PROVE  t.matched \cup Selected(t.selection, AllLabels(t.todo) \ {Default})
               = Selected(t.selection, Literals(t.cases))
    <3>1. Len(s.todo) # 1
      <4>1. Len(t.todo) # 0
        BY <1>4, <2>2
      <4> QED BY <1>4, <4>1
    <3>2. Default \notin s.todo[1] /\ Default \notin Head(s.todo)
      <4>1. \A i \in DOMAIN s.todo : Default \in s.todo[i] => i = Len(s.todo)
        BY <1>1, <1>9 DEF SwitchOk
      <4>2. 1 \in DOMAIN s.todo
        BY <1>3
      <4> QED BY <1>3, <3>1, <4>1, <4>2
    <3>3. t.matched = s.matched \cup Selected(s.selection, s.todo[1])
      BY <1>1, <1>3, <1>9, <3>2 DEF CaseCondition
    <3>4. AllLabels(s.todo) \ {Default} = s.todo[1] \cup (AllLabels(t.todo) \ {Default})
      BY <1>6, <3>2
    <3>5. Selected(s.selection, AllLabels(s.todo) \ {Default})
             = Selected(s.selection, s.todo[1]) \cup Selected(s.selection, AllLabels(t.todo) \ {Default})
      BY <3>4 DEF Selected
    <3>6. s.matched \cup Selected(s.selection, AllLabels(s.todo) \ {Default})
             = Selected(s.selection, Literals(s.cases))
      BY <1>1, <1>9 DEF SwitchOk
    <3> QED BY <1>1, <3>3, <3>5, <3>6
  <2> QED BY <2>1, <2>2
<1> QED BY <1>1, <1>2, <1>5, <1>7, <1>8, <1>9 DEF SwitchOk

LEMMA EndCaseKeeps ==
    ASSUME NEW slot, NEW returns, Inductive(slot, returns), EndCase
    PROVE  \E s, r : Inductive(s, r)'
<1> DEFINE accepted == Arm(Inner.before)
           rejected == EmptyArm(Inner)
           outside == Inner.parent \ Inner.condition
<1>0. PICK m, d : m = Depth /\ d = Depth - 1
  OBVIOUS
<1>1. /\ MeaningType /\ LowererType /\ Nesting /\ Slots(slot) /\ Returns(returns) /\ Live
      /\ Depth \in Nat /\ Depth \in 1..Depth /\ Len(breaks) \in Nat /\ m \in 1..Depth
  BY <1>0, DepthFacts DEF Inductive, MeaningType, LowererType
<1>2. Waiting(m, slot) /\ EdgesTell(m, slot, returns) /\ nest[Depth].kind = "case"
  BY <1>1 DEF Inductive, EndCase, RunEndCase, Top
<1>3. d \in 1..Depth /\ d < Depth /\ d + 1 = m /\ nest[d].kind = "switch" /\ d \in Nat /\ d > 0
  <2>1. Depth # 1
    BY <1>1, <1>2 DEF Nesting
  <2>2. m \in 2..Depth /\ m - 1 = d
    BY <1>0, <1>1, <2>1
  <2>3. nest[m - 1].kind = "switch"
    BY <1>0, <1>1, <1>2, <2>2 DEF Nesting
  <2> QED BY <1>0, <1>1, <2>2, <2>3
<1>4. Waiting(d, slot) /\ CasesFind(d)
  BY <1>3 DEF Inductive
<1>5. /\ SwitchOk(stack[d]) /\ stack[d].todo # <<>>
      /\ Inner.condition = CaseCondition(stack[d], Head(stack[d].todo))
      /\ Inner.parent \subseteq nest[d].lanes
      /\ \A l \in nest[d].lanes : \A i \in DOMAIN Tail(stack[d].todo) :
            l \in Taken(stack[d], Tail(stack[d].todo)[i]) => l \in outside
      /\ At(d) = outside \cup Covered(breaks[slot[d]])
      /\ outside \cap Covered(breaks[slot[d]]) = {}
  <2>1. d # Depth /\ stack[d + 1] = Inner
    BY <1>0, <1>1, <1>3 DEF Inner
  <2>2. Outside(d) = outside /\ Todo(d) = Tail(stack[d].todo)
    BY <2>1 DEF Outside, Todo
  <2> QED BY <1>3, <1>4, <2>1, <2>2 DEF Waiting, CasesFind
<1>6. /\ MeaningType' /\ LowererType' /\ Closed(Depth - 1)
      /\ Inner \in ArmFrame /\ stack[d] \in SwitchFrame
      /\ stack'[d] = AfterCase(stack[d], Inner.condition) /\ rejected \in ArmResult
  <2>1. At(Depth) = {} /\ stack[Depth - 1].todo # <<>>
    BY <1>0, <1>2, <1>5 DEF Waiting
  <2> QED BY <1>0, <1>1, <2>1, EndCaseTypes DEF Inner
<1>7. wait' = Park(Running, d) /\ Merge(Inner, accepted, rejected)
  BY <1>0 DEF EndCase, RunEndCase
<1>8. /\ ArmSays(accepted, Inner.parent \cap Inner.condition)
      /\ accepted.mask = Running /\ accepted.value = returned
  BY <1>0, <1>1, <1>2, <1>6, ArmTells DEF ArmKinds, Start, Inner
<1>9. ArmSays(rejected, outside) /\ rejected.mask = outside /\ rejected.value = NoValue
  BY <1>6 DEF EmptyArm, ArmSays
<1>10. Running \subseteq Inner.parent
  BY <1>0, <1>1, <1>2, InsideTop DEF EdgesTell, IsArm, ArmKinds, Start, Inner
<1> HIDE DEF accepted, rejected
<1>11. /\ returned' = NoValue /\ mask' = Running \cup outside /\ breaks' = breaks
       /\ returned = NoValue => early' = early
       /\ returned # NoValue => Len(early') = Len(early) + 1
  BY <1>1, <1>6, <1>7, <1>8, <1>9, MergeFacts
<1> HIDE DEF outside
<1>12. /\ Depth' = d /\ KindsKept(d) /\ \A k \in 1..d : nest'[k] = nest[k]
       /\ \A k \in 1..d - 1 : stack'[k] = stack[k]
       /\ d \in 1..d
  BY <1>0, <1>3, <1>6 DEF Closed, KindsKept
<1>13. /\ Running' = {} /\ At(d)' = At(d) \cup Running /\ At(d) \cap Running = {}
       /\ \A k \in 1..d - 1 : At(k)' = At(k) /\ Inside(k)' = Inside(k)
  <2>1. \A l \in Lanes : wait[l] \in Nat
    BY <1>1 DEF MeaningType
  <2>2. \A l \in Lanes : wait'[l] = IF wait[l] = 0 THEN d ELSE wait[l]
    BY <1>7 DEF Park, Running
  <2>3. \A l \in Lanes : \A k \in 1..d - 1 :
           /\ wait'[l] = k <=> wait[l] = k
           /\ (wait'[l] = 0 \/ wait'[l] > k) <=> (wait[l] = 0 \/ wait[l] > k)
    BY <1>3, <2>1, <2>2
  <2>4. \A l \in Lanes : wait'[l] # 0 /\ (wait'[l] = d <=> wait[l] = d \/ wait[l] = 0)
    BY <1>3, <2>1, <2>2
  <2> QED BY <1>3, <2>3, <2>4 DEF At, Inside, Running
<1>14. PICK s, r : s = [k \in 1..d |-> slot[k]]
                   /\ r = IF returned = NoValue THEN [k \in 1..d |-> returns[k]] ELSE Counted(returns, d)
  OBVIOUS
<1>15. Nesting' /\ Slots(s)' /\ Returns(r)'
  <2>1. Nesting'
    BY <1>1, <1>3, <1>12, NestingKept
  <2>2. slot[d] = Len(breaks')
    <3>1. m \in 2..Depth /\ m - 1 = d /\ nest[m].kind # "switch"
      BY <1>0, <1>1, <1>2, <1>3
    <3>2. slot[m] = IF nest[m].kind = "switch" THEN slot[m - 1] + 1 ELSE slot[m - 1]
      BY <1>1, <3>1 DEF Slots
    <3>3. slot[Depth] = Len(breaks)
      BY <1>1 DEF Slots
    <3> QED BY <1>0, <1>11, <3>1, <3>2, <3>3
  <2>3. Slots(s)'
    BY <1>1, <1>3, <1>11, <1>12, <1>14, <2>2, SlotsKept
  <2>4. \A k \in 1..d : nest[k].kind = "call" => stack'[k].early = stack[k].early
    <3> TAKE k \in 1..d
    <3>1. k = d \/ k \in 1..d - 1
      BY <1>3
    <3> QED BY <1>3, <1>12, <3>1
  <2>5. d = Depth - 1 /\ d \in 1..Depth - 1 /\ d + 1 = Depth /\ nest[Depth].kind # "call"
    BY <1>0, <1>1, <1>2, <1>3
  <2>6. ASSUME returned = NoValue PROVE Returns(r)'
    <3>1. returns[d] = Len(early')
      BY <1>1, <1>11, <2>5, <2>6 DEF Returns
    <3>2. r = [k \in 1..d |-> returns[k]]
      BY <1>14, <2>6
    <3> QED BY <1>1, <1>3, <1>12, <2>4, <3>1, <3>2, ReturnsKept
  <2>7. ASSUME returned # NoValue PROVE Returns(r)'
    <3>1. r = Counted(returns, d) /\ Len(early') = Len(early) + 1
      BY <1>11, <1>14, <2>7
    <3> QED BY <1>1, <1>3, <1>12, <2>4, <2>5, <3>1, ReturnsCounted
  <2> QED BY <2>1, <2>3, <2>6, <2>7
<1>16. Live'
  BY <1>3, <1>11, <1>12, <1>13 DEF Live, Top
<1>17. Waiting(d, s)'
  <2>1. s[d] = slot[d] /\ Outside(d)' = Running \cup outside
    BY <1>11, <1>12, <1>14 DEF Outside
  <2>2. Running \cap Covered(breaks[slot[d]]) = {}
    BY <1>5, <1>13
  <2> QED BY <1>3, <1>5, <1>11, <1>12, <1>13, <2>1, <2>2 DEF Waiting
<1>18. CasesFind(d)'
  <2>1. /\ stack'[d].todo = Tail(stack[d].todo) /\ SwitchOk(stack'[d])
        /\ \A labels : Taken(stack'[d], labels) = Taken(stack[d], labels)
    BY <1>5, <1>6, AfterCaseOk
  <2>2. /\ Outside(d)' = Running \cup outside /\ Todo(d)' = Tail(stack[d].todo)
        /\ nest'[d].lanes = nest[d].lanes
    BY <1>11, <1>12, <2>1 DEF Outside, Todo
  <2>3. mask' \subseteq nest[d].lanes
    BY <1>5, <1>10, <1>11 DEF outside
  <2>4. ~(d < Depth')
    BY <1>3, <1>12
  <2> QED BY <1>5, <2>1, <2>2, <2>3, <2>4 DEF CasesFind
<1>19. EdgesTell(d, s, r)'
  BY <1>3, <1>12 DEF EdgesTell, IsArm, ArmKinds
<1>20. ASSUME NEW k \in 1..d - 1
       PROVE  Waiting(k, s)' /\ CasesFind(k)' /\ EdgesTell(k, s, r)'
  <2>1. /\ Waiting(k, slot) /\ CasesFind(k) /\ EdgesTell(k, slot, returns)
        /\ k \in 1..Depth /\ k \in 1..d /\ k < d /\ k < Depth /\ k \in Nat
    BY <1>3, <1>1 DEF Inductive
  <2>2. /\ nest'[k] = nest[k] /\ stack'[k] = stack[k] /\ s[k] = slot[k]
        /\ At(k)' = At(k) /\ Inside(k)' = Inside(k)
        /\ (AcceptedArm(k)' <=> AcceptedArm(k)) /\ Start(k)' = Start(k)
        /\ BreaksOf(k, s)' = BreaksOf(k, slot)
    BY <1>11, <1>12, <1>13, <1>14, <2>1 DEF AcceptedArm, Start, BreaksOf
  <2>3. nest[k].kind = "switch" => stack'[k + 1] = stack[k + 1]
    <3>1. SUFFICES ASSUME nest[k].kind = "switch" PROVE k + 1 \in 1..d - 1
      BY <1>12
    <3>2. nest[k + 1].kind = "case"
      <4>1. k + 1 \in 2..Depth /\ k + 1 - 1 = k
        BY <1>1, <2>1
      <4> QED BY <1>1, <3>1, <4>1 DEF Nesting
    <3>3. k + 1 # d
      BY <1>3, <3>2
    <3> QED BY <1>3, <2>1, <3>3
  <2>4. nest[k].kind = "switch" => Outside(k)' = Outside(k) /\ Todo(k)' = Todo(k)
    <3>1. k # Depth /\ k # Depth'
      BY <1>1, <1>3, <1>12, <2>1
    <3> QED BY <2>2, <2>3, <3>1 DEF Outside, Todo
  <2>5. Waiting(k, s)'
    BY <1>11, <2>1, <2>2, <2>4 DEF Waiting
  <2>6. CasesFind(k)'
    BY <1>3, <1>12, <2>1, <2>2, <2>3, <2>4 DEF CasesFind
  <2>7. /\ returns[k] \in Nat
        /\ r[k] = IF returned = NoValue \/ ~SameFunction(k, Depth) THEN returns[k] ELSE returns[k] + 1
    BY <1>1, <1>14, <2>1 DEF Returns, Counted
  <2>8. ASSUME returned = NoValue \/ ~SameFunction(k, Depth), Pending(k)
        PROVE  Pending(k)'
    <3>1. PICK j \in k+1..m : /\ nest[j].kind = "else" /\ stack[j].accepted.value # NoValue
                              /\ SameFunction(k, j)
      BY <1>0, <2>8 DEF Pending
    <3>2. j \in 1..d - 1 /\ j \in k+1..d /\ j \in 1..d
      BY <1>0, <1>2, <1>3, <2>1, <3>1
    <3>3. SameFunction(k, j)'
      BY <1>3, <1>12, <2>1, <3>1, <3>2, SameKept
    <3> QED BY <1>12, <3>1, <3>2, <3>3 DEF Pending
  <2>9. EdgesTell(k, s, r)'
    <3>1. SUFFICES ASSUME IsArm(k) PROVE EdgesTell(k, s, r)'
      BY <2>2 DEF EdgesTell, IsArm
    <3>2. stack[k].before.returns \in Nat
      <4>1. stack[k] \in ArmFrame
        BY <1>1, <2>1, <3>1, FrameTypes DEF MeaningType, Frames, IsArm
      <4> QED BY <4>1 DEF ArmFrame, Edges
    <3>3. stack[k].before.returns <= returns[k]
      BY <2>1, <3>1 DEF EdgesTell
    <3>4. CASE returned = NoValue \/ ~SameFunction(k, Depth)
      BY <2>1, <2>2, <2>7, <2>8, <3>1, <3>4 DEF EdgesTell
    <3>5. CASE ~(returned = NoValue \/ ~SameFunction(k, Depth))
      BY <2>1, <2>2, <2>7, <3>1, <3>2, <3>3, <3>5 DEF EdgesTell
    <3> QED BY <3>4, <3>5
  <2> QED BY <2>5, <2>6, <2>9
<1>21. \A k \in 1..d : Waiting(k, s)' /\ CasesFind(k)' /\ EdgesTell(k, s, r)'
  <2>1. \A k \in 1..d : k = d \/ k \in 1..d - 1
    BY <1>3
  <2> QED BY <2>1, <1>17, <1>18, <1>19, <1>20
<1> QED BY <1>6, <1>12, <1>15, <1>16, <1>21 DEF Inductive

-----------------------------------------------------------------------------
(* The lowerer's mask follows the lanes.                                   *)
IInv == \E slot, returns : Inductive(slot, returns)

LEMMA InitKeeps == Init => IInv
<1> SUFFICES ASSUME Init PROVE IInv
  OBVIOUS
<1> DEFINE activation == [kind |-> "call", lanes |-> Lanes, target |-> NoPointer,
                          own |-> [x \in Locals |-> Zeros], pointee |-> Zeros]
           frame == [mask |-> Lanes, locals |-> own, argument |-> Zeros, early |-> <<>>]
<1>0. PICK s, r : s = [k \in 1..1 |-> 0] /\ r = [k \in 1..1 |-> 0]
  OBVIOUS
<1>1. /\ Zeros \in Word /\ own \in LocalState
  BY Assumptions DEF Init, RunInit, LocalState
<1>2. /\ nest = <<activation>> /\ stack = <<frame>> /\ wait = [l \in Lanes |-> 0]
      /\ pointee = Zeros /\ given = Zeros /\ output = Zeros
      /\ mask = Lanes /\ locals = own /\ argument = Zeros
      /\ early = <<>> /\ breaks = <<>> /\ returned = NoValue /\ broke = FALSE
      /\ memory = Zeros /\ size = 0
  BY DEF Init, RunInit
<1>3. activation \in Activation /\ activation.kind = "call"
  BY <1>1 DEF Activation, LocalState
<1>4. frame \in CallFrame /\ frame.mask = Lanes /\ frame.early = <<>>
  BY <1>1 DEF CallFrame
<1> HIDE DEF activation, frame
<1>5. /\ nest \in Seq(Block \cup Activation) /\ Depth = 1 /\ nest[1] = activation
      /\ stack \in Seq(LowererFrame) /\ Len(stack) = 1 /\ stack[1] = frame
  BY <1>2, <1>3, <1>4 DEF LowererFrame, Depth
<1>6. \A k \in 1..1 : k = 1
  OBVIOUS
<1>7. MeaningType
  <2>1. Frames
    BY <1>3, <1>4, <1>5, <1>6, FrameTypes DEF Frames
  <2> QED BY <1>1, <1>2, <1>5, <2>1 DEF MeaningType
<1>8. LowererType
  <2>1. early \in Seq(EarlyReturn) /\ breaks \in Seq(Seq(BreakEdge))
    BY <1>2
  <2>2. mask \in SUBSET Lanes /\ broke \in BOOLEAN /\ size \in Nat
    BY <1>2
  <2>3. locals \in LocalState /\ argument \in Word /\ memory \in Word
    BY <1>1, <1>2
  <2>4. returned \in Word \cup {NoValue}
    BY <1>2
  <2> QED BY <2>1, <2>2, <2>3, <2>4 DEF LowererType
<1>9. Nesting
  <2>1. SameFunction(1, 1)
    BY DEF SameFunction
  <2> QED BY <1>3, <1>5, <1>6, <2>1 DEF Nesting
<1>10. Slots(s) /\ Returns(r)
  <2>1. SameSwitch(1, 1)
    BY DEF SameSwitch
  <2> QED BY <1>0, <1>2, <1>5, <1>6, <2>1 DEF Slots, Returns
<1>11. Running = Lanes /\ At(1) \cup Inside(1) = Lanes
  BY <1>2 DEF Running, At, Inside
<1>12. Live
  BY <1>2, <1>3, <1>5, <1>11 DEF Live, Top
<1>13. \A k \in 1..Depth : Waiting(k, s) /\ CasesFind(k) /\ EdgesTell(k, s, r)
  BY <1>3, <1>4, <1>5, <1>6, <1>11 DEF Waiting, CasesFind, EdgesTell, IsArm, ArmKinds
<1>14. Inductive(s, r)
  BY <1>7, <1>8, <1>9, <1>10, <1>12, <1>13 DEF Inductive
<1> QED BY <1>14 DEF IInv

LEMMA NextKeeps == IInv /\ [Next]_vars => IInv'
<1> SUFFICES ASSUME IInv, [Next]_vars PROVE \E s, r : Inductive(s, r)'
  BY DEF IInv
<1>1. PICK slot, returns : Inductive(slot, returns)
  BY DEF IInv
<1>2. MeaningType /\ LowererType
  BY <1>1 DEF Inductive
<1>3. ASSUME NEW x \in Locals, NEW v \in Operands, Store(x, v)
      PROVE  \E s, r : Inductive(s, r)'
  <2>1. MeaningType' /\ LowererType'
    BY <1>2, <1>3, StoreTypes
  <2>2. UNCHANGED <<nest, wait, mask, early, breaks, stack, returned>>
    BY <1>3 DEF Store, RunStore
  <2> QED BY <1>1, <2>1, <2>2, IdleKeeps
<1>4. ASSUME NEW v \in Operands, StoreArgumentPointer(v)
      PROVE  \E s, r : Inductive(s, r)'
  <2>1. MeaningType' /\ LowererType'
    BY <1>2, <1>4, StorePointerTypes
  <2>2. UNCHANGED <<nest, wait, mask, early, breaks, stack, returned>>
    BY <1>4 DEF StoreArgumentPointer, RunStorePointer
  <2> QED BY <1>1, <2>1, <2>2, IdleKeeps
<1>5. ASSUME NEW x \in Locals, Emit(x)
      PROVE  \E s, r : Inductive(s, r)'
  <2>1. MeaningType' /\ LowererType'
    BY <1>2, <1>5, EmitTypes
  <2>2. UNCHANGED <<nest, wait, mask, early, breaks, stack, returned>>
    BY <1>5 DEF Emit, RunEffect
  <2> QED BY <1>1, <2>1, <2>2, IdleKeeps
<1>6. ASSUME UNCHANGED vars
      PROVE  \E s, r : Inductive(s, r)'
  <2>1. MeaningType' /\ LowererType'
    BY <1>2, <1>6 DEF MeaningType, LowererType, Frames, Depth, vars, meaningVars, lowererVars
  <2>2. UNCHANGED <<nest, wait, mask, early, breaks, stack, returned>>
    BY <1>6 DEF vars, meaningVars, lowererVars
  <2> QED BY <1>1, <2>1, <2>2, IdleKeeps
<1>7. CASE Next
  BY <1>1, <1>3, <1>4, <1>5, <1>7, IfKeeps, ElseKeeps, EndIfKeeps, SwitchKeeps, CaseKeeps,
     EndCaseKeeps, BreakKeeps, EndSwitchKeeps, ReturnKeeps, CallKeeps, EndCallKeeps DEF Next
<1> QED BY <1>6, <1>7

(* The state of the lowerer and of the lanes has the expected shape: every *)
(* open construct has its frame, values are words, lanes wait for open     *)
(* constructs.                                                             *)
THEOREM ShapeIsKept == Spec => [](MeaningType /\ LowererType)
<1>1. IInv => MeaningType /\ LowererType
  BY DEF IInv, Inductive
<1> QED BY <1>1, InitKeeps, NextKeeps, PTL DEF Spec

(* The execution predicate of a statement is the set of lanes that run it: *)
(* however conditionals, switches, breaks, returns and calls nest, for     *)
(* every number of lanes and every program.                                *)
THEOREM MaskFollowsLanes == Spec => []MaskIsLive
<1>1. IInv => MaskIsLive
  BY DEF IInv, Inductive, Live, MaskIsLive, AtStatement
<1> QED BY <1>1, InitKeeps, NextKeeps, PTL DEF Spec
=============================================================================
