------------------------- MODULE PredicationValues -------------------------
(***************************************************************************)
(* The values module Predication merges are right: a lane finds its own in *)
(* its locals, behind its pointer argument and in what a function returns, *)
(* for every number of lanes, every program and every depth of nesting.    *)
(***************************************************************************)
EXTENDS PredicationProofs

-----------------------------------------------------------------------------
(* The function that runs, and a function as it was when it made the call  *)
(* whose frame is `g`: what the lowerer has for it, what its lanes have.   *)
Current ==
    [top |-> Depth, lanes |-> Running, locals |-> locals, argument |-> argument,
     early |-> early, value |-> returned, own |-> own, pointee |-> pointee]
Saved(g) ==
    [top |-> g - 1, lanes |-> nest[g].lanes, locals |-> stack[g].locals,
     argument |-> stack[g].argument, early |-> stack[g].early, value |-> NoValue,
     own |-> nest[g].own, pointee |-> nest[g].pointee]

FunctionOf(v, f) == f \in 1..v.top /\ nest[f].kind = "call" /\ SameFunction(f, v.top)

Own(v, L, A, l) == (\A x \in Locals : L[x][l] = v.own[x][l]) /\ A[l] = v.pointee[l]

(* Where a lane that waits finds its own values when it goes on.           *)
AtSwitch(v, k, edges, l) ==
    IF l \in Covered(edges)
      THEN Own(v, edges[First(edges, l)].locals, edges[First(edges, l)].argument, l)
      ELSE IF k = v.top THEN Own(v, v.locals, v.argument, l)
                        ELSE Own(v, stack[k + 1].locals, stack[k + 1].argument, l)

Homes(v, k, slot) ==
    \A l \in At(k) :
        /\ nest[k].kind = "if" => Own(v, stack[k].locals, stack[k].argument, l)
        /\ nest[k].kind = "else" => Own(v, stack[k].accepted.locals, stack[k].accepted.argument, l)
        /\ nest[k].kind = "switch" => AtSwitch(v, k, breaks[slot[k]], l)

(* A lane that has returned: its value is in an early return, or it is the *)
(* one the block it is in ends with.  `Elsewhere`: it has returned in the  *)
(* arm that is not being lowered.                                          *)
Elsewhere(k, l) == nest[k].kind = "else" /\ l \in stack[k].parent /\ l \in stack[k].condition
Reaches(f, k, l) == \A i \in f+1..k : ~Elsewhere(i, l)

Answers(v, value, l) ==
    IF l \in Covered(v.early) THEN v.early[First(v.early, l)].value[l] = given[l]
                              ELSE value # NoValue /\ value[l] = given[l]

Left(v, f, l) ==
    Reaches(f, v.top, l) => v.argument[l] = v.pointee[l] /\ Answers(v, v.value, l)
LeftArm(v, f, k, l) ==
    IsArm(k) /\ Reaches(f, k - 1, l) =>
        /\ Elsewhere(k, l) => /\ stack[k].accepted.argument[l] = v.pointee[l]
                              /\ Answers(v, stack[k].accepted.value, l)
        /\ l \notin stack[k].parent =>
              /\ Answers(v, NoValue, l) /\ stack[k].argument[l] = v.pointee[l]
              /\ nest[k].kind = "else" => stack[k].accepted.argument[l] = v.pointee[l]

(* Arms nest; no lane leaves one by a return but into the function's end.  *)
ArmShape(f, k, slot) ==
    IsArm(k) =>
        /\ nest[k].kind = "else" =>
              /\ stack[k].accepted.mask \subseteq stack[k].condition
              /\ stack[k].accepted.value # NoValue =>
                    stack[k].parent \cap stack[k].condition \subseteq At(f)
        /\ stack[k].before.breaks = BreaksOf(k, slot) => Start(k) \subseteq Inside(k) \cup At(f)
        /\ \A j \in f+1..k-1 : IsArm(j) => stack[k].parent \subseteq Start(j)

ViewOk(v, f, slot) ==
    /\ \A l \in v.lanes : Own(v, v.locals, v.argument, l)
    /\ \A k \in f+1..v.top : Homes(v, k, slot)
    /\ \A l \in At(f) : Left(v, f, l) /\ \A k \in f+1..v.top : LeftArm(v, f, k, l)
    /\ Covered(v.early) \subseteq At(f)
    /\ \A k \in f+1..v.top : ArmShape(f, k, slot)

(* A callee given the caller's own pointer: no lane of the caller returned. *)
PassedOn(g) == nest[g].lanes = stack[g].mask /\ (nest[g].target = Argument => stack[g].early = <<>>)

IsCall(g) == nest[g].kind = "call"

ValuesOk(slot) ==
    /\ \A v, f : v = Current /\ FunctionOf(v, f) => ViewOk(v, f, slot)
    /\ \A g \in 2..Depth : IsCall(g) =>
          \A v, f : v = Saved(g) /\ FunctionOf(v, f) => ViewOk(v, f, slot)
    /\ \A g \in 1..Depth : IsCall(g) => PassedOn(g)
    /\ memory = output

-----------------------------------------------------------------------------
(* Entries of a list: the first that covers a lane.                        *)
LEMMA FirstIs ==
    ASSUME NEW S, NEW entries \in Seq(S), NEW l, NEW k \in DOMAIN entries,
           l \in entries[k].lanes, \A j \in 1..k-1 : l \notin entries[j].lanes
    PROVE  First(entries, l) = k
<1>1. DOMAIN entries = 1..Len(entries) /\ Len(entries) \in Nat
  OBVIOUS
<1>2. ASSUME NEW n \in DOMAIN entries,
             l \in entries[n].lanes, \A j \in 1..n-1 : l \notin entries[j].lanes
      PROVE  n = k
  <2>1. ~(n < k) /\ ~(k < n)
    BY <1>1, <1>2
  <2> QED BY <1>1, <2>1
<1> QED BY <1>2 DEF First

LEMMA FirstExists ==
    ASSUME NEW S, NEW entries \in Seq(S), NEW l \in Covered(entries)
    PROVE  /\ First(entries, l) \in DOMAIN entries /\ l \in entries[First(entries, l)].lanes
           /\ \A j \in 1..First(entries, l) - 1 : l \notin entries[j].lanes
<1> DEFINE T == { k \in DOMAIN entries : l \in entries[k].lanes }
<1>1. T \subseteq Nat /\ T # {}
  BY DEF Covered
<1>2. PICK n \in T : \A m \in T : n <= m
  BY <1>1, LeastElement
<1>3. DOMAIN entries = 1..Len(entries) /\ Len(entries) \in Nat
  OBVIOUS
<1>4. \A j \in 1..n-1 : l \notin entries[j].lanes
  BY <1>2, <1>3
<1>5. First(entries, l) = n
  BY <1>2, <1>4, FirstIs
<1> QED BY <1>2, <1>4, <1>5

(* An entry added at the end decides for the lanes nothing covered before. *)
LEMMA FirstAppended ==
    ASSUME NEW S, NEW entries \in Seq(S), NEW e \in S
    PROVE  LET more == Append(entries, e) IN
           /\ Covered(more) = Covered(entries) \cup e.lanes
           /\ \A l \in Covered(entries) : more[First(more, l)] = entries[First(entries, l)]
           /\ \A l \in e.lanes : l \notin Covered(entries) => more[First(more, l)] = e
<1> DEFINE more == Append(entries, e)
<1>1. /\ Len(entries) \in Nat /\ DOMAIN entries = 1..Len(entries)
      /\ more \in Seq(S) /\ DOMAIN more = 1..Len(entries) + 1
      /\ \A k \in 1..Len(entries) : more[k] = entries[k]
      /\ more[Len(entries) + 1] = e
  BY Opening
<1>4. Covered(more) = Covered(entries) \cup e.lanes
  BY CoveredAppend
<1> HIDE DEF more
<1>2. ASSUME NEW l \in Covered(entries)
      PROVE  more[First(more, l)] = entries[First(entries, l)]
  <2> DEFINE n == First(entries, l)
  <2>1. /\ n \in 1..Len(entries) /\ l \in entries[n].lanes
        /\ \A j \in 1..n-1 : l \notin entries[j].lanes
    BY <1>1, FirstExists
  <2> HIDE DEF n
  <2>2. n \in DOMAIN more /\ l \in more[n].lanes /\ \A j \in 1..n-1 : l \notin more[j].lanes
    BY <1>1, <2>1
  <2>3. First(more, l) = n
    BY <1>1, <2>2, FirstIs
  <2> QED BY <1>1, <2>1, <2>3 DEF n
<1>3. ASSUME NEW l \in e.lanes, l \notin Covered(entries)
      PROVE  more[First(more, l)] = e
  <2> DEFINE n == Len(entries) + 1
  <2>1. \A j \in 1..Len(entries) : l \notin entries[j].lanes
    BY <1>1, <1>3 DEF Covered
  <2>2. n \in DOMAIN more /\ l \in more[n].lanes /\ \A j \in 1..n-1 : l \notin more[j].lanes
    BY <1>1, <2>1
  <2>3. First(more, l) = n
    BY <1>1, <2>2, FirstIs
  <2> QED BY <1>1, <2>3
<1> QED BY <1>2, <1>3, <1>4 DEF more

(* The list of breaks of a construct stays the same while the construct    *)
(* is open.                                                                *)
LEMMA SlotsAgree ==
    ASSUME NEW slot, NEW s, Slots(slot), Slots(s)', NEW d \in 1..Depth, Depth \in Nat,
           d <= Depth', Depth' \in Nat, KindsKept(d)
    PROVE  \A k \in 1..d : s[k] = slot[k]
<1> DEFINE T == { k \in 1..d : s[k] # slot[k] }
<1>1. SUFFICES ASSUME T # {} PROVE FALSE
  OBVIOUS
<1>2. PICK n \in T : \A k \in T : n <= k
  <2>1. T \subseteq Nat
    OBVIOUS
  <2> QED BY <1>1, <2>1, LeastElement
<1>3. n \in 1..d /\ s[n] # slot[n] /\ d \in Nat
  BY <1>2
<1>4. n # 1
  BY <1>3 DEF Slots
<1>5. n - 1 \in 1..d /\ n \in 2..Depth /\ n \in 2..Depth'
  BY <1>3, <1>4
<1>6. s[n - 1] = slot[n - 1]
  BY <1>2, <1>3, <1>5
<1>7. slot[n] = IF nest[n].kind = "switch" THEN slot[n - 1] + 1 ELSE slot[n - 1]
  BY <1>5 DEF Slots
<1>8. s[n] = IF nest'[n].kind = "switch" THEN s[n - 1] + 1 ELSE s[n - 1]
  BY <1>5 DEF Slots
<1> QED BY <1>3, <1>6, <1>7, <1>8 DEF KindsKept

-----------------------------------------------------------------------------
(* What a step leaves as it was.                                           *)
LEMMA HomesStay ==
    ASSUME NEW v, NEW w, NEW k, NEW slot, NEW s, Homes(v, k, slot),
           nest'[k].kind = nest[k].kind,
           \A l \in At(k)' : /\ l \in At(k) /\ w.pointee[l] = v.pointee[l]
                             /\ \A x \in Locals : w.own[x][l] = v.own[x][l],
           nest[k].kind \in {"if", "else"} => stack'[k] = stack[k],
           nest[k].kind = "switch" =>
              /\ breaks'[s[k]] = breaks[slot[k]] /\ (k = v.top <=> k = w.top)
              /\ k = v.top => w.locals = v.locals /\ w.argument = v.argument
              /\ k # v.top => /\ stack'[k + 1].locals = stack[k + 1].locals
                              /\ stack'[k + 1].argument = stack[k + 1].argument
    PROVE  Homes(w, k, s)'
<1> SUFFICES ASSUME NEW l \in At(k)'
             PROVE  /\ nest'[k].kind = "if" => Own(w, stack'[k].locals, stack'[k].argument, l)
                    /\ nest'[k].kind = "else" =>
                         Own(w, stack'[k].accepted.locals, stack'[k].accepted.argument, l)
                    /\ nest'[k].kind = "switch" => AtSwitch(w, k, breaks[s[k]], l)'
  BY DEF Homes
<1>1. /\ l \in At(k) /\ w.pointee[l] = v.pointee[l] /\ \A x \in Locals : w.own[x][l] = v.own[x][l]
  OBVIOUS
<1>2. \A L, A : Own(v, L, A, l) => Own(w, L, A, l)
  BY <1>1 DEF Own
<1>3. CASE nest[k].kind \in {"if", "else"}
  BY <1>1, <1>2, <1>3 DEF Homes
<1>4. CASE nest[k].kind = "switch"
  <2>1. PICK e : e = breaks[slot[k]] /\ e = breaks'[s[k]]
    BY <1>4
  <2>2. AtSwitch(v, k, e, l)
    BY <1>1, <1>4, <2>1 DEF Homes
  <2>3. AtSwitch(w, k, e, l)'
    BY <1>2, <1>4, <2>2 DEF AtSwitch
  <2> QED BY <1>4, <2>1, <2>3
<1> QED BY <1>3, <1>4

ArmsStay(f, d) ==
    \A i \in f+1..d : /\ nest'[i].kind = nest[i].kind
                      /\ IsArm(i) => stack'[i] = stack[i]

LEMMA ReachesStays ==
    ASSUME NEW f \in Nat, NEW d, ArmsStay(f, d), NEW l
    PROVE  Reaches(f, d, l)' <=> Reaches(f, d, l)
BY DEF ArmsStay, Reaches, Elsewhere, IsArm, ArmKinds

LEMMA LeftArmStays ==
    ASSUME NEW v, NEW w, NEW f \in Nat, NEW k \in Nat, NEW l, k > f, LeftArm(v, f, k, l), ArmsStay(f, k),
           w.pointee[l] = v.pointee[l],
           Reaches(f, k - 1, l) => \A x : Answers(v, x, l) => Answers(w, x, l)'
    PROVE  LeftArm(w, f, k, l)'
<1>1. SUFFICES ASSUME IsArm(k), Reaches(f, k - 1, l)
               PROVE  LeftArm(w, f, k, l)'
  <2>1. ArmsStay(f, k - 1) /\ (IsArm(k)' <=> IsArm(k))
    BY DEF ArmsStay, IsArm
  <2>2. Reaches(f, k - 1, l)' <=> Reaches(f, k - 1, l)
    BY <2>1, ReachesStays
  <2> QED BY <2>1, <2>2 DEF LeftArm
<1>2. nest'[k].kind = nest[k].kind /\ stack'[k] = stack[k]
  BY <1>1 DEF ArmsStay
<1>3. PICK x : x = stack[k].accepted.value
  OBVIOUS
<1>4. /\ Answers(v, x, l) => Answers(w, x, l)'
      /\ Answers(v, NoValue, l) => Answers(w, NoValue, l)'
  BY <1>1
<1>5. Elsewhere(k, l)' <=> Elsewhere(k, l)
  BY <1>2 DEF Elsewhere
<1>6. /\ Elsewhere(k, l) => /\ stack[k].accepted.argument[l] = v.pointee[l]
                            /\ Answers(v, x, l)
      /\ l \notin stack[k].parent =>
            /\ Answers(v, NoValue, l) /\ stack[k].argument[l] = v.pointee[l]
            /\ nest[k].kind = "else" => stack[k].accepted.argument[l] = v.pointee[l]
  BY <1>1, <1>3 DEF LeftArm
<1>7. x = stack'[k].accepted.value
  BY <1>2, <1>3
<1>8. /\ Elsewhere(k, l)' => /\ stack'[k].accepted.argument[l] = w.pointee[l]
                             /\ Answers(w, stack[k].accepted.value, l)'
      /\ l \notin stack'[k].parent =>
            /\ Answers(w, NoValue, l)' /\ stack'[k].argument[l] = w.pointee[l]
            /\ nest'[k].kind = "else" => stack'[k].accepted.argument[l] = w.pointee[l]
  BY <1>2, <1>4, <1>5, <1>6, <1>7
<1> QED BY <1>8 DEF LeftArm

LEMMA ArmShapeStays ==
    ASSUME NEW f \in Nat, NEW k \in Nat, k > f, NEW slot, NEW s, ArmShape(f, k, slot), ArmsStay(f, k),
           At(f) \subseteq At(f)',
           IsArm(k) /\ stack[k].before.breaks = BreaksOf(k, s)' =>
              stack[k].before.breaks = BreaksOf(k, slot) /\ Inside(k) \subseteq Inside(k)' \cup At(f)'
    PROVE  ArmShape(f, k, s)'
<1>1. SUFFICES ASSUME IsArm(k) PROVE ArmShape(f, k, s)'
  BY DEF ArmsStay, IsArm, ArmShape
<1>2. nest'[k].kind = nest[k].kind /\ stack'[k] = stack[k]
  BY <1>1 DEF ArmsStay
<1>3. Start(k)' = Start(k)
  BY <1>2 DEF Start
<1>4. ASSUME NEW j \in f+1..k-1, IsArm(j)' PROVE IsArm(j) /\ Start(j)' = Start(j)
  <2>1. nest'[j].kind = nest[j].kind /\ (IsArm(j) => stack'[j] = stack[j])
    BY DEF ArmsStay
  <2>2. IsArm(j)
    BY <1>4, <2>1 DEF IsArm
  <2> QED BY <2>1, <2>2 DEF Start
<1> QED BY <1>1, <1>2, <1>3, <1>4 DEF ArmShape

(* A function that only waits for a call to return stays as it was.        *)
LEMMA ViewStays ==
    ASSUME NEW v, NEW f \in Nat, NEW slot, NEW s, ViewOk(v, f, slot), v.top \in Nat,
           \A k \in f..v.top :
              /\ nest'[k] = nest[k] /\ stack'[k] = stack[k] /\ s[k] = slot[k]
              /\ At(k)' = At(k) /\ Inside(k)' = Inside(k)
              /\ slot[k] # 0 => breaks'[slot[k]] = breaks[slot[k]]
              /\ nest[k].kind = "switch" => slot[k] # 0 /\ k < v.top,
           f <= v.top, \A l \in At(f) : given'[l] = given[l]
    PROVE  ViewOk(v, f, s)'
<1>1. \A k \in f+1..v.top : k \in f..v.top /\ k \in Nat /\ k > f
  OBVIOUS
<1>2. f \in f..v.top
  OBVIOUS
<1>3. At(f)' = At(f)
  BY <1>2
<1>4. \A k \in f+1..v.top : ArmsStay(f, k)
  BY <1>1 DEF ArmsStay
<1>5. ASSUME NEW k \in f+1..v.top PROVE Homes(v, k, s)'
  <2>1. Homes(v, k, slot)
    BY DEF ViewOk
  <2>2. nest[k].kind = "switch" =>
           /\ breaks'[s[k]] = breaks[slot[k]] /\ k # v.top
           /\ stack'[k + 1].locals = stack[k + 1].locals
           /\ stack'[k + 1].argument = stack[k + 1].argument
    <3>1. nest[k].kind = "switch" => k + 1 \in f..v.top
      BY <1>1
    <3> QED BY <1>1, <3>1
  <2>3. At(k)' = At(k) /\ nest'[k] = nest[k] /\ stack'[k] = stack[k]
    BY <1>1
  <2> QED BY <2>1, <2>2, <2>3, HomesStay
<1>6. \A l \in At(f) : \A x : Answers(v, x, l) => Answers(v, x, l)'
  BY DEF Answers
<1>7. ASSUME NEW l \in At(f)' PROVE Left(v, f, l)' /\ \A k \in f+1..v.top : LeftArm(v, f, k, l)'
  <2>1. l \in At(f) /\ Left(v, f, l) /\ \A k \in f+1..v.top : LeftArm(v, f, k, l)
    BY <1>3, <1>7 DEF ViewOk
  <2>2. Reaches(f, v.top, l)' <=> Reaches(f, v.top, l)
    <3>1. ArmsStay(f, v.top)
      BY <1>1 DEF ArmsStay
    <3> QED BY <3>1, ReachesStays
  <2>3. Left(v, f, l)'
    BY <1>6, <2>1, <2>2 DEF Left
  <2>4. ASSUME NEW k \in f+1..v.top PROVE LeftArm(v, f, k, l)'
    BY <1>1, <1>4, <1>6, <2>1, LeftArmStays
  <2> QED BY <2>3, <2>4
<1>8. ASSUME NEW k \in f+1..v.top PROVE ArmShape(f, k, s)'
  <2>1. ArmShape(f, k, slot)
    BY DEF ViewOk
  <2>2. BreaksOf(k, s)' = BreaksOf(k, slot) /\ Inside(k)' = Inside(k)
    BY <1>1 DEF BreaksOf
  <2> QED BY <1>1, <1>3, <1>4, <2>1, <2>2, ArmShapeStays
<1> QED BY <1>3, <1>5, <1>7, <1>8 DEF ViewOk

-----------------------------------------------------------------------------
(* A step that stays within function `f`.                                  *)
Within(f, slot) ==
    /\ f \in 1..Depth /\ IsCall(f) /\ SameFunction(f, Depth)
    /\ f <= Depth' /\ \A k \in 1..f : nest'[k] = nest[k] /\ stack'[k] = stack[k]
    /\ \A k \in f+1..Depth' : nest'[k].kind # "call"
    /\ \A l \in Lanes : \/ wait'[l] = wait[l]
                        \/ (wait[l] = 0 \/ wait[l] >= f) /\ (wait'[l] = 0 \/ wait'[l] >= f)
    /\ \A l \in Lanes : wait[l] # 0 => given'[l] = given[l]
    /\ \A i \in 1..Len(breaks) : i <= slot[f] => breaks'[i] = breaks[i]

LEMMA WithinLanes ==
    ASSUME NEW f, NEW slot, Within(f, slot), MeaningType, MeaningType', NEW k \in 1..f-1
    PROVE  At(k)' = At(k) /\ Inside(k)' = Inside(k)
<1>1. Depth \in Nat /\ f \in Nat /\ \A l \in Lanes : wait[l] \in Nat /\ wait'[l] \in Nat
  BY DepthFacts DEF MeaningType, Within
<1>2. \A l \in Lanes : /\ wait'[l] = k <=> wait[l] = k
                       /\ (wait'[l] = 0 \/ wait'[l] > k) <=> (wait[l] = 0 \/ wait[l] > k)
  BY <1>1 DEF Within
<1> QED BY <1>2 DEF At, Inside

LEMMA SavedStay ==
    ASSUME NEW slot, NEW returns, Inductive(slot, returns), NEW s, NEW r, Inductive(s, r)',
           ValuesOk(slot), NEW f, Within(f, slot),
           NEW g \in 2..f, IsCall(g), NEW v, v = Saved(g), NEW h, FunctionOf(v, h)
    PROVE  ViewOk(v, h, s)'
<1>1. /\ MeaningType /\ LowererType /\ Nesting /\ Slots(slot) /\ Depth \in Nat
      /\ MeaningType' /\ Slots(s)' /\ Depth' \in Nat /\ f \in 1..Depth /\ f <= Depth'
  BY DepthFacts DEF Inductive, MeaningType, Within, Frames, Depth
<1>2. g \in 2..Depth /\ ViewOk(v, h, slot)
  BY <1>1 DEF ValuesOk
<1>3. v.top = g - 1 /\ v.top \in Nat
  BY DEF Saved
<1>4. h \in 1..g-1 /\ h \in Nat /\ h <= v.top
  BY <1>3 DEF FunctionOf
<1>5. \A k \in 1..f : s[k] = slot[k]
  <2>1. KindsKept(f)
    BY DEF KindsKept, Within
  <2> QED BY <1>1, <2>1, SlotsAgree
<1>6. ASSUME NEW k \in h..v.top
      PROVE  /\ nest'[k] = nest[k] /\ stack'[k] = stack[k] /\ s[k] = slot[k]
             /\ At(k)' = At(k) /\ Inside(k)' = Inside(k)
             /\ slot[k] # 0 => breaks'[slot[k]] = breaks[slot[k]]
             /\ nest[k].kind = "switch" => slot[k] # 0 /\ k < v.top
  <2>1. k \in 1..f /\ k \in 1..f-1 /\ k \in 1..Depth /\ k <= f /\ k <= g - 1
    BY <1>1, <1>3, <1>4
  <2>2. slot[k] <= slot[f] /\ slot[k] \in 0..Len(breaks)
    BY <1>1, <2>1 DEF Slots
  <2>3. slot[k] # 0 => breaks'[slot[k]] = breaks[slot[k]]
    <3>1. Len(breaks) \in Nat
      BY <1>1 DEF LowererType
    <3> QED BY <2>2, <3>1 DEF Within
  <2>4. ASSUME nest[k].kind = "switch" PROVE slot[k] # 0 /\ k < v.top
    <3>1. slot[k] # 0
      BY <1>1, <2>1, <2>4, SwitchHasSlot, SMTT(20)
    <3>2. nest[g].kind # "case"
      BY DEF IsCall
    <3>3. k # g - 1
      BY <1>1, <1>2, <2>4, <3>2 DEF Nesting
    <3> QED BY <1>1, <1>3, <2>1, <3>1, <3>3
  <2>5. At(k)' = At(k) /\ Inside(k)' = Inside(k)
    BY <1>1, <2>1, WithinLanes
  <2> QED BY <1>5, <2>1, <2>3, <2>4, <2>5 DEF Within
<1>7. \A l \in At(h) : given'[l] = given[l]
  BY <1>4 DEF At, Within
<1> QED BY <1>2, <1>3, <1>4, <1>6, <1>7, ViewStays

LEMMA WithinKeeps ==
    ASSUME NEW slot, NEW returns, Inductive(slot, returns), NEW s, NEW r, Inductive(s, r)',
           ValuesOk(slot), NEW f, Within(f, slot), NEW w, w = Current', ViewOk(w, f, s)',
           memory' = output'
    PROVE  ValuesOk(s)'
<1>1. /\ MeaningType /\ Depth \in Nat /\ Depth' \in Nat /\ f \in 1..Depth /\ f <= Depth'
  BY DepthFacts DEF Inductive, MeaningType, Within, Frames, Depth
<1>2. \A k \in 1..f : nest'[k] = nest[k] /\ stack'[k] = stack[k]
  BY DEF Within
<1>3. \A k \in 1..Depth' : IsCall(k)' => k \in 1..f /\ IsCall(k)
  BY <1>1, <1>2 DEF Within, IsCall
<1>4. \A h : FunctionOf(w, h)' => h = f
  <2> SUFFICES ASSUME NEW h, FunctionOf(w, h)' PROVE h = f
    OBVIOUS
  <2>1. w.top = Depth'
    BY DEF Current
  <2>2. h \in 1..Depth' /\ IsCall(h)' /\ \A i \in h+1..Depth' : nest'[i].kind # "call"
    BY <2>1 DEF FunctionOf, SameFunction, IsCall
  <2>3. h \in 1..f
    BY <1>3, <2>2
  <2>4. ~(h < f)
    <3>1. h < f => f \in h+1..Depth'
      BY <1>1, <2>3
    <3>2. nest'[f].kind = "call"
      BY <1>1, <1>2 DEF Within, IsCall
    <3> QED BY <2>2, <3>1, <3>2
  <2> QED BY <1>1, <2>3, <2>4
<1>5. \A v, h : v = Current' /\ FunctionOf(v, h)' => ViewOk(v, h, s)'
  BY <1>4
<1>6. ASSUME NEW g \in 2..Depth', IsCall(g)', NEW v, v = Saved(g)', NEW h, FunctionOf(v, h)'
      PROVE  ViewOk(v, h, s)'
  <2>1. g \in 2..f /\ IsCall(g)
    BY <1>3, <1>6
  <2>2. nest'[g] = nest[g] /\ stack'[g] = stack[g]
    BY <1>2, <2>1
  <2>3. v = Saved(g)
    BY <1>6, <2>2 DEF Saved
  <2>4. FunctionOf(v, h)
    <3>1. v.top = g - 1
      BY <2>3 DEF Saved
    <3>2. h \in 1..g-1 /\ \A i \in h..g-1 : i \in 1..f
      BY <1>1, <1>6, <2>1, <3>1 DEF FunctionOf
    <3>3. nest'[h] = nest[h] /\ \A i \in h+1..g-1 : nest'[i] = nest[i]
      BY <1>2, <3>2
    <3> QED BY <1>6, <3>1, <3>3 DEF FunctionOf, SameFunction
  <2> QED BY <2>1, <2>3, <2>4, SavedStay
<1>7. \A g \in 1..Depth' : IsCall(g)' => PassedOn(g)'
  BY <1>1, <1>2, <1>3 DEF ValuesOk, PassedOn
<1> QED BY <1>5, <1>6, <1>7 DEF ValuesOk

-----------------------------------------------------------------------------
(* The function that runs, before a step.                                  *)
Fields(v) ==
    /\ v.top = Depth /\ v.lanes = Running /\ v.locals = locals /\ v.argument = argument
    /\ v.early = early /\ v.value = returned /\ v.own = own /\ v.pointee = pointee

LEMMA FieldsBefore ==
    ASSUME NEW v, v = Current
    PROVE  Fields(v)
BY DEF Fields, Current

LEMMA FieldsAfter ==
    ASSUME NEW v, v = Current'
    PROVE  Fields(v)'
BY DEF Fields, Current

Now(v, f, slot) ==
    /\ Fields(v) /\ ViewOk(v, f, slot) /\ f \in 1..Depth /\ f = Function
    /\ IsCall(f) /\ SameFunction(f, Depth)
    /\ \A k \in f+1..Depth : k \in 1..Depth /\ k # 1 /\ nest[k].kind # "call"

LEMMA NowIs ==
    ASSUME NEW slot, NEW returns, Inductive(slot, returns), ValuesOk(slot)
    PROVE  \E v, f : Now(v, f, slot)
<1>1. PICK v, f : v = Current /\ f = Function
  OBVIOUS
<1>2. Fields(v)
  BY <1>1, FieldsBefore
<1>3. f \in 1..Depth /\ IsCall(f) /\ SameFunction(f, Depth) /\ Depth \in Nat
  BY <1>1, FunctionIsInnermost, DepthFacts DEF Inductive, MeaningType, IsCall
<1>4. FunctionOf(v, f)
  BY <1>2, <1>3 DEF FunctionOf, IsCall, Fields
<1>5. ViewOk(v, f, slot)
  BY <1>1, <1>4 DEF ValuesOk
<1>6. \A k \in f+1..Depth : k \in 1..Depth /\ k # 1 /\ nest[k].kind # "call"
  BY <1>3 DEF SameFunction
<1> QED BY <1>1, <1>2, <1>3, <1>5, <1>6 DEF Now

(* Two states one step apart.                                              *)
Between(slot, returns, s, r) ==
    /\ Inductive(slot, returns) /\ ValuesOk(slot)
    /\ Inductive(s, r)'

LEMMA BetweenFacts ==
    ASSUME NEW slot, NEW returns, NEW s, NEW r, Between(slot, returns, s, r)
    PROVE  /\ Inductive(slot, returns) /\ ValuesOk(slot) /\ Inductive(s, r)'
           /\ MeaningType /\ LowererType /\ Nesting /\ Slots(slot) /\ Returns(returns) /\ Live
           /\ MeaningType' /\ LowererType' /\ Nesting' /\ Slots(s)' /\ Returns(r)' /\ Live'
           /\ Depth \in Nat /\ Depth > 0 /\ Depth' \in Nat /\ Depth' > 0 /\ Len(breaks) \in Nat
           /\ \A l \in Lanes : wait[l] \in 0..Depth /\ wait'[l] \in 0..Depth'
           /\ \A k \in 1..Depth : Waiting(k, slot) /\ CasesFind(k) /\ EdgesTell(k, slot, returns)
           /\ \A k \in 1..Depth' : Waiting(k, s)' /\ CasesFind(k)' /\ EdgesTell(k, s, r)'
<1>1. Inductive(slot, returns) /\ ValuesOk(slot) /\ Inductive(s, r)'
  BY DEF Between
<1>2. /\ MeaningType /\ LowererType /\ Nesting /\ Slots(slot) /\ Returns(returns) /\ Live
      /\ \A k \in 1..Depth : Waiting(k, slot) /\ CasesFind(k) /\ EdgesTell(k, slot, returns)
  BY <1>1 DEF Inductive
<1>3. /\ MeaningType' /\ LowererType' /\ Nesting' /\ Slots(s)' /\ Returns(r)' /\ Live'
      /\ \A k \in 1..Depth' : Waiting(k, s)' /\ CasesFind(k)' /\ EdgesTell(k, s, r)'
  BY <1>1 DEF Inductive
<1>4. Depth \in Nat /\ Depth > 0 /\ Depth' \in Nat /\ Depth' > 0 /\ Len(breaks) \in Nat
  BY <1>2, <1>3 DEF MeaningType, Frames, Depth, LowererType
<1>5. \A l \in Lanes : wait[l] \in 0..Depth /\ wait'[l] \in 0..Depth'
  BY <1>2, <1>3 DEF MeaningType
<1> QED BY <1>1, <1>2, <1>3, <1>4, <1>5

(* Assignments, stores through the pointer, side effects, and stuttering.  *)
LEMMA AssignmentKeeps ==
    ASSUME NEW slot, NEW returns, NEW s, NEW r, Between(slot, returns, s, r),
           UNCHANGED <<nest, wait, stack, early, breaks, returned, given>>,
           nest[Depth].kind # "switch" \/ (locals' = locals /\ argument' = argument),
           \A l \in Running : /\ \A x \in Locals : locals'[x][l] = own'[x][l]
                              /\ argument'[l] = pointee'[l],
           \A l \in Lanes \ Running : /\ \A x \in Locals : own'[x][l] = own[x][l]
                                      /\ pointee'[l] = pointee[l],
           (early = <<>> /\ returned = NoValue) \/ argument' = argument, memory' = output'
    PROVE  ValuesOk(s)'
<1>1. /\ MeaningType /\ LowererType /\ Nesting /\ Slots(slot) /\ Slots(s)' /\ Depth \in Nat /\ Depth > 0
      /\ Inductive(slot, returns) /\ ValuesOk(slot) /\ Inductive(s, r)'
  BY BetweenFacts
<1>2. PICK v, f : Now(v, f, slot)
  BY <1>1, NowIs
<1>3. PICK m, w : m = Depth /\ w = Current'
  OBVIOUS
<1>4. /\ Fields(v) /\ ViewOk(v, f, slot) /\ f \in 1..m /\ f \in Nat /\ IsCall(f) /\ SameFunction(f, Depth)
      /\ \A k \in f+1..m : k \in 1..Depth /\ k \in Nat /\ k > f /\ nest[k].kind # "call"
  BY <1>1, <1>2, <1>3 DEF Now
<1>5. Depth' = m /\ Depth = m /\ m \in Nat /\ m > 0 /\ Running' = Running
  BY <1>1, <1>3 DEF Depth, Running
<1>6. \A k \in 1..m : s[k] = slot[k]
  BY <1>1, <1>5, SlotsAgree DEF KindsKept
<1>7. /\ v.top = m /\ v.lanes = Running /\ v.locals = locals /\ v.argument = argument
      /\ v.early = early /\ v.value = returned /\ v.own = own /\ v.pointee = pointee
      /\ w.top = m /\ w.lanes = Running /\ w.locals = locals' /\ w.argument = argument'
      /\ w.early = early /\ w.value = returned /\ w.own = own' /\ w.pointee = pointee'
  BY <1>3, <1>4, <1>5, FieldsAfter DEF Fields
<1>8. \A k : At(k)' = At(k) /\ Inside(k)' = Inside(k)
  BY DEF At, Inside
<1>9. \A k : \A l \in At(k) : k # 0 => l \in Lanes \ Running
  BY DEF At, Running
<1>10. Within(f, slot)
  BY <1>4, <1>5 DEF Within
<1>11. \A k : ArmsStay(f, k)
  BY DEF ArmsStay
<1>12. ViewOk(w, f, s)'
  <2>1. \A l \in w.lanes : Own(w, w.locals, w.argument, l)
    BY <1>7 DEF Own
  <2>2. ASSUME NEW k \in f+1..w.top PROVE Homes(w, k, s)'
    <3>1. k \in f+1..m /\ Homes(v, k, slot) /\ k \in 1..m
      BY <1>4, <1>5, <1>7 DEF ViewOk
    <3>2. \A l \in At(k)' : /\ l \in At(k) /\ w.pointee[l] = v.pointee[l]
                            /\ \A x \in Locals : w.own[x][l] = v.own[x][l]
      BY <1>7, <1>8, <1>9, <3>1
    <3>3. nest[k].kind = "switch" =>
             /\ breaks'[s[k]] = breaks[slot[k]] /\ (k = v.top <=> k = w.top)
             /\ k = v.top => w.locals = v.locals /\ w.argument = v.argument
      BY <1>5, <1>6, <1>7, <3>1
    <3> QED BY <3>1, <3>2, <3>3, HomesStay
  <2>3. ASSUME NEW l \in At(f)'
        PROVE  Left(w, f, l)' /\ \A k \in f+1..w.top : LeftArm(w, f, k, l)'
    <3>1. l \in At(f) /\ Left(v, f, l) /\ l \in Lanes \ Running
      BY <1>4, <1>8, <1>9 DEF ViewOk
    <3>2. \A x : Answers(v, x, l) => Answers(w, x, l)'
      BY <1>7 DEF Answers
    <3>3. w.pointee[l] = v.pointee[l]
      BY <1>7, <3>1
    <3>4. Left(w, f, l)'
      <4>1. Reaches(f, m, l)' <=> Reaches(f, m, l)
        BY <1>4, <1>11, ReachesStays
      <4>2. CASE early = <<>> /\ returned = NoValue
        <5>1. ~Answers(v, v.value, l)
          BY <1>7, <4>2, CoveredEmpty DEF Answers
        <5> QED BY <1>7, <3>1, <4>1, <5>1 DEF Left
      <4>3. CASE argument' = argument
        <5>1. Answers(v, v.value, l) => Answers(w, w.value, l)'
          BY <1>7, <3>2
        <5> QED BY <1>7, <3>1, <3>3, <4>1, <4>3, <5>1 DEF Left
      <4> QED BY <4>2, <4>3
    <3>5. ASSUME NEW k \in f+1..w.top PROVE LeftArm(w, f, k, l)'
      <4>1. k \in f+1..m /\ LeftArm(v, f, k, l)
        BY <1>4, <1>7, <3>1 DEF ViewOk
      <4> QED BY <1>4, <1>11, <3>2, <3>3, <4>1, LeftArmStays
    <3> QED BY <3>4, <3>5
  <2>4. Covered(w.early) \subseteq At(f)'
    BY <1>4, <1>7, <1>8 DEF ViewOk
  <2>5. ASSUME NEW k \in f+1..w.top PROVE ArmShape(f, k, s)'
    <3>1. k \in f+1..m /\ ArmShape(f, k, slot) /\ k \in 1..m
      BY <1>4, <1>5, <1>7 DEF ViewOk
    <3>2. BreaksOf(k, s)' = BreaksOf(k, slot)
      BY <1>6, <3>1 DEF BreaksOf
    <3> QED BY <1>4, <1>8, <1>11, <3>1, <3>2, ArmShapeStays
  <2> QED BY <1>7, <2>1, <2>2, <2>3, <2>4, <2>5 DEF ViewOk
<1> QED BY <1>1, <1>3, <1>10, <1>12, WithinKeeps

-----------------------------------------------------------------------------
(* The lanes that run break out of a switch.                               *)
LEMMA BreakFacts ==
    ASSUME NEW slot, NEW returns, Inductive(slot, returns), NEW f, f = Function, Break
    PROVE  \E j \in f+1..Depth :
              /\ nest[j].kind = "switch" /\ j < Depth /\ slot[j] \in 1..Len(breaks)
              /\ breaks[slot[j]] = LastBreaks /\ LastBreaks \in Seq(BreakEdge)
              /\ breaks'[slot[j]] =
                    IF Running = {} THEN LastBreaks
                    ELSE Append(LastBreaks, [lanes |-> Running, locals |-> locals, argument |-> argument])
              /\ Len(breaks') = Len(breaks)
              /\ \A i \in 1..Len(breaks) : i # slot[j] => breaks'[i] = breaks[i]
              /\ \A k \in 1..Depth : /\ k < j => slot[k] < slot[j]
                                     /\ k >= j => slot[k] = slot[j]
                                     /\ nest[k].kind = "switch" /\ k # j => k < j
              /\ wait' = Park(Running, j)
<1>1. /\ MeaningType /\ LowererType /\ Nesting /\ Slots(slot) /\ Live
      /\ Depth \in Nat /\ Len(breaks) \in Nat
  BY DepthFacts DEF Inductive, MeaningType, LowererType
<1>2. PICK j : j = Innermost("switch")
  OBVIOUS
<1>3. f \in 1..Depth /\ SameFunction(f, Depth) /\ nest[Depth].kind # "switch" /\ returned = NoValue
  BY <1>1, FunctionIsInnermost DEF Break, Statement, Top
<1>4. j \in f + 1..Depth /\ nest[j].kind = "switch" /\ SameSwitch(j, Depth) /\ wait' = Park(Running, j)
  BY <1>1, <1>2, SwitchIsInnermost DEF Break, RunBreak
<1>5. /\ Len(breaks') = Len(breaks) /\ \A i \in 1..Len(breaks) - 1 : breaks'[i] = breaks[i]
      /\ Len(breaks) > 0 =>
            breaks'[Len(breaks)] =
               IF mask = {} THEN LastBreaks
               ELSE Append(LastBreaks, [lanes |-> mask, locals |-> locals, argument |-> argument])
  BY <1>1, BreakTypes
<1>6. mask = Running
  BY <1>1, <1>3 DEF Live, Top
<1>7. j \in 1..Depth /\ j \in Nat /\ j < Depth /\ Depth \in 1..Depth
  BY <1>1, <1>3, <1>4
<1>8. slot[j] = Len(breaks) /\ slot[j] \in 1..Len(breaks)
  <2>1. slot[j] = slot[Depth]
    BY <1>1, <1>4, <1>7 DEF Slots
  <2> QED BY <1>1, <1>4, <1>7, <2>1, SwitchHasSlot DEF Slots
<1>9. ASSUME NEW k \in 1..Depth
      PROVE  /\ k < j => slot[k] < slot[j]
             /\ k >= j => slot[k] = slot[j]
             /\ nest[k].kind = "switch" /\ k # j => k < j
  <2>1. slot[k] \in 0..Len(breaks)
    BY <1>1 DEF Slots
  <2>2. ASSUME k < j PROVE slot[k] < slot[j]
    <3>1. ~SameSwitch(k, j)
      BY <1>4, <1>7, <2>2 DEF SameSwitch
    <3>2. slot[k] <= slot[j] /\ slot[k] # slot[j]
      BY <1>1, <1>7, <2>2, <3>1 DEF Slots
    <3> QED BY <1>8, <2>1, <3>2
  <2>3. ASSUME k >= j PROVE slot[k] = slot[j]
    <3>1. slot[j] <= slot[k]
      BY <1>1, <1>7, <2>3 DEF Slots
    <3> QED BY <1>1, <1>8, <2>1, <3>1
  <2>4. ASSUME nest[k].kind = "switch", k # j PROVE k < j
    BY <1>4, <1>7, <2>4 DEF SameSwitch
  <2> QED BY <2>2, <2>3, <2>4
<1>10. LastBreaks \in Seq(BreakEdge) /\ breaks[slot[j]] = LastBreaks
  <2>1. LastBreaks \in Seq(BreakEdge)
    BY <1>1, <1>8, ElementOfSeq DEF LowererType, LastBreaks
  <2> QED BY <1>8, <2>1 DEF LastBreaks
<1>11. \A i \in 1..Len(breaks) : i # slot[j] => breaks'[i] = breaks[i]
  BY <1>1, <1>5, <1>8
<1> QED BY <1>4, <1>5, <1>6, <1>7, <1>8, <1>9, <1>10, <1>11

LEMMA BreakValues ==
    ASSUME NEW slot, NEW returns, NEW s, NEW r, Between(slot, returns, s, r), Break
    PROVE  ValuesOk(s)'
<1>1. /\ MeaningType /\ LowererType /\ Nesting /\ Slots(slot) /\ Slots(s)' /\ Depth \in Nat /\ Depth > 0
      /\ Inductive(slot, returns) /\ ValuesOk(slot) /\ Inductive(s, r)' /\ Live
      /\ \A k \in 1..Depth : Waiting(k, slot) /\ EdgesTell(k, slot, returns)
  BY BetweenFacts
<1>2. PICK v, f : Now(v, f, slot)
  BY <1>1, NowIs
<1>3. PICK m, w : m = Depth /\ w = Current'
  OBVIOUS
<1>4. /\ Fields(v) /\ ViewOk(v, f, slot) /\ f \in 1..m /\ f \in Nat /\ IsCall(f) /\ SameFunction(f, Depth)
      /\ \A k \in f+1..m : k \in 1..Depth /\ k \in Nat /\ k > f /\ nest[k].kind # "call"
  BY <1>1, <1>2, <1>3 DEF Now
<1>5. /\ returned = NoValue /\ returned' = NoValue /\ nest[m].kind # "switch"
      /\ UNCHANGED <<nest, stack, early, locals, argument, own, pointee, given, memory, output>>
  BY <1>3 DEF Break, Statement, RunBreak, Top
<1>6. PICK j \in f+1..m :
         /\ nest[j].kind = "switch" /\ j < m /\ slot[j] \in 1..Len(breaks)
         /\ breaks[slot[j]] = LastBreaks /\ LastBreaks \in Seq(BreakEdge)
         /\ breaks'[slot[j]] =
               IF Running = {} THEN LastBreaks
               ELSE Append(LastBreaks, [lanes |-> Running, locals |-> locals, argument |-> argument])
         /\ Len(breaks') = Len(breaks)
         /\ \A i \in 1..Len(breaks) : i # slot[j] => breaks'[i] = breaks[i]
         /\ \A k \in 1..m : /\ k < j => slot[k] < slot[j]
                            /\ k >= j => slot[k] = slot[j]
                            /\ nest[k].kind = "switch" /\ k # j => k < j
         /\ wait' = Park(Running, j)
  BY <1>1, <1>2, <1>3, BreakFacts DEF Now
<1>7. /\ Depth' = m /\ Depth = m /\ m \in Nat /\ m > 0 /\ j \in 1..m /\ j \in Nat /\ j # f /\ Len(breaks) \in Nat
      /\ \A k \in 1..m : slot[k] \in 0..Len(breaks)
  <2>1. Depth' = Depth
    BY <1>5 DEF Depth
  <2>2. j \in 1..m /\ j \in Nat /\ j # f
    BY <1>1, <1>3, <1>4, <1>6
  <2>3. Len(breaks) \in Nat
    BY BetweenFacts
  <2>4. \A k \in 1..m : slot[k] \in 0..Len(breaks)
    BY <1>1, <1>3 DEF Slots
  <2> QED BY <1>1, <1>3, <2>1, <2>2, <2>3, <2>4
<1>8. /\ Running' = {} /\ \A k \in 1..m : /\ At(k)' = IF k = j THEN At(k) \cup Running ELSE At(k)
                                          /\ Inside(k)' = IF k < j THEN Inside(k) ELSE Inside(k) \ Running
  <2>1. Parking(j)
    BY <1>1, <1>3, <1>5, <1>6, <1>7, BetweenFacts DEF Parking
  <2>2. \A k \in 1..Depth :
           /\ Running' = {}
           /\ At(k)' = IF k = j THEN At(k) \cup Running ELSE At(k)
           /\ Inside(k)' = IF k < j THEN Inside(k) ELSE Inside(k) \ Running
    BY <2>1, ParkingFacts
  <2> QED BY <1>7, <2>2
<1>9. \A k \in 1..m : s[k] = slot[k]
  BY <1>1, <1>5, <1>7, SlotsAgree DEF KindsKept
<1>10. /\ v.top = m /\ v.lanes = Running /\ v.locals = locals /\ v.argument = argument
       /\ v.early = early /\ v.value = NoValue /\ v.own = own /\ v.pointee = pointee
       /\ w.top = m /\ w.lanes = {} /\ w.locals = locals /\ w.argument = argument
       /\ w.early = early /\ w.value = NoValue /\ w.own = own /\ w.pointee = pointee
  BY <1>3, <1>4, <1>5, <1>7, <1>8, FieldsAfter DEF Fields
<1>11. Within(f, slot)
  <2>1. \A l \in Lanes : wait'[l] = wait[l] \/ (wait[l] = 0 /\ wait'[l] >= f)
    BY <1>4, <1>6, <1>7 DEF Park, Running
  <2>2. \A i \in 1..Len(breaks) : i <= slot[f] => breaks'[i] = breaks[i]
    BY <1>4, <1>6, <1>7
  <2> QED BY <1>4, <1>5, <1>7, <2>1, <2>2 DEF Within
<1>12. \A k : ArmsStay(f, k)
  BY <1>5 DEF ArmsStay
<1>13. f \in 1..m /\ At(f)' = At(f)
  BY <1>4, <1>7, <1>8
<1>14. Homes(w, j, s)'
  <2>1. PICK e, n, edge : /\ e = LastBreaks /\ n = breaks'[slot[j]]
                          /\ edge = [lanes |-> Running, locals |-> locals, argument |-> argument]
    OBVIOUS
  <2>2. /\ e \in Seq(BreakEdge) /\ edge.lanes = Running /\ edge.locals = locals /\ edge.argument = argument
        /\ edge \in BreakEdge /\ n = IF Running = {} THEN e ELSE Append(e, edge)
    BY <1>1, <1>6, <2>1 DEF BreakEdge, LowererType, Running
  <2>3. /\ \A l \in Covered(e) : l \in Covered(n) /\ n[First(n, l)] = e[First(e, l)]
        /\ \A l \in Running : l \notin Covered(e) => l \in Covered(n) /\ n[First(n, l)] = edge
        /\ \A l : l \notin Covered(e) /\ l \notin Running => l \notin Covered(n)
    <3>1. CASE Running = {}
      BY <2>2, <3>1
    <3>2. CASE Running # {}
      <4>1. n = Append(e, edge)
        BY <2>2, <3>2
      <4>2. /\ Covered(n) = Covered(e) \cup edge.lanes
            /\ \A l \in Covered(e) : n[First(n, l)] = e[First(e, l)]
            /\ \A l \in edge.lanes : l \notin Covered(e) => n[First(n, l)] = edge
        <5>1. e \in Seq(BreakEdge) /\ edge \in BreakEdge
          BY <2>2
        <5> DEFINE more == Append(e, edge)
        <5>2. /\ Covered(more) = Covered(e) \cup edge.lanes
              /\ \A l \in Covered(e) : more[First(more, l)] = e[First(e, l)]
              /\ \A l \in edge.lanes : l \notin Covered(e) => more[First(more, l)] = edge
          BY <5>1, FirstAppended
        <5> QED BY <4>1, <5>2
      <4> QED BY <2>2, <4>2
    <3> QED BY <3>1, <3>2
  <2>4. Covered(e) \subseteq At(j) /\ At(j) \cap Running = {}
    <3>1. Waiting(j, slot)
      BY <1>1, <1>3, <1>7
    <3> QED BY <1>6, <1>7, <2>1, <3>1 DEF Waiting, At, Running
  <2>5. \A l \in Running : Own(v, locals, argument, l)
    BY <1>4, <1>10 DEF ViewOk
  <2>6. \A l, L, A : Own(v, L, A, l) => Own(w, L, A, l)
    BY <1>10 DEF Own
  <2>7. ASSUME NEW l \in At(j)' PROVE AtSwitch(w, j, n, l)'
    <3>1. l \in At(j) \/ l \in Running
      BY <1>7, <1>8
    <3>2. CASE l \in Running
      <4>1. l \in Covered(n) /\ n[First(n, l)] = edge
        BY <2>3, <2>4, <3>2
      <4>2. Own(w, n[First(n, l)].locals, n[First(n, l)].argument, l)
        BY <2>2, <2>5, <2>6, <3>2, <4>1
      <4> QED BY <4>1, <4>2 DEF AtSwitch
    <3>3. CASE l \in At(j)
      <4>1. AtSwitch(v, j, e, l)
        <5>1. Homes(v, j, slot)
          BY <1>4, <1>10 DEF ViewOk
        <5> QED BY <1>6, <2>1, <3>3, <5>1 DEF Homes
      <4>2. l \notin Running
        BY <2>4, <3>3
      <4>3. CASE l \in Covered(e)
        <5>1. Own(v, e[First(e, l)].locals, e[First(e, l)].argument, l)
          BY <4>1, <4>3 DEF AtSwitch
        <5>2. Own(w, n[First(n, l)].locals, n[First(n, l)].argument, l) /\ l \in Covered(n)
          BY <2>3, <2>6, <4>3, <5>1
        <5> QED BY <5>2 DEF AtSwitch
      <4>4. CASE l \notin Covered(e)
        <5>1. Own(v, stack[j + 1].locals, stack[j + 1].argument, l) /\ l \notin Covered(n)
          BY <1>6, <1>7, <1>10, <2>3, <4>1, <4>2, <4>4 DEF AtSwitch
        <5>2. Own(w, stack'[j + 1].locals, stack'[j + 1].argument, l)
          BY <1>5, <2>6, <5>1
        <5> QED BY <1>6, <1>7, <1>10, <5>1, <5>2 DEF AtSwitch
      <4> QED BY <4>3, <4>4
    <3> QED BY <3>1, <3>2, <3>3
  <2>8. nest'[j].kind = "switch" /\ n = breaks'[s[j]]
    BY <1>5, <1>6, <1>7, <1>9, <2>1
  <2> QED BY <2>7, <2>8 DEF Homes
<1>15. ViewOk(w, f, s)'
  <2>1. \A l \in w.lanes : Own(w, w.locals, w.argument, l)
    BY <1>10
  <2>2. ASSUME NEW k \in f+1..w.top PROVE Homes(w, k, s)'
    <3>1. k \in f+1..m /\ Homes(v, k, slot) /\ k \in 1..m
      BY <1>4, <1>7, <1>10 DEF ViewOk
    <3>2. CASE k # j
      <4>1. \A l \in At(k)' : /\ l \in At(k) /\ w.pointee[l] = v.pointee[l]
                              /\ \A x \in Locals : w.own[x][l] = v.own[x][l]
        BY <1>8, <1>10, <3>1, <3>2
      <4>2. ASSUME nest[k].kind = "switch"
            PROVE  breaks'[s[k]] = breaks[slot[k]] /\ k # v.top /\ k # w.top
        <5>1. k < j /\ slot[k] < slot[j]
          BY <1>6, <3>1, <3>2, <4>2
        <5>2. slot[k] \in 1..Len(breaks)
          BY <1>1, <1>3, <3>1, <4>2, SwitchHasSlot
        <5>3. breaks'[slot[k]] = breaks[slot[k]] /\ s[k] = slot[k]
          BY <1>6, <1>7, <1>9, <3>1, <5>1, <5>2
        <5> QED BY <1>5, <1>7, <1>10, <4>2, <5>3
      <4>3. nest'[k].kind = nest[k].kind /\ stack' = stack
        BY <1>5
      <4> QED BY <3>1, <4>1, <4>2, <4>3, HomesStay
    <3>3. CASE k = j
      BY <1>14, <3>3
    <3> QED BY <3>2, <3>3
  <2>3. ASSUME NEW l \in At(f)'
        PROVE  Left(w, f, l)' /\ \A k \in f+1..w.top : LeftArm(w, f, k, l)'
    <3>1. l \in At(f) /\ Left(v, f, l)
      BY <1>4, <1>13 DEF ViewOk
    <3>2. \A x : Answers(v, x, l) => Answers(w, x, l)'
      BY <1>5, <1>10 DEF Answers
    <3>3. Left(w, f, l)'
      <4>1. Reaches(f, m, l)' <=> Reaches(f, m, l)
        BY <1>4, <1>12, ReachesStays
      <4> QED BY <1>10, <3>1, <3>2, <4>1 DEF Left
    <3>4. ASSUME NEW k \in f+1..w.top PROVE LeftArm(w, f, k, l)'
      <4>1. k \in f+1..m /\ LeftArm(v, f, k, l)
        BY <1>4, <1>10, <3>1 DEF ViewOk
      <4> QED BY <1>4, <1>10, <1>12, <3>2, <4>1, LeftArmStays
    <3> QED BY <3>3, <3>4
  <2>4. Covered(w.early) \subseteq At(f)'
    BY <1>4, <1>10, <1>13 DEF ViewOk
  <2>5. ASSUME NEW k \in f+1..w.top PROVE ArmShape(f, k, s)'
    <3>1. k \in f+1..m /\ ArmShape(f, k, slot) /\ k \in 1..m
      BY <1>4, <1>7, <1>10 DEF ViewOk
    <3>2. ASSUME IsArm(k), stack[k].before.breaks = BreaksOf(k, s)'
          PROVE  stack[k].before.breaks = BreaksOf(k, slot) /\ Inside(k) \subseteq Inside(k)'
      <4>1. CASE k < j
        <5>1. BreaksOf(k, s)' = BreaksOf(k, slot)
          <6>1. s[k] = slot[k] /\ slot[k] < slot[j] /\ slot[k] \in 0..Len(breaks)
            BY <1>6, <1>7, <1>9, <3>1, <4>1
          <6>2. slot[k] # 0 => breaks'[slot[k]] = breaks[slot[k]]
            <7>1. slot[k] # 0 => slot[k] \in 1..Len(breaks) /\ slot[k] # slot[j]
              BY <1>6, <1>7, <6>1
            <7> QED BY <1>6, <7>1
          <6> QED BY <6>1, <6>2 DEF BreaksOf
        <5> QED BY <1>7, <1>8, <3>1, <3>2, <4>1, <5>1
      <4>2. CASE k >= j /\ Running = {}
        <5>1. BreaksOf(k, s)' = BreaksOf(k, slot)
          BY <1>6, <1>7, <1>9, <3>1, <4>2 DEF BreaksOf
        <5> QED BY <1>7, <1>8, <3>1, <3>2, <4>2, <5>1
      <4>3. CASE k >= j /\ Running # {}
        <5>1. slot[k] = slot[j] /\ slot[k] # 0 /\ s[k] = slot[k]
          BY <1>6, <1>9, <3>1, <4>3
        <5>2. PICK edge : edge = [lanes |-> Running, locals |-> locals, argument |-> argument]
          OBVIOUS
        <5>3. edge \in BreakEdge
          BY <1>1, <5>2 DEF BreakEdge, LowererType, Running
        <5>4. Len(Append(LastBreaks, edge)) = Len(LastBreaks) + 1 /\ Len(LastBreaks) \in Nat
          BY <1>6, <5>3, Opening
        <5>5. BreaksOf(k, s)' = BreaksOf(k, slot) + 1 /\ BreaksOf(k, slot) \in Nat
          BY <1>6, <4>3, <5>1, <5>2, <5>4 DEF BreaksOf
        <5>6. stack[k].before.breaks <= BreaksOf(k, slot) /\ stack[k].before.breaks \in Nat
          <6>1. EdgesTell(k, slot, returns) /\ k \in 1..Depth
            BY <1>1, <1>3, <3>1
          <6>2. stack[k] \in ArmFrame
            BY <1>1, <3>2, <6>1, FrameTypes DEF MeaningType, Frames, IsArm
          <6> QED BY <3>2, <6>1, <6>2 DEF EdgesTell, ArmFrame, Edges
        <5> QED BY <3>2, <5>5, <5>6
      <4> QED BY <1>7, <3>1, <4>1, <4>2, <4>3
    <3> QED BY <1>4, <1>12, <1>13, <3>1, <3>2, ArmShapeStays
  <2> QED BY <1>10, <2>1, <2>2, <2>3, <2>4, <2>5 DEF ViewOk
<1> QED BY <1>1, <1>3, <1>5, <1>11, <1>15, WithinKeeps DEF ValuesOk

LEMMA StoreValues ==
    ASSUME NEW slot, NEW returns, NEW s, NEW r, Between(slot, returns, s, r),
           NEW x \in Locals, NEW v \in Operands, Store(x, v)
    PROVE  ValuesOk(s)'
<1>1. /\ MeaningType /\ LowererType /\ Inductive(slot, returns) /\ ValuesOk(slot)
  BY BetweenFacts
<1>2. PICK c, f : Now(c, f, slot)
  BY <1>1, NowIs
<1>3. \A l \in Running : (\A y \in Locals : locals[y][l] = own[y][l]) /\ argument[l] = pointee[l]
  BY <1>2 DEF Now, Fields, ViewOk, Own
<1>4. /\ own' = [own EXCEPT ![x] = Update(own[x], Running, v)] /\ locals' = [locals EXCEPT ![x] = v]
      /\ UNCHANGED <<nest, wait, stack, early, breaks, returned, given, argument, pointee, memory, output>>
      /\ returned = NoValue /\ nest[Depth].kind # "switch"
  BY DEF Store, RunStore, Statement, Top
<1>5. \A y \in Locals : /\ own'[y] = IF y = x THEN Update(own[x], Running, v) ELSE own[y]
                        /\ locals'[y] = IF y = x THEN v ELSE locals[y]
  BY <1>1, <1>4 DEF MeaningType, LowererType, LocalState
<1>6. \A l \in Lanes : Update(own[x], Running, v)[l] = IF l \in Running THEN v[l] ELSE own[x][l]
  BY DEF Update
<1>7. Running \subseteq Lanes
  BY DEF Running
<1>8. \A l \in Running : (\A y \in Locals : locals'[y][l] = own'[y][l]) /\ argument'[l] = pointee'[l]
  BY <1>3, <1>4, <1>5, <1>6, <1>7
<1>9. \A l \in Lanes \ Running : (\A y \in Locals : own'[y][l] = own[y][l]) /\ pointee'[l] = pointee[l]
  BY <1>4, <1>5, <1>6
<1>10. memory' = output'
  BY <1>1, <1>4 DEF ValuesOk
<1> QED BY <1>4, <1>8, <1>9, <1>10, AssignmentKeeps

LEMMA StorePointerValues ==
    ASSUME ~StoreAfterReturn,
           NEW slot, NEW returns, NEW s, NEW r, Between(slot, returns, s, r),
           NEW v \in Operands, StoreArgumentPointer(v)
    PROVE  ValuesOk(s)'
<1>1. /\ MeaningType /\ LowererType /\ Inductive(slot, returns) /\ ValuesOk(slot)
  BY BetweenFacts
<1>2. PICK c, f : Now(c, f, slot)
  BY <1>1, NowIs
<1>3. \A l \in Running : (\A y \in Locals : locals[y][l] = own[y][l]) /\ argument[l] = pointee[l]
  BY <1>2 DEF Now, Fields, ViewOk, Own
<1>4. /\ pointee' = Update(pointee, Running, v) /\ argument' = v /\ early = <<>>
      /\ UNCHANGED <<nest, wait, stack, early, breaks, returned, given, locals, own, memory, output>>
      /\ returned = NoValue /\ nest[Depth].kind # "switch"
  BY DEF StoreArgumentPointer, RunStorePointer, Statement, Top, MayStorePointer
<1>5. \A l \in Lanes : Update(pointee, Running, v)[l] = IF l \in Running THEN v[l] ELSE pointee[l]
  BY DEF Update
<1>6. Running \subseteq Lanes
  BY DEF Running
<1>7. memory' = output'
  BY <1>1, <1>4 DEF ValuesOk
<1>8. /\ \A l \in Running : (\A y \in Locals : locals'[y][l] = own'[y][l]) /\ argument'[l] = pointee'[l]
      /\ \A l \in Lanes \ Running : (\A y \in Locals : own'[y][l] = own[y][l]) /\ pointee'[l] = pointee[l]
  BY <1>3, <1>4, <1>5, <1>6
<1> QED BY <1>4, <1>7, <1>8, AssignmentKeeps

LEMMA EmitValues ==
    ASSUME NEW slot, NEW returns, NEW s, NEW r, Between(slot, returns, s, r),
           NEW x \in Locals, Emit(x)
    PROVE  ValuesOk(s)'
<1>1. /\ MeaningType /\ LowererType /\ Inductive(slot, returns) /\ ValuesOk(slot) /\ Live
  BY BetweenFacts
<1>2. PICK c, f : Now(c, f, slot)
  BY <1>1, NowIs
<1>3. \A l \in Running : (\A y \in Locals : locals[y][l] = own[y][l]) /\ argument[l] = pointee[l]
  BY <1>2 DEF Now, Fields, ViewOk, Own
<1>4. /\ memory' = Update(memory, mask, locals[x]) /\ output' = Update(output, Running, own[x])
      /\ UNCHANGED <<nest, wait, stack, early, breaks, returned, given, locals, own, argument, pointee>>
      /\ returned = NoValue /\ nest[Depth].kind # "switch"
  BY DEF Emit, RunEffect, Predicated, Statement, Top
<1>5. mask = Running /\ memory = output
  BY <1>1, <1>4 DEF Live, Top, ValuesOk
<1>6. memory' = output'
  BY <1>3, <1>4, <1>5 DEF Update
<1> QED BY <1>3, <1>4, <1>6, AssignmentKeeps

-----------------------------------------------------------------------------
(* The lanes that run return.                                              *)
LEMMA ReturnValues ==
    ASSUME NEW slot, NEW returns, NEW s, NEW r, Between(slot, returns, s, r),
           NEW x \in Locals, Return(x)
    PROVE  ValuesOk(s)'
<1>1. /\ MeaningType /\ LowererType /\ Nesting /\ Slots(slot) /\ Slots(s)' /\ Depth \in Nat /\ Depth > 0
      /\ Inductive(slot, returns) /\ ValuesOk(slot) /\ Inductive(s, r)' /\ Live
      /\ MeaningType' /\ LowererType'
      /\ \A k \in 1..Depth : EdgesTell(k, slot, returns)
  BY BetweenFacts
<1>2. PICK v, f : Now(v, f, slot)
  BY <1>1, NowIs
<1>3. PICK m, w : m = Depth /\ w = Current'
  OBVIOUS
<1>4. /\ Fields(v) /\ ViewOk(v, f, slot) /\ f \in 1..m /\ f \in Nat /\ IsCall(f) /\ SameFunction(f, Depth)
      /\ \A k \in f+1..m : k \in 1..m /\ k \in Nat /\ k > f /\ nest[k].kind # "call"
      /\ f = Function /\ m \in 1..m /\ m \in Nat
  BY <1>1, <1>2, <1>3 DEF Now
<1>5. /\ returned = NoValue /\ returned' = locals[x] /\ nest[m].kind # "switch"
      /\ given' = Update(given, Running, own[x]) /\ wait' = Park(Running, f)
      /\ UNCHANGED <<nest, stack, early, breaks, locals, argument, own, pointee, memory, output>>
  BY <1>3, <1>4 DEF Return, Statement, RunReturn, Top
<1>6. returned' \in Word /\ returned' # NoValue
  BY <1>1, ReturnTypes, Assumptions
<1>7. Parking(f)
  BY <1>1, <1>3, <1>4, <1>5 DEF Parking
<1>8. Depth' = m /\ Depth = m /\ Running' = {} /\ f # 0
  BY <1>3, <1>4, <1>7, ParkingFacts
<1>9. \A k \in 1..m : /\ At(k)' = IF k = f THEN At(k) \cup Running ELSE At(k)
                      /\ Inside(k)' = IF k < f THEN Inside(k) ELSE Inside(k) \ Running
  BY <1>7, <1>8, ParkingFacts
<1>10. \A k \in 1..m : s[k] = slot[k]
  BY <1>1, <1>5, <1>8, SlotsAgree DEF KindsKept
<1>11. /\ v.top = m /\ v.lanes = Running /\ v.locals = locals /\ v.argument = argument
       /\ v.early = early /\ v.value = NoValue /\ v.own = own /\ v.pointee = pointee
       /\ w.top = m /\ w.lanes = {} /\ w.locals = locals /\ w.argument = argument
       /\ w.early = early /\ w.value = locals[x] /\ w.own = own /\ w.pointee = pointee
  BY <1>3, <1>4, <1>5, <1>8, FieldsAfter DEF Fields
<1>12. /\ \A l \in Lanes : l \notin Running => given'[l] = given[l]
       /\ \A l \in Running : given'[l] = own[x][l] /\ l \in Lanes
       /\ \A k : k # 0 => At(k) \cap Running = {}
  BY <1>5 DEF Update, Running, At
<1>13. Within(f, slot)
  <2>1. \A l \in Lanes : wait'[l] = wait[l] \/ (wait[l] = 0 /\ wait'[l] >= f)
    BY <1>4, <1>5 DEF Park, Running
  <2>2. \A l \in Lanes : wait[l] # 0 => given'[l] = given[l]
    BY <1>12 DEF Running
  <2> QED BY <1>3, <1>4, <1>5, <1>8, <2>1, <2>2 DEF Within
<1>14. \A k : ArmsStay(f, k)
  BY <1>5 DEF ArmsStay
<1>15. At(f)' = At(f) \cup Running
  BY <1>4, <1>9
<1>16. Covered(early) \subseteq At(f)
  BY <1>4, <1>11 DEF ViewOk
<1>17. ASSUME NEW k \in f+1..w.top PROVE Homes(w, k, s)'
  <2>1. k \in f+1..m /\ Homes(v, k, slot) /\ k \in 1..m /\ k # f
    BY <1>4, <1>11 DEF ViewOk
  <2>2. \A l \in At(k)' : /\ l \in At(k) /\ w.pointee[l] = v.pointee[l]
                          /\ \A y \in Locals : w.own[y][l] = v.own[y][l]
    BY <1>9, <1>11, <2>1
  <2>3. nest[k].kind = "switch" => breaks'[s[k]] = breaks[slot[k]] /\ k # v.top /\ k # w.top
    BY <1>5, <1>10, <1>11, <2>1
  <2>4. nest'[k].kind = nest[k].kind /\ stack' = stack
    BY <1>5
  <2> QED BY <2>1, <2>2, <2>3, <2>4, HomesStay
<1>18. ASSUME NEW l \in At(f)'
       PROVE  Left(w, f, l)' /\ \A k \in f+1..w.top : LeftArm(w, f, k, l)'
  <2>1. l \in At(f) \/ l \in Running
    BY <1>15
  <2>2. CASE l \in At(f)
    <3>1. Left(v, f, l) /\ given'[l] = given[l]
      BY <1>4, <1>8, <1>12, <2>2 DEF ViewOk, At
    <3>2. \A y : Answers(v, y, l) => Answers(w, y, l)'
      BY <1>11, <3>1 DEF Answers
    <3>3. Left(w, f, l)'
      <4>1. Reaches(f, m, l)' <=> Reaches(f, m, l)
        BY <1>4, <1>14, ReachesStays
      <4>2. Answers(v, NoValue, l) => Answers(w, w.value, l)'
        BY <1>11, <3>1 DEF Answers
      <4> QED BY <1>11, <3>1, <4>1, <4>2 DEF Left
    <3>4. ASSUME NEW k \in f+1..w.top PROVE LeftArm(w, f, k, l)'
      <4>1. k \in f+1..m /\ LeftArm(v, f, k, l)
        BY <1>4, <1>11, <2>2 DEF ViewOk
      <4> QED BY <1>4, <1>11, <1>14, <3>2, <4>1, LeftArmStays
    <3> QED BY <3>3, <3>4
  <2>3. CASE l \in Running
    <3>1. l \notin Covered(early)
      BY <1>8, <1>12, <1>16, <2>3
    <3>2. argument[l] = pointee[l] /\ locals[x][l] = given'[l]
      BY <1>4, <1>11, <1>12, <2>3 DEF ViewOk, Own
    <3>3. Left(w, f, l)'
      BY <1>5, <1>6, <1>11, <3>1, <3>2 DEF Left, Answers
    <3>4. ASSUME NEW k \in f+1..w.top PROVE LeftArm(w, f, k, l)'
      <4>1. k \in 1..m /\ EdgesTell(k, slot, returns)
        BY <1>1, <1>3, <1>4, <1>11
      <4>2. IsArm(k) => l \in Start(k)
        BY <2>3, <4>1 DEF EdgesTell, Inside, Running
      <4>3. IsArm(k)' => ~Elsewhere(k, l)' /\ l \in stack'[k].parent
        BY <1>5, <4>2 DEF IsArm, Start, Elsewhere
      <4> QED BY <4>3 DEF LeftArm
    <3> QED BY <3>3, <3>4
  <2> QED BY <2>1, <2>2, <2>3
<1>19. ASSUME NEW k \in f+1..w.top PROVE ArmShape(f, k, s)'
  <2>1. k \in f+1..m /\ ArmShape(f, k, slot) /\ k \in 1..m
    BY <1>4, <1>11 DEF ViewOk
  <2>2. BreaksOf(k, s)' = BreaksOf(k, slot)
    BY <1>5, <1>10, <2>1 DEF BreaksOf
  <2>3. Inside(k) \subseteq Inside(k)' \cup At(f)'
    BY <1>9, <1>15, <2>1
  <2> QED BY <1>4, <1>14, <1>15, <2>1, <2>2, <2>3, ArmShapeStays
<1>20. ViewOk(w, f, s)'
  <2>1. \A l \in w.lanes : Own(w, w.locals, w.argument, l)
    BY <1>11
  <2>2. Covered(w.early) \subseteq At(f)'
    BY <1>11, <1>15, <1>16
  <2> QED BY <1>17, <1>18, <1>19, <2>1, <2>2 DEF ViewOk
<1> QED BY <1>1, <1>3, <1>5, <1>13, <1>20, WithinKeeps DEF ValuesOk

-----------------------------------------------------------------------------
(* A conditional, a switch or one of its cases begins.                     *)
LEMMA OpenedValues ==
    ASSUME NEW slot, NEW returns, NEW s, NEW r, Between(slot, returns, s, r),
           NEW block, NEW frame, Entering(block, frame), block.kind # "call",
           UNCHANGED <<locals, argument, early, own, pointee, given, memory, output>>,
           block.kind # "switch" => /\ frame.locals = locals /\ frame.argument = argument
                                    /\ frame.parent = mask /\ frame.before = EdgesBefore,
           block.kind = "switch" => breaks'[Len(breaks')] = <<>>,
           nest[Depth].kind = "switch" =>
              block.kind # "switch" /\ Running' \cap Covered(breaks[slot[Depth]]) = {}
    PROVE  ValuesOk(s)'
<1>1. /\ MeaningType /\ LowererType /\ Nesting /\ Slots(slot) /\ Slots(s)' /\ Depth \in Nat /\ Depth > 0
      /\ Inductive(slot, returns) /\ ValuesOk(slot) /\ Inductive(s, r)' /\ Live
      /\ MeaningType' /\ LowererType' /\ Returns(r)'
      /\ \A k \in 1..Depth : Waiting(k, slot) /\ EdgesTell(k, slot, returns)
      /\ \A k \in 1..Depth' : EdgesTell(k, s, r)'
      /\ \A l \in Lanes : wait[l] \in 0..Depth
  BY BetweenFacts
<1>2. PICK v, f : Now(v, f, slot)
  BY <1>1, NowIs
<1>3. PICK m, w, d : m = Depth /\ w = Current' /\ d = Depth + 1
  OBVIOUS
<1>4. /\ Fields(v) /\ ViewOk(v, f, slot) /\ f \in 1..m /\ f \in Nat /\ IsCall(f) /\ SameFunction(f, Depth)
      /\ \A k \in f+1..m : k \in 1..m /\ k \in Nat /\ k > f /\ nest[k].kind # "call"
      /\ m \in 1..m /\ m \in Nat
  BY <1>1, <1>2, <1>3 DEF Now
<1>5. /\ returned = NoValue /\ returned' = NoValue /\ block.kind # "else"
      /\ Depth' = d /\ Depth = m /\ d = m + 1 /\ d > f /\ d \in f+1..d
      /\ \A k \in 1..m : nest'[k] = nest[k] /\ stack'[k] = stack[k]
      /\ nest'[d] = block /\ stack'[d] = frame
      /\ Len(breaks') >= Len(breaks) /\ \A i \in 1..Len(breaks) : breaks'[i] = breaks[i]
  BY <1>3, <1>4 DEF Entering, Opened
<1>6. \A l \in Lanes : \/ wait'[l] = wait[l]
                       \/ wait[l] = 0 /\ wait'[l] = d
                       \/ nest[m].kind = "switch" /\ wait[l] = m /\ wait'[l] = 0
  BY <1>3 DEF Entering, LanesEnter, Top
<1>7. \A k \in 1..m : k < m \/ nest[m].kind # "switch" => At(k)' = At(k) /\ Inside(k)' = Inside(k)
  BY <1>3, LanesOpened
<1>8. \A k \in 1..m : s[k] = slot[k]
  <2>1. KindsKept(m)
    BY <1>5 DEF KindsKept
  <2>2. m \in 1..Depth /\ m <= Depth' /\ Depth' \in Nat
    BY <1>3, <1>4, <1>5
  <2> QED BY <1>1, <2>1, <2>2, SlotsAgree
<1>9. /\ v.top = m /\ v.lanes = Running /\ v.locals = locals /\ v.argument = argument
      /\ v.early = early /\ v.value = NoValue /\ v.own = own /\ v.pointee = pointee
      /\ w.top = d /\ w.lanes = Running' /\ w.locals = locals /\ w.argument = argument
      /\ w.early = early /\ w.value = NoValue /\ w.own = own /\ w.pointee = pointee
  BY <1>3, <1>4, <1>5, FieldsAfter DEF Fields
<1>10. Len(breaks) \in Nat /\ \A k \in 1..m : slot[k] \in 0..Len(breaks)
  BY <1>1, <1>3 DEF LowererType, Slots
<1>11. Within(f, slot)
  <2>1. \A l \in Lanes : \/ wait'[l] = wait[l]
                         \/ (wait[l] = 0 \/ wait[l] >= f) /\ (wait'[l] = 0 \/ wait'[l] >= f)
    BY <1>4, <1>5, <1>6
  <2>2. \A k \in f+1..d : nest'[k].kind # "call"
    <3>1. \A k \in f+1..d : k \in f+1..m \/ k = d
      BY <1>4, <1>5
    <3> QED BY <1>4, <1>5, <3>1
  <2>3. \A i \in 1..Len(breaks) : i <= slot[f] => breaks'[i] = breaks[i]
    BY <1>5
  <2>4. \A k \in 1..f : k \in 1..m
    BY <1>4
  <2> QED BY <1>3, <1>4, <1>5, <2>1, <2>2, <2>3, <2>4 DEF Within
<1>12. At(f)' = At(f)
  <2>1. f < m \/ nest[m].kind # "switch"
    BY <1>4 DEF IsCall
  <2> QED BY <1>4, <1>7, <2>1
<1>13. \A L, A, l : Own(v, L, A, l) => Own(w, L, A, l)
  BY <1>9 DEF Own
<1>14. \A l \in Running : Own(v, locals, argument, l)
  BY <1>4, <1>9 DEF ViewOk
<1>15. At(d)' \subseteq Running
  <2>1. \A l \in Lanes : wait'[l] = d => wait[l] = 0
    BY <1>1, <1>3, <1>4, <1>5, <1>6
  <2> QED BY <2>1 DEF At, Running
<1>16. ASSUME nest[m].kind = "switch"
       PROVE  /\ Homes(v, m, slot) /\ At(m)' \subseteq At(m) /\ Running' \subseteq Running \cup At(m)
              /\ m \in f+1..m
  <2>1. m \in f+1..m
    BY <1>4, <1>16 DEF IsCall
  <2>2. Homes(v, m, slot)
    BY <1>4, <1>9, <2>1 DEF ViewOk
  <2>3. \A l \in Lanes : /\ wait'[l] = m => wait[l] = m
                         /\ wait'[l] = 0 => wait[l] = 0 \/ wait[l] = m
    BY <1>4, <1>5, <1>6
  <2> QED BY <2>1, <2>2, <2>3 DEF At, Running
<1>17. ASSUME NEW l \in w.lanes PROVE Own(w, w.locals, w.argument, l)
  <2>1. CASE l \in Running
    BY <1>9, <1>13, <1>14, <2>1
  <2>2. CASE l \notin Running
    <3>1. nest[m].kind = "switch"
      <4>1. l \in Lanes /\ wait'[l] = 0 /\ wait[l] # 0
        BY <1>9, <1>17, <2>2 DEF Running
      <4> QED BY <1>4, <1>5, <1>6, <4>1
    <3>2. l \in At(m) /\ l \notin Covered(breaks[slot[m]])
      BY <1>3, <1>9, <1>16, <1>17, <2>2, <3>1
    <3>3. AtSwitch(v, m, breaks[slot[m]], l)
      BY <1>16, <3>1, <3>2 DEF Homes
    <3>4. Own(v, locals, argument, l)
      BY <1>9, <3>2, <3>3 DEF AtSwitch
    <3> QED BY <1>9, <1>13, <3>4
  <2> QED BY <2>1, <2>2
<1>18. ASSUME NEW k \in f+1..w.top PROVE Homes(w, k, s)'
  <2>1. CASE k = d
    <3>1. CASE block.kind = "switch"
      <4>1. s[d] = Len(breaks')
        BY <1>1, <1>5 DEF Slots
      <4>2. PICK e : e = breaks'[s[d]] /\ e = <<>>
        BY <3>1, <4>1
      <4>3. ASSUME NEW l \in At(d)' PROVE AtSwitch(w, d, e, l)'
        BY <1>9, <1>13, <1>14, <1>15, <4>2, <4>3, CoveredEmpty DEF AtSwitch
      <4> QED BY <1>5, <2>1, <3>1, <4>2, <4>3 DEF Homes
    <3>2. CASE block.kind # "switch"
      <4>1. \A l \in At(d)' : Own(w, stack'[d].locals, stack'[d].argument, l)
        BY <1>5, <1>13, <1>14, <1>15, <3>2
      <4> QED BY <1>5, <2>1, <3>2, <4>1 DEF Homes
    <3> QED BY <3>1, <3>2
  <2>2. CASE k # d
    <3>1. k \in f+1..m /\ k \in 1..m /\ k # w.top /\ Homes(v, k, slot)
      <4>1. k \in f+1..m
        BY <1>4, <1>5, <1>9, <2>2
      <4> QED BY <1>4, <1>5, <1>9, <4>1 DEF ViewOk
    <3>2. nest'[k] = nest[k] /\ stack'[k] = stack[k] /\ s[k] = slot[k]
      BY <1>5, <1>8, <3>1
    <3>3. nest[k].kind = "switch" => breaks'[s[k]] = breaks[slot[k]]
      <4>1. nest[k].kind = "switch" => slot[k] \in 1..Len(breaks)
        BY <1>1, <1>3, <3>1, SwitchHasSlot
      <4> QED BY <1>5, <3>2, <4>1
    <3>4. CASE k < m \/ nest[m].kind # "switch"
      <4>1. At(k)' = At(k)
        BY <1>7, <3>1, <3>4
      <4>2. nest[k].kind = "switch" => /\ k # v.top
                                       /\ stack'[k + 1].locals = stack[k + 1].locals
                                       /\ stack'[k + 1].argument = stack[k + 1].argument
        <5>1. nest[k].kind = "switch" => k # m /\ k + 1 \in 1..m
          BY <1>4, <3>1, <3>4
        <5> QED BY <1>5, <1>9, <5>1
      <4> QED BY <1>9, <3>1, <3>2, <3>3, <4>1, <4>2, HomesStay
    <3>5. CASE k = m /\ nest[m].kind = "switch"
      <4>1. PICK e : e = breaks[slot[m]] /\ e = breaks'[s[m]]
        BY <3>3, <3>5
      <4>2. ASSUME NEW l \in At(m)' PROVE AtSwitch(w, m, e, l)'
        <5>1. AtSwitch(v, m, e, l)
          BY <1>16, <3>5, <4>1, <4>2 DEF Homes
        <5>2. l \notin Covered(e) => Own(w, stack'[m + 1].locals, stack'[m + 1].argument, l)
          <6>1. l \notin Covered(e) => Own(v, locals, argument, l)
            BY <1>9, <5>1 DEF AtSwitch
          <6>2. stack'[m + 1].locals = locals /\ stack'[m + 1].argument = argument
            BY <1>3, <1>5, <3>5
          <6> QED BY <1>13, <6>1, <6>2
        <5>3. l \in Covered(e) => Own(w, e[First(e, l)].locals, e[First(e, l)].argument, l)
          BY <1>13, <5>1 DEF AtSwitch
        <5>4. m # w.top
          BY <3>1, <3>5
        <5> QED BY <5>2, <5>3, <5>4 DEF AtSwitch
      <4> QED BY <3>2, <3>5, <4>1, <4>2 DEF Homes
    <3> QED BY <1>4, <3>1, <3>4, <3>5
  <2> QED BY <2>1, <2>2
<1>19. ASSUME NEW k \in f+1..m PROVE ArmsStay(f, k)
  <2>1. \A i \in f+1..k : i \in 1..m
    BY <1>4
  <2> QED BY <1>5, <2>1 DEF ArmsStay
<1>20. ASSUME NEW l \in At(f)'
       PROVE  Left(w, f, l)' /\ \A k \in f+1..w.top : LeftArm(w, f, k, l)'
  <2>1. l \in At(f) /\ Left(v, f, l) /\ \A k \in f+1..m : LeftArm(v, f, k, l)
    BY <1>4, <1>9, <1>12 DEF ViewOk
  <2>2. \A x : Answers(v, x, l) => Answers(w, x, l)'
    BY <1>9 DEF Answers
  <2>3. Reaches(f, m, l)' <=> Reaches(f, m, l)
    <3>1. ArmsStay(f, m)
      <4>1. \A i \in f+1..m : i \in 1..m
        BY <1>4
      <4> QED BY <1>5, <4>1 DEF ArmsStay
    <3> QED BY <1>4, <3>1, ReachesStays
  <2>4. Reaches(f, d, l)' => Reaches(f, m, l)
    <3>1. \A i \in f+1..m : i \in f+1..d
      BY <1>4, <1>5
    <3> QED BY <2>3, <3>1 DEF Reaches
  <2>5. Left(w, f, l)'
    BY <1>9, <2>1, <2>2, <2>4 DEF Left
  <2>6. ASSUME NEW k \in f+1..w.top PROVE LeftArm(w, f, k, l)'
    <3>1. CASE k \in f+1..m
      BY <1>4, <1>9, <1>19, <2>1, <2>2, <3>1, LeftArmStays
    <3>2. CASE k = d
      <4>1. Reaches(f, d - 1, l)' => Answers(w, NoValue, l)' /\ argument[l] = pointee[l]
        <5>1. d - 1 = m
          BY <1>4, <1>5
        <5> QED BY <1>9, <2>1, <2>2, <2>3, <5>1 DEF Left
      <4>2. ~Elsewhere(d, l)' /\ nest'[d].kind # "else"
        BY <1>5 DEF Elsewhere
      <4>3. IsArm(d)' => stack'[d].argument = argument
        BY <1>5 DEF IsArm, ArmKinds
      <4> QED BY <1>9, <3>2, <4>1, <4>2, <4>3 DEF LeftArm
    <3> QED BY <1>4, <1>5, <1>9, <3>1, <3>2
  <2> QED BY <2>5, <2>6
<1>21. ASSUME NEW k \in f+1..w.top PROVE ArmShape(f, k, s)'
  <2>1. CASE k \in f+1..m
    <3>1. k \in 1..m /\ ArmShape(f, k, slot)
      BY <1>4, <1>9, <2>1 DEF ViewOk
    <3>2. BreaksOf(k, s)' = BreaksOf(k, slot)
      <4>1. s[k] = slot[k] /\ (slot[k] # 0 => slot[k] \in 1..Len(breaks))
        BY <1>8, <1>10, <3>1
      <4> QED BY <1>5, <4>1 DEF BreaksOf
    <3>3. IsArm(k) => Inside(k)' = Inside(k)
      BY <1>7, <1>4, <3>1 DEF IsArm, ArmKinds
    <3> QED BY <1>4, <1>12, <1>19, <2>1, <3>1, <3>2, <3>3, ArmShapeStays
  <2>2. CASE k = d
    <3>1. SUFFICES ASSUME IsArm(d)' PROVE ArmShape(f, d, s)'
      BY <2>2 DEF ArmShape
    <3>2. /\ block.kind # "switch" /\ stack'[d].parent = mask /\ stack'[d].before = EdgesBefore
          /\ nest'[d].kind # "else"
      BY <1>5, <3>1 DEF IsArm, ArmKinds
    <3>3. stack'[d].before.breaks = BreaksOf(d, s)' => Start(d)' \subseteq Inside(d)'
      <4>1. stack'[d].before.returns = Len(early)
        BY <1>1, <3>2, EdgesNow
      <4>2. r[d] = Len(early)
        BY <1>1, <1>5 DEF Returns
      <4>3. ~Pending(d)'
        <5>1. \A j \in d+1..d : FALSE
          BY <1>4, <1>5
        <5> QED BY <1>5, <5>1 DEF Pending
      <4>4. EdgesTell(d, s, r)'
        BY <1>1, <1>4, <1>5
      <4> QED BY <3>1, <4>1, <4>2, <4>3, <4>4 DEF EdgesTell
    <3>4. ASSUME NEW j \in f+1..d-1, IsArm(j)' PROVE mask \subseteq Start(j)'
      <4>1. j \in f+1..m /\ j \in 1..m /\ IsArm(j) /\ Start(j)' = Start(j)
        <5>1. j \in f+1..m
          BY <1>4, <1>5
        <5>2. j \in 1..m
          BY <1>4, <5>1
        <5> QED BY <1>5, <3>4, <5>1, <5>2 DEF IsArm, Start
      <4>2. Inside(j) \subseteq Start(j)
        <5>1. EdgesTell(j, slot, returns)
          BY <1>1, <1>3, <4>1
        <5> QED BY <4>1, <5>1 DEF EdgesTell
      <4>3. CASE nest[m].kind # "switch"
        <5>1. mask = Running
          BY <1>1, <1>3, <1>5, <4>3 DEF Live, Top
        <5> QED BY <4>1, <4>2, <5>1 DEF Running, Inside
      <4>4. CASE nest[m].kind = "switch"
        <5>1. j < m
          BY <1>4, <4>1, <4>4 DEF IsArm, ArmKinds
        <5>2. mask \subseteq At(m)
          <6>1. Waiting(m, slot) /\ Outside(m) = mask
            BY <1>1, <1>3, <1>4 DEF Outside
          <6> QED BY <4>4, <6>1 DEF Waiting
        <5>3. At(m) \subseteq Inside(j)
          BY <1>4, <4>1, <5>1 DEF At, Inside
        <5> QED BY <4>1, <4>2, <5>2, <5>3
      <4> QED BY <4>3, <4>4
    <3> QED BY <1>12, <3>2, <3>3, <3>4 DEF ArmShape
  <2> QED BY <1>4, <1>5, <1>9, <2>1, <2>2
<1>22. Covered(w.early) \subseteq At(f)'
  BY <1>4, <1>9, <1>12 DEF ViewOk
<1>23. ViewOk(w, f, s)'
  BY <1>17, <1>18, <1>20, <1>21, <1>22 DEF ViewOk
<1> QED BY <1>1, <1>3, <1>11, <1>23, WithinKeeps DEF ValuesOk

LEMMA IfValues ==
    ASSUME NEW slot, NEW returns, NEW s, NEW r, Between(slot, returns, s, r),
           NEW condition \in Conditions, If(condition)
    PROVE  ValuesOk(s)'
<1> DEFINE block == Frame("if", Running \ condition)
           frame == Conditional(condition)
<1>1. /\ MeaningType /\ LowererType /\ Depth \in Nat
  BY BetweenFacts
<1>2. MeaningType' /\ LowererType' /\ Opened(block, frame)
  BY <1>1, IfTypes
<1>3. /\ block.kind = "if" /\ frame.parent = mask /\ frame.before = EdgesBefore
      /\ frame.locals = locals /\ frame.argument = argument
  BY DEF Frame, Conditional
<1>4. /\ UNCHANGED <<breaks, locals, argument, early, own, pointee, given, memory, output>>
      /\ returned = NoValue /\ returned' = NoValue /\ nest[Depth].kind # "switch"
      /\ wait' = Park(Running \ condition, Depth + 1)
  BY DEF If, Accept, Statement, RunIf, Top
<1> HIDE DEF block, frame
<1>5. Entering(block, frame)
  <2>1. LanesEnter /\ wait' \in [Lanes -> 0..Depth + 1]
    BY <1>1, <1>4 DEF LanesEnter, Park, Running, MeaningType
  <2>2. Len(breaks') >= Len(breaks)
    BY <1>1, <1>4 DEF LowererType
  <2> QED BY <1>1, <1>2, <1>3, <1>4, <2>1, <2>2 DEF Entering
<1> QED BY <1>3, <1>4, <1>5, OpenedValues

LEMMA SwitchValues ==
    ASSUME NEW slot, NEW returns, NEW s, NEW r, Between(slot, returns, s, r),
           NEW selection \in Selections, NEW cases \in Switches, Switch(selection, cases)
    PROVE  ValuesOk(s)'
<1> DEFINE block == Frame("switch", Running)
           frame == NewSwitch(selection, cases)
<1>1. /\ MeaningType /\ LowererType /\ Depth \in Nat /\ Len(breaks) \in Nat
  BY BetweenFacts
<1>2. /\ MeaningType' /\ LowererType' /\ Opened(block, frame)
      /\ Len(breaks') = Len(breaks) + 1 /\ breaks'[Len(breaks) + 1] = <<>>
      /\ \A i \in 1..Len(breaks) : breaks'[i] = breaks[i]
  BY <1>1, SwitchTypes
<1>3. block.kind = "switch"
  BY DEF Frame
<1>4. /\ UNCHANGED <<locals, argument, early, own, pointee, given, memory, output>>
      /\ returned = NoValue /\ returned' = NoValue /\ nest[Depth].kind # "switch"
      /\ wait' = Park(Running, Depth + 1)
  BY DEF Switch, Statement, RunSwitch, Top
<1> HIDE DEF block, frame
<1>5. Entering(block, frame)
  <2>1. LanesEnter /\ wait' \in [Lanes -> 0..Depth + 1]
    BY <1>1, <1>4 DEF LanesEnter, Park, Running, MeaningType
  <2>2. Len(breaks') >= Len(breaks)
    BY <1>1, <1>2
  <2> QED BY <1>1, <1>2, <1>3, <1>4, <2>1, <2>2 DEF Entering
<1>6. breaks'[Len(breaks')] = <<>>
  BY <1>2
<1> QED BY <1>3, <1>4, <1>5, <1>6, OpenedValues

LEMMA CaseValues ==
    ASSUME NEW slot, NEW returns, NEW s, NEW r, Between(slot, returns, s, r), Case
    PROVE  ValuesOk(s)'
<1> DEFINE labels == Head(Inner.todo)
           condition == CaseCondition(Inner, labels)
           started == Top.lanes \cap Taken(Inner, labels)
           block == Frame("case", started)
           frame == Conditional(condition)
<1>0. PICK m : m = Depth
  OBVIOUS
<1>1. /\ MeaningType /\ LowererType /\ Nesting /\ Live /\ Depth \in Nat /\ Depth > 0 /\ m \in 1..Depth
      /\ Waiting(m, slot) /\ CasesFind(m)
  BY <1>0, BetweenFacts
<1>2. /\ MeaningType' /\ LowererType' /\ Opened(block, frame)
      /\ nest[Depth].kind = "switch" /\ stack[Depth] \in SwitchFrame
  BY <1>1, CaseTypes
<1>3. /\ block.kind = "case" /\ frame.parent = mask /\ frame.before = EdgesBefore
      /\ frame.locals = locals /\ frame.argument = argument
  BY DEF Frame, Conditional
<1>4. /\ UNCHANGED <<breaks, locals, argument, early, own, pointee, given, memory, output>>
      /\ wait' = Park(started, 0) /\ Inner.todo # <<>>
      /\ Running = {} /\ returned = NoValue /\ returned' = NoValue
  BY <1>1 DEF Case, Accept, RunCase, Live
<1>5. /\ At(m) = mask \cup Covered(breaks[slot[m]]) /\ mask \cap Covered(breaks[slot[m]]) = {}
      /\ \A l \in Top.lanes : \A i \in DOMAIN Inner.todo : l \in Taken(Inner, Inner.todo[i]) => l \in mask
  BY <1>0, <1>1, <1>2 DEF Waiting, CasesFind, Outside, Todo, Inner, Top
<1>6. 1 \in DOMAIN Inner.todo /\ labels = Inner.todo[1]
  BY <1>2, <1>4 DEF SwitchFrame, Inner
<1>7. started \subseteq mask
  BY <1>5, <1>6
<1> HIDE DEF block, frame, condition, started, labels
<1>8. started \subseteq At(m)
  BY <1>5, <1>7
<1>9. Entering(block, frame)
  <2>1. LanesEnter /\ wait' \in [Lanes -> 0..Depth + 1]
    <3>1. \A l \in Lanes : wait'[l] = IF l \in started THEN 0 ELSE wait[l]
      BY <1>4 DEF Park
    <3>2. \A l \in started : l \in Lanes /\ wait[l] = Depth
      BY <1>0, <1>8 DEF At
    <3>3. wait' \in [Lanes -> 0..Depth + 1]
      BY <1>1, <1>4 DEF Park, MeaningType
    <3> QED BY <1>2, <3>1, <3>2, <3>3 DEF LanesEnter, Top
  <2>2. Len(breaks') >= Len(breaks)
    BY <1>1, <1>4 DEF LowererType
  <2> QED BY <1>1, <1>2, <1>3, <1>4, <2>1, <2>2 DEF Entering
<1>10. Running' \cap Covered(breaks[slot[Depth]]) = {}
  <2>1. Running' \subseteq started
    BY <1>4 DEF Park, Running
  <2> QED BY <1>0, <1>5, <1>7, <2>1
<1> QED BY <1>3, <1>4, <1>9, <1>10, OpenedValues

-----------------------------------------------------------------------------
(* The arms of a conditional change places.                                *)
LEMMA ElseValues ==
    ASSUME ~ReturnAfterBreak,
           NEW slot, NEW returns, NEW s, NEW r, Between(slot, returns, s, r), Else
    PROVE  ValuesOk(s)'
<1>1. /\ MeaningType /\ LowererType /\ Nesting /\ Slots(slot) /\ Slots(s)' /\ Depth \in Nat /\ Depth > 0
      /\ Inductive(slot, returns) /\ ValuesOk(slot) /\ Inductive(s, r)' /\ Live
      /\ MeaningType' /\ LowererType' /\ Returns(r)' /\ Returns(returns)
      /\ \A k \in 1..Depth : Waiting(k, slot) /\ EdgesTell(k, slot, returns)
      /\ \A k \in 1..Depth' : EdgesTell(k, s, r)'
      /\ \A l \in Lanes : wait[l] \in 0..Depth
  BY BetweenFacts
<1>2. PICK v, f : Now(v, f, slot)
  BY <1>1, NowIs
<1>3. PICK m, w, c : m = Depth /\ w = Current' /\ c = stack[m]
  OBVIOUS
<1>4. /\ Fields(v) /\ ViewOk(v, f, slot) /\ f \in 1..m /\ f \in Nat /\ IsCall(f) /\ SameFunction(f, Depth)
      /\ \A k \in f+1..m : k \in 1..m /\ k \in Nat /\ k > f /\ nest[k].kind # "call"
      /\ m \in 1..m /\ m \in Nat
  BY <1>1, <1>2, <1>3 DEF Now
<1>5. Exchanged
  BY <1>1, ElseTypes
<1>6. /\ Depth' = m /\ Depth = m /\ nest[m].kind = "if" /\ nest'[m].kind = "else"
      /\ \A k \in 1..m-1 : nest'[k] = nest[k] /\ stack'[k] = stack[k]
      /\ c \in ArmFrame
      /\ stack'[m].condition = c.condition /\ stack'[m].parent = c.parent
      /\ stack'[m].locals = c.locals /\ stack'[m].argument = c.argument
      /\ stack'[m].accepted = Arm(c.before) /\ stack'[m].before = EdgesBefore
  BY <1>3, <1>5 DEF Exchanged, Inner
<1>7. /\ locals' = c.locals /\ argument' = c.argument /\ returned' = NoValue
      /\ UNCHANGED <<early, breaks, own, pointee, given, memory, output>>
      /\ wait' = [l \in Lanes |-> IF l \in nest[m].lanes THEN 0 ELSE IF l \in Running THEN m ELSE wait[l]]
      /\ MayEndArm(c.before)
  BY <1>3 DEF Else, RunElse, Reject, RestoredArgument, Inner, Top
<1>8. f < m /\ f \in 1..m-1 /\ m \in f+1..m /\ m - 1 \in Nat
  <2>1. f # m
    BY <1>4, <1>6 DEF IsCall
  <2> QED BY <1>4, <2>1
<1>9. /\ At(m) = nest[m].lanes /\ nest[m].lanes = c.parent \ c.condition
      /\ EdgesTell(m, slot, returns) /\ Inside(m) = Running /\ Inside(m) \subseteq c.parent \cap c.condition
  <2>1. Waiting(m, slot) /\ EdgesTell(m, slot, returns)
    BY <1>1, <1>3, <1>4
  <2>2. Inside(m) = Running
    BY <1>1, <1>3, InsideTop
  <2> QED BY <1>3, <1>6, <2>1, <2>2 DEF Waiting, EdgesTell, IsArm, ArmKinds, Start
<1>10. /\ Running' = At(m) /\ At(m)' = Running
       /\ \A k \in 1..m-1 : At(k)' = At(k) /\ Inside(k)' = Inside(k)
  <2>1. \A l \in Lanes : /\ wait[l] \in 0..m
                         /\ wait'[l] = IF wait[l] = m THEN 0 ELSE IF wait[l] = 0 THEN m ELSE wait[l]
    BY <1>1, <1>3, <1>7, <1>9 DEF At, Running
  <2>2. \A l \in Lanes : (wait'[l] = 0 <=> wait[l] = m) /\ (wait'[l] = m <=> wait[l] = 0)
    BY <1>4, <2>1
  <2>3. \A k \in 1..m-1 : \A l \in Lanes :
           /\ wait'[l] = k <=> wait[l] = k
           /\ (wait'[l] = 0 \/ wait'[l] > k) <=> (wait[l] = 0 \/ wait[l] > k)
    BY <1>4, <2>1
  <2> QED BY <2>2, <2>3 DEF At, Inside, Running
<1>11. \A k \in 1..m : s[k] = slot[k]
  <2>1. KindsKept(m)
    <3>1. \A k \in 1..m : k \in 1..m-1 \/ k = m
      BY <1>4
    <3> QED BY <1>6, <3>1 DEF KindsKept
  <2> QED BY <1>1, <1>4, <1>6, <2>1, SlotsAgree
<1>12. /\ v.top = m /\ v.lanes = Running /\ v.locals = locals /\ v.argument = argument
       /\ v.early = early /\ v.value = returned /\ v.own = own /\ v.pointee = pointee
       /\ w.top = m /\ w.lanes = Running' /\ w.locals = c.locals /\ w.argument = c.argument
       /\ w.early = early /\ w.value = NoValue /\ w.own = own /\ w.pointee = pointee
  BY <1>3, <1>4, <1>6, <1>7, FieldsAfter DEF Fields
<1>13. Within(f, slot)
  <2>1. \A l \in Lanes : \/ wait'[l] = wait[l]
                         \/ (wait[l] = 0 \/ wait[l] >= f) /\ (wait'[l] = 0 \/ wait'[l] >= f)
    BY <1>7, <1>8, <1>9, <1>4 DEF Running, At
  <2>2. \A k \in f+1..m : nest'[k].kind # "call"
    <3>1. \A k \in f+1..m : k \in 1..m-1 \/ k = m
      BY <1>4
    <3> QED BY <1>4, <1>6, <3>1
  <2>3. \A k \in 1..f : k \in 1..m-1
    BY <1>4, <1>8
  <2> QED BY <1>3, <1>4, <1>6, <1>7, <2>1, <2>2, <2>3 DEF Within
<1>14. At(f)' = At(f)
  BY <1>8, <1>10
<1>15. \A L, A, l : Own(v, L, A, l) => Own(w, L, A, l)
  BY <1>12 DEF Own
<1>16. ASSUME NEW l \in w.lanes PROVE Own(w, w.locals, w.argument, l)
  <2>1. Homes(v, m, slot) /\ l \in At(m)
    BY <1>4, <1>8, <1>10, <1>12, <1>16 DEF ViewOk
  <2>2. Own(v, stack[m].locals, stack[m].argument, l)
    BY <1>6, <2>1 DEF Homes
  <2> QED BY <1>3, <1>12, <1>15, <2>2
<1>17. /\ stack'[m].accepted.locals = locals /\ stack'[m].accepted.argument = argument
       /\ stack'[m].accepted.value = returned /\ stack'[m].accepted.mask = Running
  <2>1. Arm(c.before).mask = Running
    BY <1>1, <1>3, <1>6, <1>9, ArmTells DEF Inner, ArmKinds
  <2> QED BY <1>6, <2>1 DEF Arm
<1>18. ASSUME NEW k \in f+1..w.top PROVE Homes(w, k, s)'
  <2>1. CASE k = m
    <3>1. \A l \in At(m)' : Own(w, stack'[m].accepted.locals, stack'[m].accepted.argument, l)
      BY <1>4, <1>10, <1>12, <1>15, <1>17 DEF ViewOk
    <3> QED BY <1>6, <2>1, <3>1 DEF Homes
  <2>2. CASE k # m
    <3>1. k \in 1..m-1 /\ k \in f+1..m /\ Homes(v, k, slot)
      BY <1>4, <1>12, <2>2 DEF ViewOk
    <3>2. At(k)' = At(k) /\ nest'[k] = nest[k] /\ stack'[k] = stack[k] /\ s[k] = slot[k]
      BY <1>4, <1>6, <1>10, <1>11, <3>1
    <3>3. stack'[k + 1].locals = stack[k + 1].locals /\ stack'[k + 1].argument = stack[k + 1].argument
      <4>1. k + 1 \in 1..m-1 \/ k + 1 = m
        BY <1>4, <3>1
      <4> QED BY <1>3, <1>6, <4>1
    <3> QED BY <1>7, <1>12, <2>2, <3>1, <3>2, <3>3, HomesStay
  <2> QED BY <2>1, <2>2
<1>19. ASSUME NEW k \in f+1..m, k # m PROVE ArmsStay(f, k)
  <2>1. \A i \in f+1..k : i \in 1..m-1
    BY <1>4, <1>19
  <2> QED BY <1>6, <2>1 DEF ArmsStay
<1>20. ASSUME NEW l \in At(f)'
       PROVE  Left(w, f, l)' /\ \A k \in f+1..w.top : LeftArm(w, f, k, l)'
  <2>1. l \in At(f) /\ Left(v, f, l) /\ \A k \in f+1..m : LeftArm(v, f, k, l)
    BY <1>4, <1>12, <1>14 DEF ViewOk
  <2>2. \A x : Answers(v, x, l) => Answers(w, x, l)'
    BY <1>7, <1>12 DEF Answers
  <2>3. Reaches(f, m - 1, l)' <=> Reaches(f, m - 1, l)
    <3>1. ArmsStay(f, m - 1)
      <4>1. \A i \in f+1..m-1 : i \in 1..m-1
        BY <1>4
      <4> QED BY <1>6, <4>1 DEF ArmsStay
    <3> QED BY <1>4, <3>1, ReachesStays
  <2>4. /\ Reaches(f, m, l) <=> Reaches(f, m - 1, l)
        /\ Reaches(f, m, l)' <=> Reaches(f, m - 1, l)' /\ ~Elsewhere(m, l)'
    <3>1. \A i : i \in f+1..m <=> i \in f+1..m-1 \/ i = m
      BY <1>4, <1>8
    <3>2. ~Elsewhere(m, l)
      BY <1>6 DEF Elsewhere
    <3> QED BY <3>1, <3>2 DEF Reaches
  <2>5. Reaches(f, m - 1, l) => argument[l] = pointee[l] /\ Answers(v, returned, l)
    BY <1>12, <2>1, <2>4 DEF Left
  <2>6. Reaches(f, m - 1, l) /\ l \notin c.parent => Answers(v, NoValue, l) /\ c.argument[l] = pointee[l]
    <3>1. LeftArm(v, f, m, l) /\ IsArm(m)
      BY <1>6, <1>8, <2>1 DEF IsArm, ArmKinds
    <3> QED BY <1>3, <1>12, <3>1 DEF LeftArm
  <2>7. Elsewhere(m, l)' <=> l \in c.parent
    <3>1. l \notin At(m)
      BY <1>8, <2>1 DEF At
    <3> QED BY <1>6, <1>9, <3>1 DEF Elsewhere
  <2>8. Left(w, f, l)'
    BY <1>12, <2>2, <2>3, <2>4, <2>6, <2>7 DEF Left
  <2>9. ASSUME NEW k \in f+1..w.top PROVE LeftArm(w, f, k, l)'
    <3>1. CASE k # m
      <4>1. k \in f+1..m /\ LeftArm(v, f, k, l) /\ ArmsStay(f, k)
        BY <1>12, <1>19, <2>1, <3>1
      <4> QED BY <1>4, <1>12, <2>2, <4>1, LeftArmStays
    <3>2. CASE k = m
      <4>1. SUFFICES ASSUME Reaches(f, m - 1, l) PROVE LeftArm(w, f, m, l)'
        BY <2>3, <3>2 DEF LeftArm
      <4>2. PICK a : a = returned
        OBVIOUS
      <4>3. argument[l] = pointee[l] /\ Answers(w, a, l)' /\ a = stack'[m].accepted.value
        BY <1>17, <2>2, <2>5, <4>1, <4>2
      <4>4. Answers(w, stack[m].accepted.value, l)'
        BY <4>3
      <4>5. l \notin stack'[m].parent => Answers(w, NoValue, l)' /\ stack'[m].argument[l] = w.pointee[l]
        BY <1>6, <1>12, <2>2, <2>6, <4>1
      <4>6. stack'[m].accepted.argument[l] = w.pointee[l]
        BY <1>12, <1>17, <4>3
      <4> QED BY <4>4, <4>5, <4>6 DEF LeftArm
    <3> QED BY <3>1, <3>2
  <2> QED BY <2>8, <2>9
<1>21. ASSUME NEW k \in f+1..w.top PROVE ArmShape(f, k, s)'
  <2>0. k \in f+1..m /\ k \in 1..m /\ ArmShape(f, k, slot)
    BY <1>4, <1>12 DEF ViewOk
  <2>1. CASE k # m
    <3>1. k \in 1..m-1
      BY <1>4, <2>0, <2>1
    <3>2. BreaksOf(k, s)' = BreaksOf(k, slot)
      BY <1>7, <1>11, <2>0 DEF BreaksOf
    <3> QED BY <1>4, <1>10, <1>14, <1>19, <2>0, <2>1, <3>1, <3>2, ArmShapeStays
  <2>2. CASE k = m
    <3>1. stack'[m].accepted.mask \subseteq stack'[m].condition
      BY <1>6, <1>9, <1>17
    <3>2. ASSUME stack'[m].accepted.value # NoValue
          PROVE  stack'[m].parent \cap stack'[m].condition \subseteq At(f)'
      <4>1. returned # NoValue /\ Running = {}
        BY <1>1, <1>17, <3>2 DEF Live
      <4>2. c.before.breaks = SwitchBreakCount
        BY <1>7, <4>1 DEF MayEndArm
      <4>3. SwitchBreakCount = BreaksOf(m, slot)
        <5>1. slot[m] = Len(breaks)
          BY <1>1, <1>3 DEF Slots
        <5> QED BY <1>1, <5>1, EdgesNow DEF BreaksOf
      <4>4. Start(m) \subseteq Inside(m) \cup At(f)
        BY <1>3, <1>6, <2>0, <2>2, <4>2, <4>3 DEF ArmShape, IsArm, ArmKinds
      <4>5. Start(m) = c.parent \cap c.condition
        BY <1>3, <1>6 DEF Start
      <4> QED BY <1>6, <1>9, <1>14, <4>1, <4>4, <4>5
    <3>3. stack'[m].before.breaks = BreaksOf(m, s)' => Start(m)' \subseteq Inside(m)'
      <4>1. stack'[m].before.returns = Len(early)
        BY <1>1, <1>6, EdgesNow
      <4>2. r[m] = Len(early)
        BY <1>1, <1>6, <1>7 DEF Returns
      <4>3. ~Pending(m)'
        <5>1. \A j \in m+1..m : FALSE
          BY <1>4
        <5> QED BY <1>6, <1>7, <5>1 DEF Pending
      <4>4. EdgesTell(m, s, r)'
        BY <1>1, <1>4, <1>6
      <4>5. IsArm(m)'
        BY <1>6 DEF IsArm, ArmKinds
      <4> QED BY <4>1, <4>2, <4>3, <4>4, <4>5 DEF EdgesTell
    <3>4. ASSUME NEW j \in f+1..m-1, IsArm(j)' PROVE stack'[m].parent \subseteq Start(j)'
      <4>1. j \in 1..m-1
        BY <1>4
      <4>2. IsArm(j) /\ Start(j)' = Start(j)
        BY <1>6, <3>4, <4>1 DEF IsArm, Start
      <4>3. IsArm(m)
        BY <1>6 DEF IsArm, ArmKinds
      <4> QED BY <1>3, <1>6, <2>0, <2>2, <4>2, <4>3 DEF ArmShape
    <3> QED BY <2>2, <3>1, <3>2, <3>3, <3>4 DEF ArmShape
  <2> QED BY <2>1, <2>2
<1>22. Covered(w.early) \subseteq At(f)'
  BY <1>4, <1>12, <1>14 DEF ViewOk
<1>23. ViewOk(w, f, s)'
  BY <1>16, <1>18, <1>20, <1>21, <1>22 DEF ViewOk
<1> QED BY <1>1, <1>3, <1>7, <1>13, <1>23, WithinKeeps DEF ValuesOk

-----------------------------------------------------------------------------
(* The merge of two arms, lane by lane.                                    *)
LEMMA MergedValues ==
    ASSUME NEW c \in ArmFrame, NEW a \in ArmResult, NEW b \in ArmResult, Merge(c, a, b), NEW l \in Lanes
    PROVE  /\ argument'[l] = IF l \in c.condition THEN a.argument[l] ELSE b.argument[l]
           /\ l \in c.condition /\ a.value = NoValue => \A x \in Locals : locals'[x][l] = a.locals[x][l]
           /\ l \notin c.condition /\ b.value = NoValue => \A x \in Locals : locals'[x][l] = b.locals[x][l]
<1>1. argument'[l] = IF l \in c.condition THEN a.argument[l] ELSE b.argument[l]
  BY DEF Merge, MergedArgument, Select
<1>2. CASE a.value = NoValue /\ b.value = NoValue
  <2>1. locals' = [x \in Locals |-> Select(c.condition, a.locals[x], b.locals[x])]
    BY <1>2 DEF Merge
  <2>2. \A x \in Locals : locals'[x][l] = IF l \in c.condition THEN a.locals[x][l] ELSE b.locals[x][l]
    BY <2>1 DEF Select
  <2> QED BY <1>1, <2>2
<1>3. CASE a.value # NoValue /\ b.value = NoValue
  BY <1>1, <1>3 DEF Merge
<1>4. CASE a.value = NoValue /\ b.value # NoValue
  BY <1>1, <1>4 DEF Merge
<1> QED BY <1>1, <1>2, <1>3, <1>4

LEMMA MergedAnswers ==
    ASSUME LowererType, NEW c \in ArmFrame, NEW a \in ArmResult, NEW b \in ArmResult, Merge(c, a, b),
           given' = given, NEW v, v.early = early, NEW w, w.early = early', NEW l \in Lanes,
           NEW reaches, l \in c.parent => reaches,
           reaches => /\ l \in c.parent \cap c.condition => Answers(v, a.value, l)
                      /\ l \in c.parent \ c.condition => Answers(v, b.value, l)
                      /\ l \notin c.parent => Answers(v, NoValue, l)
    PROVE  /\ \A x : Answers(v, x, l) => Answers(w, x, l)'
           /\ reaches => \A x : x = returned' => Answers(w, x, l)'
<1>1. /\ early \in Seq(EarlyReturn) /\ c.parent \subseteq Lanes
      /\ a.value \in Word \cup {NoValue} /\ b.value \in Word \cup {NoValue}
  BY DEF LowererType, ArmFrame, ArmResult
<1>2. ASSUME NEW e \in EarlyReturn, early' = Append(early, e),
             l \in e.lanes /\ l \notin Covered(early) => e.value[l] = given[l],
             returned' = NoValue,
             reaches /\ l \notin Covered(early) => l \in e.lanes
      PROVE  /\ \A x : Answers(v, x, l) => Answers(w, x, l)'
             /\ reaches => \A x : x = returned' => Answers(w, x, l)'
  <2>1. /\ Covered(early') = Covered(early) \cup e.lanes
        /\ l \in Covered(early) => early'[First(early', l)] = early[First(early, l)]
        /\ l \in e.lanes /\ l \notin Covered(early) => early'[First(early', l)] = e
    <3>1. PICK o : o = early
      OBVIOUS
    <3> DEFINE more == Append(o, e)
    <3>2. o \in Seq(EarlyReturn) /\ e \in EarlyReturn
      BY <1>1, <1>2, <3>1
    <3>3. /\ Covered(more) = Covered(o) \cup e.lanes
          /\ \A i \in Covered(o) : more[First(more, i)] = o[First(o, i)]
          /\ \A i \in e.lanes : i \notin Covered(o) => more[First(more, i)] = e
      BY <3>2, FirstAppended
    <3> QED BY <1>2, <3>1, <3>3
  <2>2. \A x : Answers(v, x, l) => Answers(w, x, l)'
    BY <1>2, <2>1 DEF Answers
  <2>3. ASSUME reaches PROVE \A x : Answers(w, x, l)'
    <3>1. CASE l \in Covered(early)
      <4>1. Answers(v, a.value, l) \/ Answers(v, b.value, l) \/ Answers(v, NoValue, l)
        BY <2>3
      <4>2. early[First(early, l)].value[l] = given[l]
        BY <3>1, <4>1 DEF Answers
      <4> QED BY <2>1, <3>1, <4>2 DEF Answers
    <3>2. CASE l \notin Covered(early)
      BY <1>2, <2>1, <2>3, <3>2 DEF Answers
    <3> QED BY <3>1, <3>2
  <2> QED BY <2>2, <2>3
<1>3. CASE a.value # NoValue /\ b.value # NoValue
  <2>1. early' = early /\ returned' = Select(c.condition, a.value, b.value)
    BY <1>3 DEF Merge
  <2>2. returned' # NoValue
    BY <1>1, <1>3, <2>1, SelectType, Assumptions
  <2>3. returned'[l] = IF l \in c.condition THEN a.value[l] ELSE b.value[l]
    BY <2>1 DEF Select
  <2>4. \A x : Answers(v, x, l) => Answers(w, x, l)'
    BY <2>1 DEF Answers
  <2>5. ASSUME reaches, NEW x, x = returned' PROVE Answers(w, x, l)'
    <3>1. CASE l \in Covered(early)
      <4>1. Answers(v, a.value, l) \/ Answers(v, b.value, l) \/ Answers(v, NoValue, l)
        BY <2>5
      <4> QED BY <2>1, <3>1, <4>1 DEF Answers
    <3>2. CASE l \notin Covered(early)
      <4>1. l \in c.parent
        BY <2>5, <3>2 DEF Answers
      <4>2. x[l] = given[l]
        BY <2>3, <2>5, <3>2, <4>1 DEF Answers
      <4> QED BY <2>1, <2>2, <2>5, <3>2, <4>2 DEF Answers
    <3> QED BY <3>1, <3>2
  <2> QED BY <2>4, <2>5
<1>4. CASE a.value # NoValue /\ b.value = NoValue
  <2>1. PICK e : e = [lanes |-> c.parent \cap c.condition, value |-> a.value]
    OBVIOUS
  <2>2. e \in EarlyReturn /\ early' = Append(early, e) /\ returned' = NoValue
    BY <1>1, <1>4, <2>1 DEF Merge, EarlyReturn
  <2>3. l \in e.lanes /\ l \notin Covered(early) => e.value[l] = given[l]
    BY <2>1 DEF Answers
  <2>4. reaches /\ l \notin Covered(early) => l \in e.lanes
    BY <1>4, <2>1 DEF Answers
  <2> QED BY <1>2, <2>2, <2>3, <2>4
<1>5. CASE a.value = NoValue /\ b.value # NoValue
  <2>1. PICK e : e = [lanes |-> c.parent \ c.condition, value |-> b.value]
    OBVIOUS
  <2>2. e \in EarlyReturn /\ early' = Append(early, e) /\ returned' = NoValue
    BY <1>1, <1>5, <2>1 DEF Merge, EarlyReturn
  <2>3. l \in e.lanes /\ l \notin Covered(early) => e.value[l] = given[l]
    BY <2>1 DEF Answers
  <2>4. reaches /\ l \notin Covered(early) => l \in e.lanes
    BY <1>5, <2>1 DEF Answers
  <2> QED BY <1>2, <2>2, <2>3, <2>4
<1>6. CASE a.value = NoValue /\ b.value = NoValue
  <2>1. early' = early /\ returned' = NoValue
    BY <1>6 DEF Merge
  <2>2. \A x : Answers(v, x, l) => Answers(w, x, l)'
    BY <2>1 DEF Answers
  <2>3. reaches => Answers(v, NoValue, l)
    BY <1>6
  <2> QED BY <2>1, <2>2, <2>3
<1> QED BY <1>3, <1>4, <1>5, <1>6

(* The early return a merge adds covers lanes of the two arms.             *)
LEMMA MergedCovered ==
    ASSUME LowererType, NEW c \in ArmFrame, NEW a \in ArmResult, NEW b \in ArmResult, Merge(c, a, b),
           NEW S, Covered(early) \subseteq S,
           a.value # NoValue => c.parent \cap c.condition \subseteq S,
           b.value # NoValue => c.parent \ c.condition \subseteq S
    PROVE  Covered(early') \subseteq S
<1>1. /\ early \in Seq(EarlyReturn) /\ c.parent \subseteq Lanes
      /\ a.value \in Word \cup {NoValue} /\ b.value \in Word \cup {NoValue}
  BY DEF LowererType, ArmFrame, ArmResult
<1>2. CASE a.value # NoValue /\ b.value = NoValue
  <2>1. PICK e : e = [lanes |-> c.parent \cap c.condition, value |-> a.value]
    OBVIOUS
  <2>2. e \in EarlyReturn /\ early' = Append(early, e)
    BY <1>1, <1>2, <2>1 DEF Merge, EarlyReturn
  <2>3. Covered(early') = Covered(early) \cup e.lanes
    BY <1>1, <2>2, CoveredAppend
  <2> QED BY <1>2, <2>1, <2>3
<1>3. CASE a.value = NoValue /\ b.value # NoValue
  <2>1. PICK e : e = [lanes |-> c.parent \ c.condition, value |-> b.value]
    OBVIOUS
  <2>2. e \in EarlyReturn /\ early' = Append(early, e)
    BY <1>1, <1>3, <2>1 DEF Merge, EarlyReturn
  <2>3. Covered(early') = Covered(early) \cup e.lanes
    BY <1>1, <2>2, CoveredAppend
  <2> QED BY <1>3, <2>1, <2>3
<1>4. CASE a.value = NoValue <=> b.value = NoValue
  BY <1>4 DEF Merge
<1> QED BY <1>2, <1>3, <1>4

(* The lanes that have left the function find their values behind a merge. *)
LEMMA LeftMerged ==
    ASSUME LowererType, NEW f \in Nat, NEW d \in Nat, f <= d, NEW m, m = d + 1,
           NEW c \in ArmFrame, NEW a \in ArmResult, NEW b \in ArmResult, Merge(c, a, b),
           c = stack[m], IsArm(m), given' = given, ArmsStay(f, d), NEW slot,
           NEW v, ViewOk(v, f, slot), v.top = m, v.early = early, v.argument = argument, v.value = returned,
           NEW w, w.top = d, w.early = early', w.argument = argument', w.value = returned',
           w.pointee = v.pointee, NEW l \in At(f), l \in Lanes,
           nest[m].kind = "else" => a = c.accepted /\ b.value = returned /\ b.argument = argument,
           nest[m].kind # "else" => /\ a.value = returned /\ a.argument = argument
                                    /\ b.argument = c.argument /\ l \notin c.parent \ c.condition
    PROVE  Left(w, f, l)' /\ \A k \in f+1..w.top : LeftArm(w, f, k, l)'
<1>1. m \in f+1..m /\ m - 1 = d /\ \A i : i \in f+1..m <=> i \in f+1..d \/ i = m
  OBVIOUS
<1>2. Left(v, f, l) /\ LeftArm(v, f, m, l) /\ \A k \in f+1..d : LeftArm(v, f, k, l)
  BY <1>1 DEF ViewOk
<1>3. Reaches(f, m, l) <=> Reaches(f, d, l) /\ ~Elsewhere(m, l)
  BY <1>1 DEF Reaches
<1>4. Elsewhere(m, l) <=> nest[m].kind = "else" /\ l \in c.parent \cap c.condition
  BY DEF Elsewhere
<1>5. Reaches(f, d, l) /\ ~Elsewhere(m, l) => argument[l] = v.pointee[l] /\ Answers(v, returned, l)
  BY <1>2, <1>3 DEF Left
<1>6. Reaches(f, d, l) =>
         /\ Elsewhere(m, l) => a.argument[l] = v.pointee[l] /\ Answers(v, a.value, l)
         /\ l \notin c.parent =>
               /\ Answers(v, NoValue, l) /\ c.argument[l] = v.pointee[l]
               /\ nest[m].kind = "else" => a.argument[l] = v.pointee[l]
  <2>1. Reaches(f, d, l) /\ Elsewhere(m, l) => a.argument[l] = v.pointee[l] /\ Answers(v, a.value, l)
    <3>1. CASE Elsewhere(m, l)
      <4>1. a = stack[m].accepted
        BY <1>4, <3>1
      <4> QED BY <1>1, <1>2, <3>1, <4>1 DEF LeftArm
    <3> QED BY <3>1
  <2>2. ASSUME nest[m].kind = "else" PROVE a = stack[m].accepted
    BY <2>2
  <2> QED BY <1>1, <1>2, <2>1, <2>2 DEF LeftArm
<1>7. l \in c.parent => Reaches(f, d, l)
  <2>1. SUFFICES ASSUME l \in c.parent, NEW i \in f+1..d PROVE ~Elsewhere(i, l)
    BY DEF Reaches
  <2>2. ArmShape(f, m, slot)
    BY <1>1 DEF ViewOk
  <2>3. IsArm(i) => l \in Start(i)
    BY <1>1, <2>1, <2>2 DEF ArmShape
  <2> QED BY <2>3 DEF Elsewhere, Start, IsArm, ArmKinds
<1>8. Reaches(f, d, l) => /\ l \in c.parent \cap c.condition => Answers(v, a.value, l)
                          /\ l \in c.parent \ c.condition => Answers(v, b.value, l)
                          /\ l \notin c.parent => Answers(v, NoValue, l)
  <2>1. SUFFICES ASSUME Reaches(f, d, l)
                 PROVE  /\ l \in c.parent \cap c.condition => Answers(v, a.value, l)
                        /\ l \in c.parent \ c.condition => Answers(v, b.value, l)
    BY <1>6
  <2>2. PICK p, q : p = a.value /\ q = b.value
    OBVIOUS
  <2>3. CASE nest[m].kind = "else"
    BY <1>4, <1>5, <1>6, <2>1, <2>3
  <2>4. CASE nest[m].kind # "else"
    BY <1>4, <1>5, <2>1, <2>4
  <2> QED BY <2>3, <2>4
<1>9. argument'[l] = IF l \in c.condition THEN a.argument[l] ELSE b.argument[l]
  BY MergedValues
<1>10. Reaches(f, d, l) => argument'[l] = v.pointee[l]
  BY <1>4, <1>5, <1>6, <1>9
<1>11. /\ \A x : Answers(v, x, l) => Answers(w, x, l)'
       /\ Reaches(f, d, l) => \A x : x = returned' => Answers(w, x, l)'
  <2>1. PICK reaches \in BOOLEAN : reaches <=> Reaches(f, d, l)
    OBVIOUS
  <2>2. /\ l \in c.parent => reaches
        /\ reaches => /\ l \in c.parent \cap c.condition => Answers(v, a.value, l)
                      /\ l \in c.parent \ c.condition => Answers(v, b.value, l)
                      /\ l \notin c.parent => Answers(v, NoValue, l)
    BY <1>7, <1>8, <2>1
  <2>3. /\ \A x : Answers(v, x, l) => Answers(w, x, l)'
        /\ reaches => \A x : x = returned' => Answers(w, x, l)'
    BY <2>2, MergedAnswers
  <2> QED BY <2>1, <2>3
<1>12. Left(w, f, l)'
  <2>1. Reaches(f, d, l)' <=> Reaches(f, d, l)
    BY ReachesStays
  <2>2. Reaches(f, d, l) => Answers(w, w.value, l)'
    BY <1>11
  <2> QED BY <1>10, <2>1, <2>2 DEF Left
<1>13. ASSUME NEW k \in f+1..w.top PROVE LeftArm(w, f, k, l)'
  <2>1. k \in f+1..d /\ k \in Nat /\ k > f
    BY <1>13
  <2>2. ArmsStay(f, k)
    BY <2>1 DEF ArmsStay
  <2> QED BY <1>2, <1>11, <2>1, <2>2, LeftArmStays
<1> QED BY <1>12, <1>13

(* The end of a conditional.                                               *)
LEMMA EndIfValues ==
    ASSUME ~ReturnAfterBreak,
           NEW slot, NEW returns, NEW s, NEW r, Between(slot, returns, s, r), EndIf
    PROVE  ValuesOk(s)'
<1>1. /\ MeaningType /\ LowererType /\ Nesting /\ Slots(slot) /\ Slots(s)' /\ Depth \in Nat /\ Depth > 0
      /\ Inductive(slot, returns) /\ ValuesOk(slot) /\ Inductive(s, r)' /\ Live
      /\ MeaningType' /\ LowererType' /\ Returns(returns)
      /\ \A k \in 1..Depth : Waiting(k, slot) /\ EdgesTell(k, slot, returns)
      /\ \A l \in Lanes : wait[l] \in 0..Depth
  BY BetweenFacts
<1>2. PICK v, f : Now(v, f, slot)
  BY <1>1, NowIs
<1>3. PICK m, w, c, a, b, d :
         /\ m = Depth /\ w = Current' /\ c = stack[m] /\ a = c.accepted /\ b = Arm(c.before) /\ d = m - 1
  OBVIOUS
<1>4. /\ Fields(v) /\ ViewOk(v, f, slot) /\ f \in 1..m /\ f \in Nat /\ IsCall(f) /\ SameFunction(f, Depth)
      /\ \A k \in f+1..m : k \in 1..m /\ k \in Nat /\ k > f /\ nest[k].kind # "call"
      /\ m \in 1..m /\ m \in Nat
  BY <1>1, <1>2, <1>3 DEF Now
<1>5. /\ nest[m].kind = "else" /\ wait' = Resume /\ Merge(c, a, b) /\ MayEndArm(c.before)
      /\ UNCHANGED <<breaks, own, pointee, given, memory, output>>
  BY <1>3 DEF EndIf, RunEndIf, Merge, Inner, Top
<1>6. /\ AcceptedArm(m) /\ At(m) = a.mask /\ EdgesTell(m, slot, returns) /\ Inside(m) = Running
      /\ Inside(m) \subseteq c.parent \ c.condition
  <2>1. Waiting(m, slot) /\ EdgesTell(m, slot, returns)
    BY <1>1, <1>3, <1>4
  <2>2. Inside(m) = Running
    BY <1>1, <1>3, InsideTop
  <2> QED BY <1>3, <1>5, <2>1, <2>2 DEF Waiting, EdgesTell, IsArm, ArmKinds, Start
<1>7. /\ Closed(Depth - 1) /\ \A k \in 1..Depth - 1 : stack'[k] = stack[k]
      /\ Depth > 1 /\ c \in ArmFrame /\ a \in ArmResult /\ b \in ArmResult
  BY <1>1, <1>3, <1>6, EndIfTypes DEF Inner
<1>8. Leaving(d)
  BY <1>1, <1>3, <1>5, <1>7 DEF Leaving
<1>9. /\ Depth' = d /\ Depth = m /\ m = d + 1 /\ d \in Nat /\ d > 0 /\ d \in 1..m
      /\ nest[d].kind # "switch" /\ KindsKept(d)
      /\ Running' = Running \cup At(m)
      /\ \A k \in 1..d : /\ nest'[k] = nest[k] /\ stack'[k] = stack[k]
                         /\ At(k)' = At(k) /\ Inside(k)' = Inside(k)
  BY <1>3, <1>4, <1>7, <1>8, LeavingFacts DEF Leaving, Closed
<1>10. f \in 1..d /\ f <= d /\ m \in f+1..m
  <2>1. f # m
    BY <1>4, <1>5 DEF IsCall
  <2> QED BY <1>4, <1>9, <2>1
<1>11. \A k \in 1..d : s[k] = slot[k]
  BY <1>1, <1>3, <1>9, SlotsAgree
<1>12. /\ v.top = m /\ v.lanes = Running /\ v.locals = locals /\ v.argument = argument
       /\ v.early = early /\ v.value = returned /\ v.own = own /\ v.pointee = pointee
       /\ w.top = d /\ w.lanes = Running' /\ w.locals = locals' /\ w.argument = argument'
       /\ w.early = early' /\ w.value = returned' /\ w.own = own /\ w.pointee = pointee
  BY <1>3, <1>4, <1>5, <1>9, FieldsAfter DEF Fields
<1>13. /\ ArmShape(f, m, slot) /\ IsArm(m)
       /\ a.mask \subseteq c.condition
       /\ a.value # NoValue => a.mask = {} /\ c.parent \cap c.condition \subseteq At(f)
       /\ b.locals = locals /\ b.argument = argument /\ b.value = returned
  <2>1. ArmShape(f, m, slot) /\ IsArm(m)
    BY <1>4, <1>5, <1>10, <1>12 DEF ViewOk, IsArm, ArmKinds
  <2> QED BY <1>3, <1>5, <1>6, <2>1 DEF ArmShape, AcceptedArm, Arm
<1>14. Within(f, slot)
  <2>1. \A l \in Lanes : wait'[l] = wait[l] \/ (wait[l] >= f /\ wait'[l] = 0)
    BY <1>3, <1>4, <1>5 DEF Resume
  <2>2. \A k \in f+1..d : nest'[k].kind # "call"
    <3>1. \A k \in f+1..d : k \in 1..d /\ k \in f+1..m
      BY <1>4, <1>9
    <3> QED BY <1>4, <1>9, <3>1
  <2>3. \A k \in 1..f : k \in 1..d
    BY <1>9, <1>10
  <2> QED BY <1>3, <1>4, <1>5, <1>9, <1>10, <2>1, <2>2, <2>3 DEF Within
<1>15. At(f)' = At(f) /\ At(f) \subseteq Lanes
  BY <1>9, <1>10 DEF At
<1>16. \A L, A, l : Own(v, L, A, l) => Own(w, L, A, l)
  BY <1>12 DEF Own
<1>17. ASSUME NEW l \in w.lanes PROVE Own(w, w.locals, w.argument, l)
  <2>0. l \in Lanes
    BY <1>12, <1>17 DEF Running
  <2>1. /\ argument'[l] = IF l \in c.condition THEN a.argument[l] ELSE argument[l]
        /\ l \in c.condition /\ a.value = NoValue => \A x \in Locals : locals'[x][l] = a.locals[x][l]
        /\ l \notin c.condition /\ returned = NoValue => \A x \in Locals : locals'[x][l] = locals[x][l]
    <3>1. /\ argument'[l] = IF l \in c.condition THEN a.argument[l] ELSE b.argument[l]
          /\ l \in c.condition /\ a.value = NoValue => \A x \in Locals : locals'[x][l] = a.locals[x][l]
          /\ l \notin c.condition /\ b.value = NoValue => \A x \in Locals : locals'[x][l] = b.locals[x][l]
      BY <1>5, <1>7, <2>0, MergedValues
    <3> QED BY <1>13, <3>1
  <2>2. CASE l \in Running
    <3>1. Own(v, locals, argument, l) /\ l \notin c.condition
      BY <1>4, <1>6, <1>12, <2>2 DEF ViewOk
    <3>2. returned = NoValue
      BY <1>1, <2>2 DEF Live
    <3> QED BY <1>12, <2>1, <3>1, <3>2 DEF Own
  <2>3. CASE l \in At(m)
    <3>1. Homes(v, m, slot)
      BY <1>4, <1>10, <1>12 DEF ViewOk
    <3>2. Own(v, stack[m].accepted.locals, stack[m].accepted.argument, l)
      BY <1>5, <2>3, <3>1 DEF Homes
    <3>3. l \in c.condition /\ a.value = NoValue
      BY <1>6, <1>13, <2>3
    <3> QED BY <1>3, <1>12, <2>1, <3>2, <3>3 DEF Own
  <2> QED BY <1>9, <1>12, <1>17, <2>2, <2>3
<1>18. ASSUME NEW k \in f+1..w.top PROVE Homes(w, k, s)'
  <2>1. k \in 1..d /\ k \in f+1..m /\ Homes(v, k, slot) /\ k # m
    <3>1. k \in f+1..m /\ k \in 1..d /\ k # m
      BY <1>4, <1>9, <1>12
    <3> QED BY <1>4, <1>12, <3>1 DEF ViewOk
  <2>2. At(k)' = At(k) /\ nest'[k] = nest[k] /\ stack'[k] = stack[k] /\ s[k] = slot[k]
    BY <1>9, <1>11, <2>1
  <2>3. nest[k].kind = "switch" => /\ k # w.top
                                   /\ stack'[k + 1].locals = stack[k + 1].locals
                                   /\ stack'[k + 1].argument = stack[k + 1].argument
    <3>1. nest[k].kind = "switch" => k # d /\ k + 1 \in 1..d
      BY <1>9, <2>1
    <3> QED BY <1>9, <1>12, <3>1
  <2> QED BY <1>5, <1>12, <2>1, <2>2, <2>3, HomesStay
<1>19. ASSUME NEW k \in f+1..d PROVE ArmsStay(f, k)
  <2>1. \A i \in f+1..k : i \in 1..d
    BY <1>4, <1>9
  <2> QED BY <1>9, <2>1 DEF ArmsStay
<1>20. ASSUME NEW l \in At(f)'
       PROVE  Left(w, f, l)' /\ \A k \in f+1..w.top : LeftArm(w, f, k, l)'
  <2>1. l \in At(f) /\ l \in Lanes
    BY <1>15
  <2>2. ArmsStay(f, d)
    <3>1. \A i \in f+1..d : i \in 1..d
      BY <1>4, <1>9
    <3> QED BY <1>9, <3>1 DEF ArmsStay
  <2>3. /\ LowererType /\ f \in Nat /\ d \in Nat /\ f <= d /\ m = d + 1 /\ c \in ArmFrame
        /\ a \in ArmResult /\ b \in ArmResult /\ Merge(c, a, b) /\ c = stack[m] /\ IsArm(m)
        /\ given' = given /\ ViewOk(v, f, slot)
        /\ v.top = m /\ v.early = early /\ v.argument = argument /\ v.value = returned
        /\ w.top = d /\ w.early = early' /\ w.argument = argument' /\ w.value = returned'
        /\ w.pointee = v.pointee /\ nest[m].kind = "else"
        /\ a = c.accepted /\ b.value = returned /\ b.argument = argument
    BY <1>1, <1>3, <1>4, <1>5, <1>7, <1>9, <1>10, <1>12, <1>13
  <2> QED BY <2>1, <2>2, <2>3, LeftMerged
<1>21. Covered(w.early) \subseteq At(f)'
  <2>1. Covered(early) \subseteq At(f)
    BY <1>4, <1>12 DEF ViewOk
  <2>2. returned # NoValue => c.parent \ c.condition \subseteq At(f)
    <3>1. SUFFICES ASSUME returned # NoValue PROVE Start(m) \subseteq At(f)
      BY <1>3, <1>5 DEF Start
    <3>2. c.before.breaks = SwitchBreakCount /\ Running = {}
      BY <1>1, <1>5, <3>1 DEF MayEndArm, Live
    <3>3. SwitchBreakCount = BreaksOf(m, slot)
      <4>1. slot[m] = Len(breaks)
        BY <1>1, <1>3 DEF Slots
      <4> QED BY <1>1, <4>1, EdgesNow DEF BreaksOf
    <3> QED BY <1>3, <1>6, <1>13, <3>2, <3>3 DEF ArmShape
  <2>3. Covered(early') \subseteq At(f)
    BY <1>1, <1>5, <1>7, <1>13, <2>1, <2>2, MergedCovered
  <2> QED BY <1>12, <1>15, <2>3
<1>22. ASSUME NEW k \in f+1..w.top PROVE ArmShape(f, k, s)'
  <2>1. k \in 1..d /\ k \in f+1..d /\ k \in Nat /\ k > f /\ ArmShape(f, k, slot)
    <3>1. k \in f+1..m /\ k \in 1..d /\ k \in f+1..d
      BY <1>4, <1>9, <1>12
    <3> QED BY <1>4, <1>12, <3>1 DEF ViewOk
  <2>2. BreaksOf(k, s)' = BreaksOf(k, slot) /\ Inside(k)' = Inside(k)
    BY <1>5, <1>9, <1>11, <2>1 DEF BreaksOf
  <2> QED BY <1>4, <1>15, <1>19, <2>1, <2>2, ArmShapeStays
<1>23. ViewOk(w, f, s)'
  BY <1>17, <1>18, <1>20, <1>21, <1>22 DEF ViewOk
<1> QED BY <1>1, <1>3, <1>5, <1>14, <1>23, WithinKeeps DEF ValuesOk

(* The end of a switch case: its lanes wait for the end of the switch.     *)
LEMMA EndCaseValues ==
    ASSUME ~ReturnAfterBreak,
           NEW slot, NEW returns, NEW s, NEW r, Between(slot, returns, s, r), EndCase
    PROVE  ValuesOk(s)'
<1>1. /\ MeaningType /\ LowererType /\ Nesting /\ Slots(slot) /\ Slots(s)' /\ Depth \in Nat /\ Depth > 0
      /\ Inductive(slot, returns) /\ ValuesOk(slot) /\ Inductive(s, r)' /\ Live
      /\ MeaningType' /\ LowererType' /\ Returns(returns)
      /\ \A k \in 1..Depth : Waiting(k, slot) /\ CasesFind(k) /\ EdgesTell(k, slot, returns)
      /\ \A l \in Lanes : wait[l] \in 0..Depth
  BY BetweenFacts
<1>2. PICK v, f : Now(v, f, slot)
  BY <1>1, NowIs
<1>3. PICK m, w, c, a, b, d :
         /\ m = Depth /\ w = Current' /\ c = stack[m] /\ a = Arm(c.before) /\ b = EmptyArm(c) /\ d = m - 1
  OBVIOUS
<1>4. /\ Fields(v) /\ ViewOk(v, f, slot) /\ f \in 1..m /\ f \in Nat /\ IsCall(f) /\ SameFunction(f, Depth)
      /\ \A k \in f+1..m : k \in 1..m /\ k \in Nat /\ k > f /\ nest[k].kind # "call"
      /\ m \in 1..m /\ m \in Nat
  BY <1>1, <1>2, <1>3 DEF Now
<1>5. /\ nest[m].kind = "case" /\ wait' = Park(Running, d) /\ Merge(c, a, b) /\ MayEndArm(c.before)
      /\ UNCHANGED <<breaks, own, pointee, given, memory, output>>
  BY <1>3 DEF EndCase, RunEndCase, Merge, Inner, Top
<1>6. /\ At(m) = {} /\ EdgesTell(m, slot, returns) /\ Inside(m) = Running
      /\ Inside(m) \subseteq c.parent \cap c.condition
  <2>1. Waiting(m, slot) /\ EdgesTell(m, slot, returns)
    BY <1>1, <1>3, <1>4
  <2>2. Inside(m) = Running
    BY <1>1, <1>3, InsideTop
  <2> QED BY <1>3, <1>5, <2>1, <2>2 DEF Waiting, EdgesTell, IsArm, ArmKinds, Start
<1>7. d \in 1..m /\ d < m /\ m = d + 1 /\ nest[d].kind = "switch" /\ d \in Nat /\ d > 0
  <2>1. m # 1
    BY <1>1, <1>5 DEF Nesting
  <2>2. m \in 2..Depth
    BY <1>3, <1>4, <2>1
  <2>3. nest[m - 1].kind = "switch"
    BY <1>1, <1>5, <2>2 DEF Nesting
  <2> QED BY <1>3, <1>4, <2>1, <2>3
<1>8. /\ stack[d].todo # <<>> /\ At(d) = (c.parent \ c.condition) \cup Covered(breaks[slot[d]])
      /\ (c.parent \ c.condition) \cap Covered(breaks[slot[d]]) = {}
  <2>1. d \in 1..Depth /\ d < Depth /\ d # Depth /\ stack[d + 1] = c
    BY <1>3, <1>7
  <2>2. Waiting(d, slot) /\ CasesFind(d) /\ Outside(d) = c.parent \ c.condition
    BY <1>1, <2>1 DEF Outside
  <2> QED BY <1>7, <2>1, <2>2 DEF Waiting, CasesFind
<1>9. Closed(Depth - 1) /\ c \in ArmFrame /\ a \in ArmResult /\ b \in ArmResult
  <2>1. At(Depth) = {} /\ stack[Depth - 1].todo # <<>>
    BY <1>3, <1>6, <1>8
  <2> QED BY <1>1, <1>3, <2>1, EndCaseTypes DEF Inner
<1>10. /\ Depth' = d /\ Depth = m /\ KindsKept(d)
       /\ (\A k \in 1..d : nest'[k] = nest[k]) /\ (\A j \in 1..d-1 : stack'[j] = stack[j])
  BY <1>3, <1>9 DEF Closed, KindsKept
<1>11. /\ Running' = {} /\ At(d)' = At(d) \cup Running
       /\ \A k \in 1..d - 1 : At(k)' = At(k) /\ Inside(k)' = Inside(k)
  <2>1. \A l \in Lanes : wait[l] \in Nat /\ wait'[l] = IF wait[l] = 0 THEN d ELSE wait[l]
    BY <1>1, <1>5 DEF Park, Running
  <2>2. \A l \in Lanes : \A k \in 1..d - 1 :
           /\ wait'[l] = k <=> wait[l] = k
           /\ (wait'[l] = 0 \/ wait'[l] > k) <=> (wait[l] = 0 \/ wait[l] > k)
    BY <1>7, <2>1
  <2>3. \A l \in Lanes : wait'[l] # 0 /\ (wait'[l] = d <=> wait[l] = d \/ wait[l] = 0)
    BY <1>7, <2>1
  <2> QED BY <2>2, <2>3 DEF At, Inside, Running
<1>12. f \in 1..d-1 /\ f < d /\ m \in f+1..m /\ d \in f+1..m
  <2>1. f # m /\ f # d
    BY <1>4, <1>5, <1>7 DEF IsCall
  <2> QED BY <1>4, <1>7, <2>1
<1>13. \A k \in 1..d : s[k] = slot[k]
  <2>1. d \in 1..Depth /\ d <= Depth' /\ Depth' \in Nat
    BY <1>7, <1>10
  <2> QED BY <1>1, <1>10, <2>1, SlotsAgree
<1>14. /\ v.top = m /\ v.lanes = Running /\ v.locals = locals /\ v.argument = argument
       /\ v.early = early /\ v.value = returned /\ v.own = own /\ v.pointee = pointee
       /\ w.top = d /\ w.lanes = {} /\ w.locals = locals' /\ w.argument = argument'
       /\ w.early = early' /\ w.value = returned' /\ w.own = own /\ w.pointee = pointee
  BY <1>3, <1>4, <1>5, <1>10, <1>11, FieldsAfter DEF Fields
<1>15. /\ a.locals = locals /\ a.argument = argument /\ a.value = returned
       /\ b.locals = c.locals /\ b.argument = c.argument /\ b.value = NoValue
       /\ ArmShape(f, m, slot) /\ IsArm(m)
  <2>1. ArmShape(f, m, slot) /\ IsArm(m)
    BY <1>4, <1>5, <1>12, <1>14 DEF ViewOk, IsArm, ArmKinds
  <2> QED BY <1>3, <2>1 DEF Arm, EmptyArm
<1>16. Within(f, slot)
  <2>1. \A l \in Lanes : wait'[l] = wait[l] \/ (wait[l] = 0 /\ wait'[l] >= f)
    BY <1>4, <1>5, <1>7, <1>12 DEF Park, Running
  <2>2. \A k \in f+1..d : nest'[k].kind # "call"
    <3>1. \A k \in f+1..d : k \in 1..d /\ k \in f+1..m
      BY <1>4, <1>7
    <3> QED BY <1>4, <1>10, <3>1
  <2>3. \A k \in 1..f : nest'[k] = nest[k] /\ stack'[k] = stack[k]
    <3>1. \A k \in 1..f : k \in 1..d /\ k \in 1..d-1
      BY <1>4, <1>7, <1>12
    <3>2. d - 1 \in Nat /\ f \in 1..d
      BY <1>4, <1>7, <1>12
    <3> QED BY <1>10, <3>1, <3>2
  <2>4. f \in 1..Depth /\ f <= Depth' /\ Depth' = d /\ given' = given /\ breaks' = breaks
    <3>1. Depth' = d /\ f < d /\ f \in Nat /\ d \in Nat
      BY <1>4, <1>7, <1>10, <1>12
    <3>2. f <= Depth'
      BY <3>1
    <3>3. given' = given /\ breaks' = breaks
      BY <1>5
    <3> QED BY <1>3, <1>4, <3>1, <3>2, <3>3
  <2>5. \A l \in Lanes : \/ wait'[l] = wait[l]
                         \/ (wait[l] = 0 \/ wait[l] >= f) /\ (wait'[l] = 0 \/ wait'[l] >= f)
    <3>1. \A l \in Lanes : wait'[l] = wait[l] \/ (wait[l] = 0 /\ wait'[l] >= f)
      BY <2>1
    <3> QED BY <3>1
  <2> QED BY <1>4, <2>2, <2>3, <2>4, <2>5 DEF Within
<1>17. At(f)' = At(f) /\ At(f) \subseteq Lanes
  BY <1>11, <1>12 DEF At
<1>18. \A L, A, l : Own(v, L, A, l) => Own(w, L, A, l)
  BY <1>14 DEF Own
<1>19. Homes(w, d, s)'
  <2>1. PICK e : e = breaks[slot[d]] /\ e = breaks'[s[d]]
    BY <1>5, <1>7, <1>13
  <2>2. ASSUME NEW l \in At(d)' PROVE AtSwitch(w, d, e, l)'
    <3>0. l \in Lanes
      BY DEF At
    <3>1. /\ argument'[l] = IF l \in c.condition THEN argument[l] ELSE c.argument[l]
          /\ l \in c.condition /\ returned = NoValue => \A x \in Locals : locals'[x][l] = locals[x][l]
          /\ l \notin c.condition => \A x \in Locals : locals'[x][l] = c.locals[x][l]
      <4>1. /\ argument'[l] = IF l \in c.condition THEN a.argument[l] ELSE b.argument[l]
            /\ l \in c.condition /\ a.value = NoValue => \A x \in Locals : locals'[x][l] = a.locals[x][l]
            /\ l \notin c.condition /\ b.value = NoValue => \A x \in Locals : locals'[x][l] = b.locals[x][l]
        BY <1>5, <1>9, <3>0, MergedValues
      <4> QED BY <1>15, <4>1
    <3>2. Covered(e) \subseteq At(d) /\ At(d) \cap Running = {}
      BY <1>7, <1>8, <2>1 DEF At, Running
    <3>3. l \in At(d) => AtSwitch(v, d, e, l)
      <4>1. Homes(v, d, slot)
        BY <1>4, <1>12, <1>14 DEF ViewOk
      <4> QED BY <1>7, <2>1, <4>1 DEF Homes
    <3>4. CASE l \in Covered(e)
      <4>1. Own(v, e[First(e, l)].locals, e[First(e, l)].argument, l)
        BY <3>2, <3>3, <3>4 DEF AtSwitch
      <4> QED BY <1>18, <3>4, <4>1 DEF AtSwitch
    <3>5. CASE l \in At(d) /\ l \notin Covered(e)
      <4>1. Own(v, c.locals, c.argument, l)
        BY <1>3, <1>7, <1>14, <3>3, <3>5 DEF AtSwitch
      <4>2. l \notin c.condition
        BY <1>8, <2>1, <3>5
      <4>3. Own(w, w.locals, w.argument, l)
        BY <1>14, <3>1, <4>1, <4>2 DEF Own
      <4> QED BY <1>14, <3>5, <4>3 DEF AtSwitch
    <3>6. CASE l \in Running
      <4>1. Own(v, locals, argument, l) /\ l \in c.condition
        BY <1>4, <1>6, <1>14, <3>6 DEF ViewOk
      <4>2. returned = NoValue
        BY <1>1, <3>6 DEF Live
      <4>3. Own(w, w.locals, w.argument, l)
        BY <1>14, <3>1, <4>1, <4>2 DEF Own
      <4>4. l \notin Covered(e)
        BY <3>2, <3>6
      <4> QED BY <1>14, <4>3, <4>4 DEF AtSwitch
    <3> QED BY <1>11, <3>4, <3>5, <3>6
  <2>3. nest'[d].kind = "switch"
    BY <1>7, <1>10, <1>12
  <2> QED BY <2>1, <2>2, <2>3 DEF Homes
<1>20. ASSUME NEW k \in f+1..w.top PROVE Homes(w, k, s)'
  <2>1. CASE k = d
    BY <1>19, <2>1
  <2>2. CASE k # d
    <3>1. k \in 1..d-1 /\ k \in 1..d /\ k \in f+1..m /\ Homes(v, k, slot) /\ k # m
      <4>1. k \in f+1..m /\ k \in 1..d-1 /\ k # m
        BY <1>4, <1>7, <1>14, <2>2
      <4> QED BY <1>4, <1>7, <1>14, <4>1 DEF ViewOk
    <3>2. At(k)' = At(k) /\ nest'[k] = nest[k] /\ stack'[k] = stack[k] /\ s[k] = slot[k]
      BY <1>10, <1>11, <1>13, <3>1
    <3>3. nest[k].kind = "switch" => /\ stack'[k + 1].locals = stack[k + 1].locals
                                     /\ stack'[k + 1].argument = stack[k + 1].argument
      <4>1. nest[k].kind = "switch" => k + 1 # d
        <5>1. k + 1 \in 2..Depth /\ k + 1 - 1 = k
          BY <1>3, <1>7, <3>1
        <5>2. nest[k].kind = "switch" => nest[k + 1].kind = "case"
          BY <1>1, <5>1 DEF Nesting
        <5> QED BY <1>7, <5>2
      <4>2. k + 1 # d => k + 1 \in 1..d-1
        BY <1>7, <3>1
      <4> QED BY <1>10, <1>12, <4>1, <4>2
    <3> QED BY <1>5, <1>14, <2>2, <3>1, <3>2, <3>3, HomesStay
  <2> QED BY <2>1, <2>2
<1>21. ASSUME NEW k \in f+1..d PROVE ArmsStay(f, k)
  <2>1. \A i \in f+1..k : nest'[i] = nest[i] /\ (i # d => stack'[i] = stack[i])
    <3>1. \A i \in f+1..k : i \in 1..d /\ (i # d => i \in 1..d-1)
      BY <1>4, <1>7
    <3> QED BY <1>10, <3>1
  <2> QED BY <1>7, <2>1 DEF ArmsStay, IsArm, ArmKinds
<1>22. ASSUME NEW l \in At(f)'
       PROVE  Left(w, f, l)' /\ \A k \in f+1..w.top : LeftArm(w, f, k, l)'
  <2>1. l \in At(f) /\ l \in Lanes
    BY <1>17
  <2>2. ArmsStay(f, d)
    <3>1. d \in f+1..d
      BY <1>7, <1>12
    <3> QED BY <1>21, <3>1
  <2>3. l \notin c.parent \ c.condition
    BY <1>8, <1>12, <2>1 DEF At
  <2>4. /\ LowererType /\ f \in Nat /\ d \in Nat /\ f <= d /\ m = d + 1 /\ c \in ArmFrame
        /\ a \in ArmResult /\ b \in ArmResult /\ Merge(c, a, b) /\ c = stack[m] /\ IsArm(m)
        /\ given' = given /\ ViewOk(v, f, slot)
        /\ v.top = m /\ v.early = early /\ v.argument = argument /\ v.value = returned
        /\ w.top = d /\ w.early = early' /\ w.argument = argument' /\ w.value = returned'
        /\ w.pointee = v.pointee /\ nest[m].kind # "else"
        /\ a.value = returned /\ a.argument = argument /\ b.argument = c.argument
    BY <1>1, <1>3, <1>4, <1>5, <1>7, <1>9, <1>12, <1>14, <1>15
  <2> QED BY <2>1, <2>2, <2>3, <2>4, LeftMerged
<1>23. Covered(w.early) \subseteq At(f)'
  <2>1. Covered(early) \subseteq At(f)
    BY <1>4, <1>14 DEF ViewOk
  <2>2. returned # NoValue => c.parent \cap c.condition \subseteq At(f)
    <3>1. SUFFICES ASSUME returned # NoValue PROVE Start(m) \subseteq At(f)
      BY <1>3, <1>5 DEF Start
    <3>2. c.before.breaks = SwitchBreakCount /\ Running = {}
      BY <1>1, <1>5, <3>1 DEF MayEndArm, Live
    <3>3. SwitchBreakCount = BreaksOf(m, slot)
      <4>1. slot[m] = Len(breaks)
        BY <1>1, <1>3 DEF Slots
      <4> QED BY <1>1, <4>1, EdgesNow DEF BreaksOf
    <3> QED BY <1>3, <1>6, <1>15, <3>2, <3>3 DEF ArmShape
  <2>3. Covered(early') \subseteq At(f)
    BY <1>1, <1>5, <1>9, <1>15, <2>1, <2>2, MergedCovered
  <2> QED BY <1>14, <1>17, <2>3
<1>24. ASSUME NEW k \in f+1..w.top PROVE ArmShape(f, k, s)'
  <2>1. k \in 1..d /\ k \in f+1..d /\ k \in Nat /\ k > f /\ ArmShape(f, k, slot)
    <3>1. k \in f+1..m /\ k \in 1..d /\ k \in f+1..d
      BY <1>4, <1>7, <1>14
    <3> QED BY <1>4, <1>14, <3>1 DEF ViewOk
  <2>2. IsArm(k) => BreaksOf(k, s)' = BreaksOf(k, slot) /\ Inside(k)' = Inside(k)
    <3>1. IsArm(k) => k \in 1..d-1
      BY <1>7, <2>1 DEF IsArm, ArmKinds
    <3> QED BY <1>5, <1>11, <1>13, <2>1, <3>1 DEF BreaksOf
  <2> QED BY <1>4, <1>17, <1>21, <2>1, <2>2, ArmShapeStays
<1>25. ViewOk(w, f, s)'
  <2>1. \A l \in w.lanes : Own(w, w.locals, w.argument, l)
    BY <1>14
  <2> QED BY <1>20, <1>22, <1>23, <1>24, <2>1 DEF ViewOk
<1> QED BY <1>1, <1>3, <1>5, <1>16, <1>25, WithinKeeps DEF ValuesOk

(* The end of a switch: its lanes go on, each from where it left the switch. *)
LEMMA EndSwitchValues ==
    ASSUME NEW slot, NEW returns, NEW s, NEW r, Between(slot, returns, s, r), EndSwitch
    PROVE  ValuesOk(s)'
<1>1. /\ MeaningType /\ LowererType /\ Nesting /\ Slots(slot) /\ Slots(s)' /\ Depth \in Nat /\ Depth > 0
      /\ Inductive(slot, returns) /\ ValuesOk(slot) /\ Inductive(s, r)' /\ Live
      /\ MeaningType' /\ LowererType' /\ Len(breaks) \in Nat
      /\ \A k \in 1..Depth : Waiting(k, slot) /\ CasesFind(k) /\ EdgesTell(k, slot, returns)
      /\ \A l \in Lanes : wait[l] \in 0..Depth
  BY BetweenFacts
<1>2. PICK v, f : Now(v, f, slot)
  BY <1>1, NowIs
<1>3. PICK m, w, d, e : m = Depth /\ w = Current' /\ d = m - 1 /\ e = LastBreaks
  OBVIOUS
<1>4. /\ Fields(v) /\ ViewOk(v, f, slot) /\ f \in 1..m /\ f \in Nat /\ IsCall(f) /\ SameFunction(f, Depth)
      /\ \A k \in f+1..m : k \in 1..m /\ k \in Nat /\ k > f /\ nest[k].kind # "call"
      /\ m \in 1..m /\ m \in Nat
  BY <1>1, <1>2, <1>3 DEF Now
<1>5. /\ nest[m].kind = "switch" /\ wait' = Resume /\ Running = {} /\ returned = NoValue
      /\ UNCHANGED <<early, returned, own, pointee, given, memory, output>>
  BY <1>1, <1>3 DEF EndSwitch, RunEndSwitch, Live, Top
<1>6. /\ slot[m] \in 1..Len(breaks) /\ slot[m] = slot[d] + 1 /\ slot[m] = Len(breaks)
      /\ e = breaks[slot[m]] /\ Len(breaks) > 0
  <2>1. m \in 1..Depth
    BY <1>3, <1>4
  <2>2. slot[m] \in 1..Len(breaks) /\ slot[m] = slot[m - 1] + 1
    BY <1>1, <1>5, <2>1, SwitchHasSlot
  <2>3. slot[m] = Len(breaks)
    BY <1>1, <1>3 DEF Slots
  <2> QED BY <1>1, <1>3, <2>2, <2>3 DEF LastBreaks
<1>7. /\ Closed(Depth - 1) /\ \A k \in 1..Depth - 1 : stack'[k] = stack[k]
      /\ Len(breaks') = Len(breaks) - 1 /\ \A i \in 1..Len(breaks) - 1 : breaks'[i] = breaks[i]
      /\ Depth > 1
  BY <1>1, <1>6, EndSwitchTypes
<1>8. Leaving(d)
  <2>1. d \in Nat /\ d > 0 /\ Depth = d + 1 /\ Depth - 1 = d
    BY <1>1, <1>3, <1>7
  <2> QED BY <1>1, <1>3, <1>5, <1>7, <2>1 DEF Leaving
<1>9. /\ Running' = At(m) /\ Depth' = d /\ Depth = m /\ KindsKept(d) /\ nest[d].kind # "switch"
      /\ d \in Nat /\ d > 0 /\ m = d + 1 /\ d \in 1..m
      /\ \A k \in 1..d : /\ At(k)' = At(k) /\ Inside(k)' = Inside(k)
                         /\ nest'[k] = nest[k] /\ stack'[k] = stack[k]
  <2>1. /\ Running' = Running \cup At(Depth) /\ Depth' = d /\ KindsKept(d) /\ nest[d].kind # "switch"
        /\ \A k \in 1..d : At(k)' = At(k) /\ Inside(k)' = Inside(k)
    BY <1>8, LeavingFacts
  <2>2. \A k \in 1..d : nest'[k] = nest[k] /\ stack'[k] = stack[k]
    BY <1>8 DEF Leaving, Closed
  <2>3. d \in Nat /\ d > 0 /\ m = d + 1 /\ d \in 1..m
    BY <1>3, <1>4, <1>8 DEF Leaving
  <2> QED BY <1>3, <1>5, <2>1, <2>2, <2>3
<1>10. f \in 1..d /\ f # 0 /\ m \in f+1..m
  <2>1. f # m
    BY <1>4, <1>5 DEF IsCall
  <2> QED BY <1>4, <1>9, <2>1
<1>11. \A k \in 1..d : s[k] = slot[k] /\ (slot[k] # 0 => breaks'[slot[k]] = breaks[slot[k]])
  <2>1. d \in 1..Depth /\ d <= Depth' /\ Depth' \in Nat
    BY <1>9
  <2>2. \A k \in 1..d : s[k] = slot[k]
    BY <1>1, <1>9, <2>1, SlotsAgree
  <2>3. ASSUME NEW k \in 1..d, slot[k] # 0 PROVE breaks'[slot[k]] = breaks[slot[k]]
    <3>1. k \in 1..Depth /\ d \in 1..Depth /\ k <= d
      BY <1>9
    <3>2. slot[k] <= slot[d] /\ slot[k] \in Nat /\ slot[d] \in Nat
      BY <1>1, <3>1 DEF Slots
    <3>3. slot[k] \in 1..Len(breaks) - 1
      BY <1>1, <1>6, <2>3, <3>2
    <3> QED BY <1>7, <3>3
  <2> QED BY <2>2, <2>3
<1>12. /\ v.top = m /\ v.locals = locals /\ v.argument = argument
       /\ v.early = early /\ v.value = returned /\ v.own = own /\ v.pointee = pointee
       /\ w.top = d /\ w.lanes = At(m) /\ w.locals = locals' /\ w.argument = argument'
       /\ w.early = early /\ w.value = returned /\ w.own = own /\ w.pointee = pointee
  BY <1>3, <1>4, <1>5, <1>9, FieldsAfter DEF Fields
<1>13. Within(f, slot)
  <2>1. \A l \in Lanes : \/ wait'[l] = wait[l]
                         \/ (wait[l] = 0 \/ wait[l] >= f) /\ (wait'[l] = 0 \/ wait'[l] >= f)
    <3>1. \A l \in Lanes : wait'[l] = wait[l] \/ (wait[l] = m /\ wait'[l] = 0)
      BY <1>3, <1>5 DEF Resume
    <3>2. m >= f
      BY <1>4
    <3> QED BY <3>1, <3>2
  <2>2. \A i \in 1..Len(breaks) : i <= slot[f] => breaks'[i] = breaks[i]
    <3>1. f \in 1..Depth /\ d \in 1..Depth /\ f <= d
      BY <1>3, <1>9, <1>10
    <3>2. slot[f] <= slot[d] /\ slot[f] \in Nat /\ slot[d] \in Nat
      BY <1>1, <3>1 DEF Slots
    <3>3. slot[f] <= Len(breaks) - 1
      BY <1>1, <1>6, <3>2
    <3> QED BY <1>1, <1>7, <3>2, <3>3
  <2>3. f \in 1..Depth /\ f <= Depth'
    BY <1>3, <1>4, <1>9, <1>10
  <2>4. \A k \in 1..f : nest'[k] = nest[k] /\ stack'[k] = stack[k]
    <3>1. \A k \in 1..f : k \in 1..d
      BY <1>9, <1>10
    <3> QED BY <1>9, <3>1
  <2>5. \A k \in f+1..Depth' : nest'[k].kind # "call"
    <3>1. \A k \in f+1..d : k \in 1..d /\ k \in f+1..m
      BY <1>4, <1>9
    <3> QED BY <1>4, <1>9, <3>1
  <2> QED BY <1>4, <1>5, <2>1, <2>2, <2>3, <2>4, <2>5 DEF Within
<1>14. Covered(e) \subseteq At(m) /\ At(f)' = At(f) /\ At(f) \cap At(m) = {} /\ At(f) \subseteq Lanes
  <2>1. Waiting(m, slot)
    BY <1>1, <1>3, <1>4
  <2>2. Covered(e) \subseteq At(m)
    BY <1>5, <1>6, <2>1 DEF Waiting
  <2>3. f # m
    BY <1>9, <1>10
  <2> QED BY <1>9, <1>10, <2>2, <2>3 DEF At
<1>15. \A l \in Lanes :
          /\ argument'[l] = IF l \in Covered(e) THEN e[First(e, l)].argument[l] ELSE argument[l]
          /\ \A x \in Locals :
               locals'[x][l] = IF l \in Covered(e) THEN e[First(e, l)].locals[x][l] ELSE locals[x][l]
  BY <1>3 DEF EndSwitch
<1>16. ASSUME NEW l \in w.lanes PROVE Own(w, w.locals, w.argument, l)
  <2>1. l \in At(m) /\ l \in Lanes
    BY <1>12 DEF At
  <2>2. AtSwitch(v, m, e, l)
    <3>1. Homes(v, m, slot)
      BY <1>4, <1>10, <1>12 DEF ViewOk
    <3> QED BY <1>5, <1>6, <2>1, <3>1 DEF Homes
  <2>3. IF l \in Covered(e) THEN Own(v, e[First(e, l)].locals, e[First(e, l)].argument, l)
                            ELSE Own(v, locals, argument, l)
    BY <1>12, <2>2 DEF AtSwitch
  <2> QED BY <1>12, <1>15, <2>1, <2>3 DEF Own
<1>17. ASSUME NEW k \in f+1..w.top PROVE Homes(w, k, s)'
  <2>1. k \in 1..d /\ k \in f+1..m /\ Homes(v, k, slot) /\ k # m
    <3>1. k \in 1..d /\ k \in f+1..m /\ k # m
      BY <1>4, <1>9, <1>12
    <3> QED BY <1>4, <1>12, <3>1 DEF ViewOk
  <2>2. ASSUME nest[k].kind = "switch"
        PROVE  /\ breaks'[s[k]] = breaks[slot[k]] /\ k # d
               /\ stack'[k + 1].locals = stack[k + 1].locals
               /\ stack'[k + 1].argument = stack[k + 1].argument
    <3>1. k # d
      BY <1>9, <2>2
    <3>2. k + 1 \in 1..d
      BY <1>9, <2>1, <3>1
    <3>3. slot[k] # 0
      <4>1. k \in 1..Depth
        BY <1>9, <2>1
      <4> QED BY <1>1, <2>2, <4>1, SwitchHasSlot
    <3> QED BY <1>9, <1>11, <2>1, <3>1, <3>2, <3>3
  <2>3. At(k)' = At(k) /\ nest'[k] = nest[k] /\ stack'[k] = stack[k]
    BY <1>9, <2>1
  <2> QED BY <1>12, <2>1, <2>2, <2>3, HomesStay
<1>18. ASSUME NEW k \in f+1..d PROVE ArmsStay(f, k)
  <2>1. \A i \in f+1..k : i \in 1..d
    BY <1>4, <1>9
  <2> QED BY <1>9, <2>1 DEF ArmsStay
<1>19. ASSUME NEW l \in At(f)'
       PROVE  Left(w, f, l)' /\ \A k \in f+1..w.top : LeftArm(w, f, k, l)'
  <2>1. l \in At(f) /\ l \in Lanes /\ l \notin Covered(e) /\ Left(v, f, l)
    BY <1>4, <1>14 DEF ViewOk
  <2>2. \A x : Answers(v, x, l) => Answers(w, x, l)'
    BY <1>5, <1>12 DEF Answers
  <2>3. Left(w, f, l)'
    <3>1. ArmsStay(f, d)
      <4>1. \A i \in f+1..d : i \in 1..d
        BY <1>4, <1>9
      <4> QED BY <1>9, <4>1 DEF ArmsStay
    <3>2. Reaches(f, d, l)' <=> Reaches(f, d, l)
      BY <1>4, <3>1, ReachesStays
    <3>3. Reaches(f, d, l) => Reaches(f, m, l)
      <4>1. ~Elsewhere(m, l)
        BY <1>5 DEF Elsewhere
      <4>2. \A i \in f+1..m : i = m \/ i \in f+1..d
        BY <1>4, <1>9
      <4> QED BY <4>1, <4>2 DEF Reaches
    <3>4. argument'[l] = argument[l]
      BY <1>15, <2>1
    <3> QED BY <1>12, <2>1, <2>2, <3>2, <3>3, <3>4 DEF Left
  <2>4. ASSUME NEW k \in f+1..w.top PROVE LeftArm(w, f, k, l)'
    <3>1. k \in f+1..m /\ k \in f+1..d
      BY <1>4, <1>9, <1>12
    <3>2. LeftArm(v, f, k, l)
      BY <1>4, <1>12, <2>1, <3>1 DEF ViewOk
    <3>3. ArmsStay(f, k) /\ k \in Nat /\ k > f
      BY <1>4, <1>18, <3>1
    <3> QED BY <1>4, <1>12, <2>2, <3>2, <3>3, LeftArmStays
  <2> QED BY <2>3, <2>4
<1>20. Covered(w.early) \subseteq At(f)'
  BY <1>4, <1>12, <1>14 DEF ViewOk
<1>21. ASSUME NEW k \in f+1..w.top PROVE ArmShape(f, k, s)'
  <2>1. k \in 1..d /\ k \in f+1..d /\ k \in Nat /\ k > f /\ ArmShape(f, k, slot)
    <3>1. k \in f+1..m /\ k \in 1..d /\ k \in f+1..d
      BY <1>4, <1>9, <1>12
    <3> QED BY <1>4, <1>12, <3>1 DEF ViewOk
  <2>2. BreaksOf(k, s)' = BreaksOf(k, slot) /\ Inside(k)' = Inside(k)
    BY <1>9, <1>11, <2>1 DEF BreaksOf
  <2> QED BY <1>4, <1>14, <1>18, <2>1, <2>2, ArmShapeStays
<1>22. ViewOk(w, f, s)'
  BY <1>16, <1>17, <1>19, <1>20, <1>21 DEF ViewOk
<1> QED BY <1>1, <1>3, <1>5, <1>13, <1>22, WithinKeeps DEF ValuesOk

-----------------------------------------------------------------------------
(* A call: the caller waits, as it is; the callee starts in the same lanes. *)
LEMMA CallValues ==
    ASSUME ~StoreAfterReturn,
           NEW slot, NEW returns, NEW s, NEW r, Between(slot, returns, s, r),
           NEW target \in Locals \cup {Argument, NoPointer}, Call(target)
    PROVE  ValuesOk(s)'
<1>1. /\ MeaningType /\ LowererType /\ Nesting /\ Slots(slot) /\ Slots(s)' /\ Depth \in Nat /\ Depth > 0
      /\ Inductive(slot, returns) /\ ValuesOk(slot) /\ Inductive(s, r)' /\ Live
      /\ MeaningType' /\ LowererType' /\ Len(breaks) \in Nat
      /\ \A l \in Lanes : wait[l] \in 0..Depth
  BY BetweenFacts
<1>2. PICK v, f : Now(v, f, slot)
  BY <1>1, NowIs
<1>3. PICK m, n, w : m = Depth /\ n = Depth + 1 /\ w = Current'
  OBVIOUS
<1>4. /\ Fields(v) /\ ViewOk(v, f, slot) /\ f \in 1..m /\ f \in Nat /\ IsCall(f) /\ SameFunction(f, Depth)
      /\ m \in 1..m /\ m \in Nat /\ n \in Nat /\ n = m + 1
  BY <1>1, <1>2, <1>3 DEF Now
<1>5. /\ nest[m].kind # "switch" /\ returned = NoValue /\ mask = Running /\ early' = <<>>
      /\ UNCHANGED <<wait, given, output, memory, breaks, returned, mask>>
      /\ target = Argument => early = <<>>
  BY <1>1, <1>3 DEF Call, RunCall, Statement, Top, Live, MayStorePointer
<1>6. Opened(NewActivation(target), NewCall)
  BY <1>1, CallTypes
<1>7. /\ Depth' = n /\ Depth = m /\ nest'[n] = NewActivation(target) /\ stack'[n] = NewCall
      /\ \A k \in 1..m : nest'[k] = nest[k] /\ stack'[k] = stack[k]
  BY <1>3, <1>6 DEF Opened
<1>8. /\ nest'[n].kind = "call" /\ nest'[n].lanes = Running /\ nest'[n].target = target
      /\ nest'[n].own = own /\ nest'[n].pointee = pointee
      /\ stack'[n].mask = mask /\ stack'[n].locals = locals /\ stack'[n].argument = argument
      /\ stack'[n].early = early
  BY <1>7 DEF NewActivation, NewCall
<1>9. /\ \A k : At(k)' = At(k) /\ Inside(k)' = Inside(k)
      /\ At(n)' = {} /\ Running' = Running
  <2>1. \A l \in Lanes : wait[l] # n
    BY <1>1, <1>3
  <2> QED BY <1>5, <2>1 DEF At, Inside, Running
<1>10. \A k \in 1..m : s[k] = slot[k]
  <2>1. m \in 1..Depth /\ m <= Depth' /\ Depth' \in Nat /\ KindsKept(m)
    BY <1>4, <1>7 DEF KindsKept
  <2> QED BY <1>1, <2>1, SlotsAgree
(* Whoever waits is as it was. *)
<1>11. ASSUME NEW o, NEW h, ViewOk(o, h, slot), o.top \in 1..m, h \in 1..o.top,
              nest[o.top].kind # "switch"
       PROVE  ViewOk(o, h, s)'
  <2>1. h \in Nat /\ o.top \in Nat /\ h <= o.top
    BY <1>4, <1>11
  <2>2. ASSUME NEW k \in h..o.top
        PROVE  /\ nest'[k] = nest[k] /\ stack'[k] = stack[k] /\ s[k] = slot[k]
               /\ At(k)' = At(k) /\ Inside(k)' = Inside(k)
               /\ slot[k] # 0 => breaks'[slot[k]] = breaks[slot[k]]
               /\ nest[k].kind = "switch" => slot[k] # 0 /\ k < o.top
    <3>1. k \in 1..m /\ k \in 1..Depth
      BY <1>3, <1>4, <1>11, <2>1
    <3>2. ASSUME nest[k].kind = "switch" PROVE slot[k] # 0 /\ k < o.top
      <4>1. slot[k] # 0
        BY <1>1, <3>1, <3>2, SwitchHasSlot
      <4>2. k # o.top
        BY <1>11, <3>2
      <4> QED BY <2>1, <4>1, <4>2
    <3> QED BY <1>5, <1>7, <1>9, <1>10, <3>1, <3>2
  <2>3. \A l \in At(h) : given'[l] = given[l]
    BY <1>5
  <2> QED BY <1>11, <2>1, <2>2, <2>3, ViewStays
<1>12. /\ v.top = m /\ v.lanes = Running /\ v.locals = locals /\ v.argument = argument
       /\ v.early = early /\ v.value = NoValue /\ v.own = own /\ v.pointee = pointee
       /\ w.top = n /\ w.lanes = Running /\ w.locals = locals' /\ w.argument = argument'
       /\ w.early = <<>> /\ w.value = NoValue /\ w.own = own' /\ w.pointee = pointee'
  BY <1>3, <1>4, <1>5, <1>7, <1>9, FieldsAfter DEF Fields
(* The callee. *)
<1>13. ViewOk(w, n, s)'
  <2>1. ASSUME NEW l \in w.lanes PROVE Own(w, w.locals, w.argument, l)
    <3>1. locals' = [x \in Locals |-> Zeros] /\ own' = [x \in Locals |-> Zeros]
      BY DEF Call, RunCall
    <3>2. l \in Running /\ Own(v, locals, argument, l)
      BY <1>4, <1>12 DEF ViewOk
    <3>3. argument'[l] = pointee'[l]
      <4>1. /\ argument' = CASE target \in Locals -> locals[target]
                             [] target = Argument -> argument
                             [] OTHER -> Zeros
            /\ pointee' = CASE target \in Locals -> own[target]
                            [] target = Argument -> pointee
                            [] OTHER -> Zeros
        BY DEF Call, RunCall
      <4>2. CASE target \in Locals
        BY <1>12, <3>2, <4>1, <4>2 DEF Own
      <4>3. CASE target = Argument
        BY <1>12, <3>2, <4>1, <4>3, Assumptions DEF Own
      <4>4. CASE target = NoPointer
        BY <4>1, <4>4, Assumptions
      <4> QED BY <4>2, <4>3, <4>4
    <3> QED BY <1>12, <3>1, <3>3 DEF Own
  <2>2. \A k \in n+1..w.top : FALSE
    BY <1>4, <1>12
  <2>3. Covered(w.early) \subseteq At(n)'
    BY <1>12, CoveredEmpty
  <2> QED BY <1>9, <2>1, <2>2, <2>3 DEF ViewOk
<1>14. \A o, h : o = Current' /\ FunctionOf(o, h)' => ViewOk(o, h, s)'
  <2> SUFFICES ASSUME NEW h, FunctionOf(w, h)' PROVE h = n
    BY <1>3, <1>13
  <2>1. h \in 1..n /\ SameFunction(h, n)'
    BY <1>12 DEF FunctionOf
  <2>2. h < n => n \in h+1..n
    BY <1>4, <2>1
  <2> QED BY <1>4, <1>8, <2>1, <2>2 DEF SameFunction
<1>15. ASSUME NEW g \in 2..Depth', IsCall(g)', NEW o, o = Saved(g)', NEW h, FunctionOf(o, h)'
       PROVE  ViewOk(o, h, s)'
  <2>1. o.top = g - 1 /\ g - 1 \in 1..m /\ g - 1 \in Nat
    BY <1>4, <1>7, <1>15 DEF Saved
  <2>2. h \in 1..o.top
    BY <1>15 DEF FunctionOf
  <2>3. FunctionOf(o, h)
    <3>1. nest'[h] = nest[h] /\ \A i \in h+1..o.top : nest'[i] = nest[i]
      <4>1. h \in 1..m /\ \A i \in h+1..o.top : i \in 1..m
        BY <1>4, <2>1, <2>2
      <4> QED BY <1>7, <4>1
    <3> QED BY <1>15, <2>2, <3>1 DEF FunctionOf, SameFunction
  <2>4. CASE g = n
    <3>1. o.top = m /\ nest[o.top].kind # "switch"
      BY <1>4, <1>5, <2>1, <2>4
    <3>2. o = Current
      <4>1. stack'[g].locals = locals /\ stack'[g].argument = argument /\ stack'[g].early = early
        BY <1>8, <2>4
      <4>2. nest'[g].lanes = Running /\ nest'[g].own = own /\ nest'[g].pointee = pointee /\ g - 1 = Depth
        BY <1>3, <1>4, <1>8, <2>4
      <4> QED BY <1>5, <1>15, <4>1, <4>2 DEF Saved, Current
    <3>3. ViewOk(o, h, slot)
      BY <1>1, <2>3, <3>2 DEF ValuesOk
    <3> QED BY <1>11, <2>1, <2>2, <3>1, <3>3
  <2>5. CASE g # n
    <3>1. g \in 2..m /\ g \in 1..m /\ g \in 2..Depth
      BY <1>3, <1>4, <1>7, <1>15, <2>5
    <3>2. nest'[g] = nest[g] /\ stack'[g] = stack[g]
      BY <1>7, <3>1
    <3>3. o = Saved(g) /\ IsCall(g)
      BY <1>15, <3>2 DEF Saved, IsCall
    <3>4. ViewOk(o, h, slot)
      BY <1>1, <2>3, <3>1, <3>3 DEF ValuesOk
    <3>5. nest[g - 1].kind # "switch"
      BY <1>1, <3>1, <3>3 DEF Nesting, IsCall
    <3> QED BY <1>11, <2>1, <2>2, <3>4, <3>5
  <2> QED BY <2>4, <2>5
<1>16. ASSUME NEW g \in 1..Depth', IsCall(g)' PROVE PassedOn(g)'
  <2>1. CASE g = n
    BY <1>5, <1>8, <2>1 DEF PassedOn
  <2>2. CASE g # n
    <3>1. g \in 1..m
      BY <1>4, <1>7, <2>2
    <3>2. nest'[g] = nest[g] /\ stack'[g] = stack[g]
      BY <1>7, <3>1
    <3>3. IsCall(g)
      BY <1>16, <3>2 DEF IsCall
    <3> QED BY <1>1, <1>3, <3>1, <3>2, <3>3 DEF PassedOn, ValuesOk
  <2> QED BY <2>1, <2>2
<1>17. memory' = output'
  BY <1>1, <1>5 DEF ValuesOk
<1> QED BY <1>14, <1>15, <1>16, <1>17 DEF ValuesOk

(* The end of a call: the caller goes on in the lanes in which it called.  *)
LEMMA EndCallValues ==
    ASSUME NEW slot, NEW returns, NEW s, NEW r, Between(slot, returns, s, r),
           NEW results \in { {} } \cup { {x} : x \in Locals }, EndCall(results)
    PROVE  ValuesOk(s)'
<1>1. /\ MeaningType /\ LowererType /\ Nesting /\ Slots(slot) /\ Slots(s)' /\ Depth \in Nat /\ Depth > 0
      /\ Inductive(slot, returns) /\ ValuesOk(slot) /\ Inductive(s, r)' /\ Live
      /\ MeaningType' /\ LowererType' /\ Len(breaks) \in Nat
      /\ \A k \in 1..Depth : Waiting(k, slot)
  BY BetweenFacts
<1>2. PICK m, d, v, u, w, t :
         m = Depth /\ d = m - 1 /\ v = Current /\ u = Saved(m) /\ w = Current' /\ t = nest[m].target
  OBVIOUS
<1>3. /\ nest[m].kind = "call" /\ wait' = Resume /\ breaks' = breaks /\ early' = stack[m].early
      /\ returned' = NoValue
      /\ results # {} => returned # NoValue
      /\ UNCHANGED <<given, output, memory>>
      /\ argument' = IF t = Argument THEN argument ELSE stack[m].argument
      /\ pointee' = IF t = Argument THEN Update(nest[m].pointee, nest[m].lanes, pointee) ELSE nest[m].pointee
      /\ \A x \in Locals :
            /\ locals'[x] = CASE x \in results -> FinalizeReturn(returned)
                              [] x = t /\ x \notin results -> argument
                              [] OTHER -> stack[m].locals[x]
            /\ own'[x] = CASE x \in results -> Update(nest[m].own[x], nest[m].lanes, given)
                           [] x = t /\ x \notin results -> Update(nest[m].own[x], nest[m].lanes, pointee)
                           [] OTHER -> nest[m].own[x]
  BY <1>2 DEF EndCall, RunEndCall, Top, Inner
<1>4. /\ Closed(Depth - 1) /\ \A k \in 1..Depth - 1 : stack'[k] = stack[k]
      /\ nest[Depth].kind = "call" /\ Depth > 1
  BY <1>1, EndCallTypes
<1>5. Leaving(d)
  <2>1. d \in Nat /\ d > 0 /\ Depth = d + 1 /\ Depth - 1 = d
    BY <1>1, <1>2, <1>4
  <2> QED BY <1>1, <1>2, <1>3, <1>4, <2>1 DEF Leaving
<1>6. /\ Running' = Running \cup At(m) /\ Depth' = d /\ Depth = m /\ KindsKept(d) /\ nest[d].kind # "switch"
      /\ d \in Nat /\ d > 0 /\ m = d + 1 /\ m \in 2..Depth /\ m \in 1..Depth
      /\ \A k \in 1..d : /\ At(k)' = At(k) /\ Inside(k)' = Inside(k)
                         /\ nest'[k] = nest[k] /\ stack'[k] = stack[k]
  <2>1. /\ Running' = Running \cup At(Depth) /\ Depth' = d /\ KindsKept(d) /\ nest[d].kind # "switch"
        /\ \A k \in 1..d : At(k)' = At(k) /\ Inside(k)' = Inside(k)
    BY <1>5, LeavingFacts
  <2>2. \A k \in 1..d : nest'[k] = nest[k] /\ stack'[k] = stack[k]
    BY <1>5 DEF Leaving, Closed
  <2>3. d \in Nat /\ d > 0 /\ m = d + 1 /\ m \in 2..Depth /\ m \in 1..Depth
    BY <1>2, <1>5 DEF Leaving
  <2> QED BY <1>2, <2>1, <2>2, <2>3
<1>7. /\ nest[m].lanes = Running \cup At(m) /\ Running' = nest[m].lanes
      /\ t = Argument => stack[m].early = <<>>
  <2>1. PassedOn(m)
    BY <1>1, <1>3, <1>6 DEF ValuesOk, IsCall
  <2>2. Waiting(m, slot) /\ Inside(m) = Running
    BY <1>1, <1>2, <1>6, InsideTop
  <2>3. nest[m].lanes = Running \cup At(m)
    BY <1>3, <2>1, <2>2 DEF PassedOn, Waiting
  <2> QED BY <1>2, <1>6, <2>1, <2>3 DEF PassedOn
<1>8. /\ Fields(v) /\ u.top = d /\ u.lanes = nest[m].lanes /\ u.locals = stack[m].locals
      /\ u.argument = stack[m].argument /\ u.early = stack[m].early /\ u.value = NoValue
      /\ u.own = nest[m].own /\ u.pointee = nest[m].pointee
      /\ w.top = d /\ w.lanes = nest[m].lanes /\ w.locals = locals' /\ w.argument = argument'
      /\ w.early = stack[m].early /\ w.value = NoValue /\ w.own = own' /\ w.pointee = pointee'
  <2>1. Fields(v) /\ Fields(w)'
    BY <1>2, FieldsBefore, FieldsAfter
  <2>2. /\ u.top = d /\ u.lanes = nest[m].lanes /\ u.locals = stack[m].locals
        /\ u.argument = stack[m].argument /\ u.early = stack[m].early /\ u.value = NoValue
        /\ u.own = nest[m].own /\ u.pointee = nest[m].pointee
    BY <1>2 DEF Saved
  <2>3. /\ w.top = d /\ w.lanes = nest[m].lanes /\ w.locals = locals' /\ w.argument = argument'
        /\ w.early = stack[m].early /\ w.value = NoValue /\ w.own = own' /\ w.pointee = pointee'
    <3>1. /\ w.top = Depth' /\ w.lanes = Running' /\ w.locals = locals' /\ w.argument = argument'
          /\ w.early = early' /\ w.value = returned' /\ w.own = own' /\ w.pointee = pointee'
      BY <2>1 DEF Fields
    <3>2. Depth' = d /\ Running' = nest[m].lanes
      BY <1>6, <1>7
    <3>3. early' = stack[m].early /\ returned' = NoValue
      BY <1>3
    <3> QED BY <3>1, <3>2, <3>3
  <2> QED BY <2>1, <2>2, <2>3
<1>9. \A k \in 1..d : s[k] = slot[k]
  <2>1. d \in 1..Depth /\ d <= Depth' /\ Depth' \in Nat
    BY <1>6
  <2> QED BY <1>1, <1>6, <2>1, SlotsAgree
(* What the callee has computed. *)
<1>10. ASSUME NEW l \in nest[m].lanes
       PROVE  /\ l \in Lanes /\ argument[l] = pointee[l]
              /\ returned # NoValue => FinalizeReturn(returned)[l] = given[l]
  <2>1. ViewOk(v, m, slot)
    <3>1. SameFunction(m, m)
      BY <1>6 DEF SameFunction
    <3>2. FunctionOf(v, m)
      BY <1>3, <1>6, <1>8, <3>1 DEF FunctionOf, Fields
    <3> QED BY <1>1, <1>2, <3>2 DEF ValuesOk
  <2>2. l \in Lanes
    BY <1>7, <1>10 DEF Running, At
  <2>3. CASE l \in Running
    <3>1. returned = NoValue
      BY <1>1, <2>3 DEF Live
    <3>2. argument[l] = pointee[l]
      BY <1>8, <2>1, <2>3 DEF ViewOk, Own, Fields
    <3> QED BY <2>2, <3>1, <3>2
  <2>4. CASE l \in At(m)
    <3>1. Left(v, m, l)
      BY <2>1, <2>4 DEF ViewOk
    <3>2. Reaches(m, v.top, l)
      <4>1. \A i \in m+1..m : FALSE
        BY <1>6
      <4> QED BY <1>6, <1>8, <4>1 DEF Reaches, Fields
    <3>3. argument[l] = pointee[l] /\ Answers(v, returned, l)
      BY <1>8, <3>1, <3>2 DEF Left, Fields
    <3>4. FinalizeReturn(returned)[l] = given[l]
      BY <1>8, <2>2, <3>3 DEF Answers, FinalizeReturn, Fields
    <3> QED BY <2>2, <3>3, <3>4
  <2> QED BY <1>7, <1>10, <2>3, <2>4
(* The lanes that did not call. *)
<1>11. ASSUME NEW k \in 1..d, NEW l \in At(k)
       PROVE  /\ l \in Lanes /\ w.pointee[l] = u.pointee[l]
              /\ \A x \in Locals : w.own[x][l] = u.own[x][l]
  <2>1. l \in Lanes /\ l \notin nest[m].lanes
    <3>1. l \in Lanes /\ wait[l] = k /\ k # 0 /\ k # m
      BY <1>6, <1>11 DEF At
    <3> QED BY <1>7, <3>1 DEF At, Running
  <2>2. \A old, new : Update(old, nest[m].lanes, new)[l] = old[l]
    BY <2>1 DEF Update
  <2>3. \A x \in Locals : own'[x][l] = nest[m].own[x][l]
    BY <1>3, <2>2
  <2>4. pointee'[l] = nest[m].pointee[l]
    BY <1>3, <2>2
  <2> QED BY <1>8, <2>1, <2>3, <2>4
(* Whoever still waits is as it was. *)
<1>12. ASSUME NEW o, NEW h, ViewOk(o, h, slot), o.top \in 1..d, h \in 1..o.top,
              nest[o.top].kind # "switch"
       PROVE  ViewOk(o, h, s)'
  <2>1. h \in Nat /\ o.top \in Nat /\ h <= o.top
    BY <1>6, <1>12
  <2>2. ASSUME NEW k \in h..o.top
        PROVE  /\ nest'[k] = nest[k] /\ stack'[k] = stack[k] /\ s[k] = slot[k]
               /\ At(k)' = At(k) /\ Inside(k)' = Inside(k)
               /\ slot[k] # 0 => breaks'[slot[k]] = breaks[slot[k]]
               /\ nest[k].kind = "switch" => slot[k] # 0 /\ k < o.top
    <3>1. k \in 1..d /\ k \in 1..Depth
      BY <1>6, <1>12, <2>1
    <3>2. ASSUME nest[k].kind = "switch" PROVE slot[k] # 0 /\ k < o.top
      <4>1. slot[k] # 0
        BY <1>1, <3>1, <3>2, SwitchHasSlot
      <4>2. k # o.top
        BY <1>12, <3>2
      <4> QED BY <2>1, <4>1, <4>2
    <3> QED BY <1>3, <1>6, <1>9, <3>1, <3>2
  <2>3. \A l \in At(h) : given'[l] = given[l]
    BY <1>3
  <2> QED BY <1>12, <2>1, <2>2, <2>3, ViewStays
(* The caller. *)
<1>13. ASSUME NEW l \in w.lanes, NEW h, ViewOk(u, h, slot)
       PROVE  Own(w, w.locals, w.argument, l)
  <2>1. /\ l \in nest[m].lanes /\ l \in Lanes /\ argument[l] = pointee[l]
        /\ returned # NoValue => FinalizeReturn(returned)[l] = given[l]
    BY <1>8, <1>10, <1>13
  <2>2. \A old, new : Update(old, nest[m].lanes, new)[l] = new[l]
    BY <2>1 DEF Update
  <2>3. (\A x \in Locals : stack[m].locals[x][l] = nest[m].own[x][l])
        /\ stack[m].argument[l] = nest[m].pointee[l]
    BY <1>8, <1>13, <2>1 DEF ViewOk, Own
  <2>4. ASSUME NEW x \in Locals PROVE locals'[x][l] = own'[x][l]
    <3>1. CASE x \in results
      <4>1. FinalizeReturn(returned)[l] = given[l]
        BY <1>3, <2>1, <3>1
      <4>2. locals'[x] = FinalizeReturn(returned) /\ own'[x] = Update(nest[m].own[x], nest[m].lanes, given)
        BY <1>3, <3>1
      <4> QED BY <2>2, <4>1, <4>2
    <3>2. CASE x = t /\ x \notin results
      <4>1. locals'[x] = argument /\ own'[x] = Update(nest[m].own[x], nest[m].lanes, pointee)
        BY <1>3, <3>2
      <4> QED BY <2>1, <2>2, <4>1
    <3>3. CASE x # t /\ x \notin results
      <4>1. locals'[x] = stack[m].locals[x] /\ own'[x] = nest[m].own[x]
        BY <1>3, <3>3
      <4> QED BY <2>3, <4>1
    <3> QED BY <3>1, <3>2, <3>3
  <2>5. argument'[l] = pointee'[l]
    BY <1>3, <2>1, <2>2, <2>3
  <2> QED BY <1>8, <2>4, <2>5 DEF Own
<1>14. ASSUME NEW h, FunctionOf(w, h)' PROVE ViewOk(w, h, s)'
  <2>1. h \in 1..d /\ h \in Nat /\ ViewOk(u, h, slot)
    <3>1. h \in 1..d
      BY <1>8, <1>14 DEF FunctionOf
    <3>2. FunctionOf(u, h)
      <4>1. nest'[h] = nest[h] /\ \A i \in h+1..d : nest'[i] = nest[i]
        <5>1. \A i \in h+1..d : i \in 1..d
          BY <1>6, <3>1
        <5> QED BY <1>6, <3>1, <5>1
      <4> QED BY <1>8, <1>14, <3>1, <4>1 DEF FunctionOf, SameFunction
    <3> QED BY <1>1, <1>2, <1>3, <1>6, <3>1, <3>2 DEF ValuesOk, IsCall
  <2>2. \A k \in h+1..d : k \in 1..d /\ k \in Nat /\ k > h /\ ArmsStay(h, k)
    <3>1. \A k \in h+1..d : k \in Nat /\ k > h /\ k \in 1..d /\ \A i \in h+1..k : i \in 1..d
      BY <1>6, <2>1
    <3> QED BY <1>6, <3>1 DEF ArmsStay
  <2>3. At(h)' = At(h)
    BY <1>6, <2>1
  <2>4. ASSUME NEW k \in h+1..w.top PROVE Homes(w, k, s)'
    <3>1. k \in h+1..d /\ k \in 1..d /\ k \in 1..Depth
      BY <1>6, <1>8, <2>2
    <3>2. Homes(u, k, slot)
      BY <1>8, <2>1, <3>1 DEF ViewOk
    <3>3. \A l \in At(k)' : /\ l \in At(k) /\ w.pointee[l] = u.pointee[l]
                            /\ \A x \in Locals : w.own[x][l] = u.own[x][l]
      BY <1>6, <1>11, <3>1
    <3>4. ASSUME nest[k].kind = "switch"
          PROVE  /\ breaks'[s[k]] = breaks[slot[k]] /\ k # d
                 /\ stack'[k + 1].locals = stack[k + 1].locals
                 /\ stack'[k + 1].argument = stack[k + 1].argument
      <4>1. k # d /\ k + 1 \in 1..d
        BY <1>6, <3>1, <3>4
      <4> QED BY <1>3, <1>6, <1>9, <3>1, <4>1
    <3>5. nest'[k] = nest[k] /\ stack'[k] = stack[k]
      BY <1>6, <3>1
    <3> QED BY <1>8, <3>2, <3>3, <3>4, <3>5, HomesStay
  <2>5. ASSUME NEW l \in At(h)'
        PROVE  Left(w, h, l)' /\ \A k \in h+1..w.top : LeftArm(w, h, k, l)'
    <3>1. l \in At(h) /\ Left(u, h, l) /\ w.pointee[l] = u.pointee[l]
      BY <1>11, <2>1, <2>3 DEF ViewOk
    <3>2. \A x : Answers(u, x, l) => Answers(w, x, l)'
      BY <1>3, <1>8 DEF Answers
    <3>3. Left(w, h, l)'
      <4>1. Reaches(h, d, l)' <=> Reaches(h, d, l)
        <5>1. ArmsStay(h, d)
          <6>1. \A i \in h+1..d : i \in 1..d
            BY <2>2
          <6> QED BY <1>6, <6>1 DEF ArmsStay
        <5> QED BY <2>1, <5>1, ReachesStays
      <4>2. CASE t = Argument
        <5>1. ~Answers(u, NoValue, l)
          BY <1>7, <1>8, <4>2, CoveredEmpty DEF Answers
        <5> QED BY <1>8, <3>1, <4>1, <5>1 DEF Left
      <4>3. CASE t # Argument
        <5>1. argument' = stack[m].argument
          BY <1>3, <4>3
        <5> QED BY <1>8, <3>1, <3>2, <4>1, <5>1 DEF Left
      <4> QED BY <4>2, <4>3
    <3>4. ASSUME NEW k \in h+1..w.top PROVE LeftArm(w, h, k, l)'
      <4>1. k \in h+1..d
        BY <1>8
      <4>2. LeftArm(u, h, k, l)
        BY <1>8, <2>1, <3>1, <4>1 DEF ViewOk
      <4>3. k \in Nat /\ k > h /\ ArmsStay(h, k)
        BY <2>2, <4>1
      <4> QED BY <2>1, <3>1, <3>2, <4>2, <4>3, LeftArmStays
    <3> QED BY <3>3, <3>4
  <2>6. Covered(w.early) \subseteq At(h)'
    BY <1>8, <2>1, <2>3 DEF ViewOk
  <2>7. ASSUME NEW k \in h+1..w.top PROVE ArmShape(h, k, s)'
    <3>1. k \in 1..d /\ k \in Nat /\ k > h /\ ArmsStay(h, k) /\ ArmShape(h, k, slot)
      <4>1. k \in h+1..d
        BY <1>8
      <4> QED BY <1>8, <2>1, <2>2, <4>1 DEF ViewOk
    <3>2. BreaksOf(k, s)' = BreaksOf(k, slot) /\ Inside(k)' = Inside(k)
      BY <1>3, <1>6, <1>9, <3>1 DEF BreaksOf
    <3> QED BY <2>1, <2>3, <3>1, <3>2, ArmShapeStays
  <2>8. \A l \in w.lanes : Own(w, w.locals, w.argument, l)
    BY <1>13, <2>1
  <2> QED BY <2>4, <2>5, <2>6, <2>7, <2>8 DEF ViewOk
<1>15. ASSUME NEW g \in 2..Depth', IsCall(g)', NEW o, o = Saved(g)', NEW h, FunctionOf(o, h)'
       PROVE  ViewOk(o, h, s)'
  <2>1. o.top = g - 1 /\ g - 1 \in 1..d /\ g \in 1..d /\ g \in 2..Depth
    BY <1>6, <1>15 DEF Saved
  <2>2. h \in 1..o.top
    BY <1>15 DEF FunctionOf
  <2>3. FunctionOf(o, h)
    <3>1. nest'[h] = nest[h] /\ \A i \in h+1..o.top : nest'[i] = nest[i]
      <4>1. h \in 1..d /\ \A i \in h+1..o.top : i \in 1..d
        BY <1>6, <2>1, <2>2
      <4> QED BY <1>6, <4>1
    <3> QED BY <1>15, <2>2, <3>1 DEF FunctionOf, SameFunction
  <2>4. nest'[g] = nest[g] /\ stack'[g] = stack[g]
    BY <1>6, <2>1
  <2>5. o = Saved(g) /\ IsCall(g)
    BY <1>15, <2>4 DEF Saved, IsCall
  <2>6. ViewOk(o, h, slot)
    BY <1>1, <2>1, <2>3, <2>5 DEF ValuesOk
  <2>7. nest[g - 1].kind # "switch"
    BY <1>1, <2>1, <2>5 DEF Nesting, IsCall
  <2> QED BY <1>12, <2>1, <2>2, <2>6, <2>7
<1>16. ASSUME NEW g \in 1..Depth', IsCall(g)' PROVE PassedOn(g)'
  <2>1. g \in 1..d /\ g \in 1..Depth
    BY <1>6
  <2>2. nest'[g] = nest[g] /\ stack'[g] = stack[g]
    BY <1>6, <2>1
  <2>3. IsCall(g)
    BY <1>16, <2>2 DEF IsCall
  <2> QED BY <1>1, <2>1, <2>2, <2>3 DEF PassedOn, ValuesOk
<1>17. memory' = output'
  BY <1>1, <1>3 DEF ValuesOk
<1> QED BY <1>2, <1>14, <1>15, <1>16, <1>17 DEF ValuesOk

-----------------------------------------------------------------------------
(* The inductive invariant.                                                *)
VInv == \E slot, returns : Inductive(slot, returns) /\ ValuesOk(slot)

(* At the start there is one function, in all lanes.                       *)
LEMMA InitValues == Init => VInv
<1> SUFFICES ASSUME Init PROVE VInv
  OBVIOUS
<1>1. PICK slot, returns : Inductive(slot, returns)
  BY InitKeeps DEF IInv
<1>2. /\ Depth = 1 /\ nest[1].kind = "call" /\ nest[1].lanes = Lanes /\ nest[1].target = NoPointer
      /\ stack[1].mask = Lanes /\ wait = [l \in Lanes |-> 0] /\ own = [x \in Locals |-> Zeros]
      /\ locals = own /\ argument = Zeros /\ pointee = Zeros /\ early = <<>>
      /\ memory = Zeros /\ output = Zeros
  BY DEF Init, RunInit, Depth
<1>3. PICK v : v = Current
  OBVIOUS
<1>4. /\ v.top = 1 /\ v.lanes = Running /\ v.locals = own /\ v.argument = pointee
      /\ v.early = <<>> /\ v.own = own /\ v.pointee = pointee
  BY <1>2, <1>3, FieldsBefore DEF Fields
<1>5. At(1) = {} /\ Covered(<<>>) = {}
  BY <1>2, CoveredEmpty DEF At
<1>6. ViewOk(v, 1, slot)
  <2>1. \A l \in v.lanes : Own(v, v.locals, v.argument, l)
    BY <1>4 DEF Own
  <2>2. \A k \in 1+1..v.top : FALSE
    BY <1>4
  <2> QED BY <1>4, <1>5, <2>1, <2>2 DEF ViewOk
<1>7. \A f : FunctionOf(v, f) => f = 1
  BY <1>4 DEF FunctionOf
<1>8. \A g \in 2..Depth : FALSE
  BY <1>2
<1>9. \A g \in 1..Depth : PassedOn(g)
  <2>1. PassedOn(1)
    BY <1>2, Assumptions DEF PassedOn
  <2>2. \A g \in 1..Depth : g = 1
    BY <1>2
  <2> QED BY <2>1, <2>2
<1>10. ValuesOk(slot)
  BY <1>2, <1>3, <1>6, <1>7, <1>8, <1>9 DEF ValuesOk
<1> QED BY <1>1, <1>10 DEF VInv

(* A step in which nothing happens.                                        *)
LEMMA NothingHappens ==
    ASSUME NEW slot, NEW returns, NEW s, NEW r, Between(slot, returns, s, r), UNCHANGED vars
    PROVE  ValuesOk(s)'
<1>1. Inductive(slot, returns) /\ ValuesOk(slot)
  BY BetweenFacts
<1>2. PICK c, f : Now(c, f, slot)
  BY <1>1, NowIs
<1>3. \A l \in Running : (\A y \in Locals : locals[y][l] = own[y][l]) /\ argument[l] = pointee[l]
  BY <1>2 DEF Now, Fields, ViewOk, Own
<1>4. UNCHANGED <<nest, wait, stack, early, breaks, returned, given, locals, own, argument, pointee,
                  memory, output>>
  BY DEF vars, meaningVars, lowererVars
<1>5. memory' = output'
  BY <1>1, <1>4 DEF ValuesOk
<1> QED BY <1>3, <1>4, <1>5, AssignmentKeeps

(* Every action keeps what VInv says of values.                            *)
LEMMA NextValues ==
    ASSUME ~StoreAfterReturn, ~ReturnAfterBreak
    PROVE  VInv /\ [Next]_vars => VInv'
<1> SUFFICES ASSUME VInv, [Next]_vars PROVE \E s : (\E r : Inductive(s, r)') /\ ValuesOk(s)'
  BY DEF VInv
<1>1. PICK slot, returns : Inductive(slot, returns) /\ ValuesOk(slot)
  BY DEF VInv
<1>2. MeaningType /\ LowererType
  BY <1>1 DEF Inductive
<1>3. PICK s, r : Inductive(s, r)'
  <2>1. IInv'
    <3>1. IInv
      BY <1>1 DEF IInv
    <3> QED BY <3>1, NextKeeps
  <2> QED BY <2>1 DEF IInv
<1>4. Between(slot, returns, s, r)
  BY <1>1, <1>3 DEF Between
<1>5. CASE Next
  <2>1. ASSUME NEW x \in Locals, NEW v \in Operands, Store(x, v) PROVE ValuesOk(s)'
    BY <1>4, <2>1, StoreValues
  <2>2. ASSUME NEW v \in Operands, StoreArgumentPointer(v) PROVE ValuesOk(s)'
    BY <1>4, <2>2, StorePointerValues
  <2>3. ASSUME NEW x \in Locals, Emit(x) PROVE ValuesOk(s)'
    BY <1>4, <2>3, EmitValues
  <2>4. ASSUME NEW condition \in Conditions, If(condition) PROVE ValuesOk(s)'
    BY <1>4, <2>4, IfValues
  <2>5. ASSUME Else PROVE ValuesOk(s)'
    BY <1>4, <2>5, ElseValues
  <2>6. ASSUME EndIf PROVE ValuesOk(s)'
    BY <1>4, <2>6, EndIfValues
  <2>7. ASSUME NEW selection \in Selections, NEW cases \in Switches, Switch(selection, cases)
        PROVE  ValuesOk(s)'
    BY <1>4, <2>7, SwitchValues
  <2>8. ASSUME Case PROVE ValuesOk(s)'
    BY <1>4, <2>8, CaseValues
  <2>9. ASSUME EndCase PROVE ValuesOk(s)'
    BY <1>4, <2>9, EndCaseValues
  <2>10. ASSUME Break PROVE ValuesOk(s)'
    BY <1>4, <2>10, BreakValues
  <2>11. ASSUME EndSwitch PROVE ValuesOk(s)'
    BY <1>4, <2>11, EndSwitchValues
  <2>12. ASSUME NEW x \in Locals, Return(x) PROVE ValuesOk(s)'
    BY <1>4, <2>12, ReturnValues
  <2>13. ASSUME NEW target \in Locals \cup {Argument, NoPointer}, Call(target) PROVE ValuesOk(s)'
    BY <1>4, <2>13, CallValues
  <2>14. ASSUME NEW results \in { {} } \cup { {x} : x \in Locals }, EndCall(results)
         PROVE  ValuesOk(s)'
    BY <1>4, <2>14, EndCallValues
  <2>15. ValuesOk(s)'
    BY <1>5, <2>1, <2>2, <2>3, <2>4, <2>5, <2>6, <2>7, <2>8, <2>9, <2>10, <2>11, <2>12, <2>13, <2>14
       DEF Next
  <2> QED BY <1>3, <2>15
<1>6. CASE UNCHANGED vars
  BY <1>3, <1>4, <1>6, NothingHappens
<1> QED BY <1>5, <1>6

(* What VInv says of the function that runs.                               *)
LEMMA RunningValues ==
    ASSUME VInv
    PROVE  /\ LocalsAreOwn /\ EffectsAreOwn /\ ValueIsOwn /\ WritesArePreserved
<1>1. PICK slot, returns : Inductive(slot, returns) /\ ValuesOk(slot)
  BY DEF VInv
<1>2. PICK v, f : Now(v, f, slot)
  BY <1>1, NowIs
<1>3. LocalsAreOwn
  BY <1>2 DEF LocalsAreOwn, Now, Fields, ViewOk, Own
<1>4. EffectsAreOwn
  BY <1>1 DEF EffectsAreOwn, ValuesOk
<1>5. ASSUME AtFunctionEnd, NEW l \in Top.lanes
      PROVE  FinalizeReturn(returned)[l] = given[l] /\ argument[l] = pointee[l]
  <2>1. /\ MeaningType /\ Live /\ Depth \in Nat /\ Depth \in 1..Depth /\ Waiting(Depth, slot)
        /\ returned # NoValue /\ nest[Depth].kind = "call"
    BY <1>1, <1>5, DepthFacts DEF Inductive, MeaningType, AtFunctionEnd, Top
  <2>2. f = Depth
    <3>1. ~(f < Depth)
      BY <1>2, <2>1 DEF Now
    <3> QED BY <1>2, <2>1, <3>1 DEF Now
  <2>3. l \in At(f) /\ l \in Lanes
    <3>1. Running = {}
      BY <2>1 DEF Live
    <3>2. Inside(Depth) = Running
      BY <2>1, InsideTop
    <3>3. Top.lanes = At(Depth) \cup Inside(Depth)
      BY <1>1, <2>1 DEF ValuesOk, IsCall, PassedOn, Waiting, Top
    <3> QED BY <1>5, <2>2, <3>1, <3>2, <3>3 DEF At
  <2>4. Left(v, f, l)
    BY <1>2, <2>3 DEF Now, ViewOk
  <2>5. Reaches(f, v.top, l)
    BY <1>2, <2>1, <2>2 DEF Reaches, Now, Fields
  <2>6. argument[l] = pointee[l] /\ Answers(v, returned, l)
    BY <1>2, <2>4, <2>5 DEF Left, Now, Fields
  <2> QED BY <1>2, <2>3, <2>6 DEF Answers, FinalizeReturn, Now, Fields
<1>6. ValueIsOwn /\ WritesArePreserved
  BY <1>5 DEF ValueIsOwn, WritesArePreserved
<1> QED BY <1>3, <1>4, <1>6


-----------------------------------------------------------------------------
(* A lane that runs finds in its locals and behind its pointer argument    *)
(* what it has put there itself, whatever conditionals, cases, breaks,     *)
(* returns and calls the lowering has merged before; for the programs that *)
(* neither write through a pointer argument after an early return nor      *)
(* return where another lane may have left the same case by a break. For   *)
(* those the lowering is wrong: run pointer_write_after_return, and the    *)
(* findings of the README.                                                 *)
THEOREM LanesFindTheirOwn ==
    ASSUME ~StoreAfterReturn, ~ReturnAfterBreak
    PROVE  Spec => []LocalsAreOwn
<1>1. VInv => LocalsAreOwn
  BY RunningValues
<1>2. VInv /\ [Next]_vars => VInv'
  BY NextValues
<1> QED BY <1>1, <1>2, InitValues, PTL DEF Spec

(* What predicated stores, atomics and image writes leave in memory is     *)
(* what the lanes that execute them would have left: no lane's effect is   *)
(* lost, none happens in a lane that has branched away; same programs.     *)
THEOREM EffectsHappenInPlace ==
    ASSUME ~StoreAfterReturn, ~ReturnAfterBreak
    PROVE  Spec => []EffectsAreOwn
<1>1. VInv => EffectsAreOwn
  BY RunningValues
<1>2. VInv /\ [Next]_vars => VInv'
  BY NextValues
<1> QED BY <1>1, <1>2, InitValues, PTL DEF Spec

(* Every lane that called a function gets the value it returned there, at  *)
(* whichever return that was; same programs.                               *)
THEOREM CallersGetTheirValue ==
    ASSUME ~StoreAfterReturn, ~ReturnAfterBreak
    PROVE  Spec => []ValueIsOwn
<1>1. VInv => ValueIsOwn
  BY RunningValues
<1>2. VInv /\ [Next]_vars => VInv'
  BY NextValues
<1> QED BY <1>1, <1>2, InitValues, PTL DEF Spec

(* And finds its own last write behind the pointer it passed; same         *)
(* programs.                                                               *)
THEOREM CallersGetTheirWrites ==
    ASSUME ~StoreAfterReturn, ~ReturnAfterBreak
    PROVE  Spec => []WritesArePreserved
<1>1. VInv => WritesArePreserved
  BY RunningValues
<1>2. VInv /\ [Next]_vars => VInv'
  BY NextValues
<1> QED BY <1>1, <1>2, InitValues, PTL DEF Spec
============================================================================
