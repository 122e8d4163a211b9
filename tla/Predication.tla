----------------------------- MODULE Predication ----------------------------
(***************************************************************************)
(* crates/deko-shader-compiler/src/lower.rs: structured control flow other *)
(* than loops becomes straight-line code.  Both arms of a conditional run  *)
(* in every lane, values are merged with selects, side effects carry the   *)
(* execution predicate, returns and switch breaks are remembered together  *)
(* with the predicate under which they were taken.                         *)
(*                                                                         *)
(* The lowerer's state is followed while it walks over a program.  An SSA  *)
(* value stands for its contents in every lane, a predicate for the lanes  *)
(* in which it is true: straight-line code is executed as it is emitted.   *)
(* The same walk is given its meaning by Invocations, and the two are      *)
(* compared.                                                               *)
(***************************************************************************)
EXTENDS Invocations

CONSTANTS
    Operands,         \* the lane-values programs compute: a set of Words
    Conditions,       \* the conditions programs branch on: sets of lanes
    Selections,       \* what switches select on: functions from lanes to Selectors
    Switches,         \* the switches of programs: sequences of sets of labels
    NoValue,
    StoreAfterReturn, \* programs may write through a pointer argument after an
                      \* early return of the same function
    ReturnAfterBreak, \* programs may return where another lane may have left the
                      \* same switch case by a break
    MaxStatements, MaxDepth  \* bounds on a program's size and nesting

ASSUME PredicationAssumption ==
    /\ Operands \subseteq Word /\ Conditions \subseteq SUBSET Lanes
    /\ Selections \subseteq [Lanes -> Selectors]
    /\ \A cases \in Switches :
          /\ cases \in Seq(SUBSET (Selectors \cup {Default}))
          \* Naga's validator refuses a label that is there twice
          /\ \A j, k \in DOMAIN cases : j # k => cases[j] \cap cases[k] = {}
    /\ NoValue \notin Word
    /\ StoreAfterReturn \in BOOLEAN /\ ReturnAfterBreak \in BOOLEAN
    /\ MaxStatements \in Nat /\ MaxDepth \in Nat

VARIABLES
    mask,      \* execution_predicate
    locals,    \* locals
    argument,  \* arguments[0], the function's pointer argument if it has one
    early,     \* early_returns: [lanes, value] in the order they were pushed
    breaks,    \* switches: for each switch being lowered, its break_edges
    stack,     \* the calls of the lowerer that are open, beside `nest`
    returned,  \* what execute_statements returns for the block: a value or NoValue
    broke,     \* the block ended in a break (Naga admits no statement after it)
    memory,    \* memory[l]: what the predicated stores have left for lane l
    size       \* statements of the program so far

lowererVars == <<mask, locals, argument, early, breaks, stack, returned, broke, memory>>
vars == <<meaningVars, lowererVars, size>>

Inner == stack[Depth]
Select(condition, accept, reject) ==
    [l \in Lanes |-> IF l \in condition THEN accept[l] ELSE reject[l]]

LastBreaks == breaks[Len(breaks)]
SwitchBreakCount == IF breaks = <<>> THEN 0 ELSE Len(LastBreaks)
EdgesBefore == [returns |-> Len(early), breaks |-> SwitchBreakCount]

(* A statement may come next; it counts against the bounds.                *)
Statement ==
    /\ Top.kind # "switch" /\ returned = NoValue /\ ~broke
    /\ size < MaxStatements /\ size' = size + 1
Opens == Depth < MaxDepth

-----------------------------------------------------------------------------
Store(x, v) ==
    /\ Statement /\ RunStore(x, v)
    /\ locals' = [locals EXCEPT ![x] = v]
    /\ UNCHANGED <<mask, argument, early, breaks, stack, returned, broke, memory>>

MayStorePointer == StoreAfterReturn \/ early = <<>>

StoreArgumentPointer(v) ==
    /\ Statement /\ nest[Function].target # NoPointer /\ MayStorePointer
    /\ RunStorePointer(v)
    /\ argument' = v
    /\ UNCHANGED <<mask, locals, early, breaks, stack, returned, broke, memory>>

(* What emit does with a store, an atomic, an image write or a kill.       *)
PredicatedAlways(x) == locals[x]
Predicated(x) == Update(memory, mask, locals[x])

Emit(x) ==
    /\ Statement /\ RunEffect(x)
    /\ memory' = Predicated(x)
    /\ UNCHANGED <<mask, locals, argument, early, breaks, stack, returned, broke>>

-----------------------------------------------------------------------------
(* What is left of an arm once execute_statements is through with it.      *)
ArmBreaksForgotten(before) ==
    [value |-> returned, locals |-> locals, argument |-> argument,
     mask |-> IF returned # NoValue THEN {} ELSE mask,
     partial |-> returned = NoValue /\ Len(early) # before.returns]
Arm(before) ==
    [value |-> returned, locals |-> locals, argument |-> argument,
     mask |-> IF returned # NoValue THEN {} ELSE mask,
     partial |-> returned = NoValue /\ EdgesBefore # before]
EmptyArmUnrestored(c) ==
    [value |-> NoValue, locals |-> locals, argument |-> c.argument,
     mask |-> c.parent \ c.condition, partial |-> FALSE]
EmptyArm(c) ==
    [value |-> NoValue, locals |-> c.locals, argument |-> c.argument,
     mask |-> c.parent \ c.condition, partial |-> FALSE]

Conditional(condition) ==
    [condition |-> condition, parent |-> mask, locals |-> locals, argument |-> argument,
     before |-> EdgesBefore, accepted |-> NoValue]

Accept(condition) ==
    /\ stack' = Append(stack, Conditional(condition))
    /\ mask' = mask \cap condition
    /\ UNCHANGED <<locals, argument, early, breaks, returned, broke, memory>>

(* The accepted arm is through: start over from the state before it.       *)
RestoredArgument(c) == c.argument

Reject ==
    LET c == Inner IN
    /\ stack' = [stack EXCEPT ![Depth].accepted = Arm(c.before),
                              ![Depth].before = EdgesBefore]
    /\ mask' = c.parent \ c.condition
    /\ locals' = c.locals /\ argument' = RestoredArgument(c)
    /\ returned' = NoValue /\ broke' = FALSE
    /\ UNCHANGED <<early, breaks, memory>>

(* The end of conditional(): merge the arms.                               *)
MergedMask(c, accepted, rejected) ==
    IF accepted.partial \/ rejected.partial THEN accepted.mask \cup rejected.mask ELSE c.parent

MergedArgumentOfLive(c, accepted, rejected) ==
    IF accepted.value # NoValue THEN rejected.argument
    ELSE Select(c.condition, accepted.argument, rejected.argument)
MergedArgument(c, accepted, rejected) ==
    Select(c.condition, accepted.argument, rejected.argument)

Merge(c, accepted, rejected) ==
    /\ argument' = MergedArgument(c, accepted, rejected)
    /\ \/ /\ accepted.value # NoValue /\ rejected.value # NoValue
          /\ returned' = Select(c.condition, accepted.value, rejected.value)
          /\ mask' = c.parent
          /\ locals' = rejected.locals
          /\ UNCHANGED early
       \/ /\ accepted.value # NoValue /\ rejected.value = NoValue
          /\ early' = Append(early, [lanes |-> c.parent \cap c.condition, value |-> accepted.value])
          /\ mask' = rejected.mask /\ locals' = rejected.locals
          /\ returned' = NoValue
       \/ /\ accepted.value = NoValue /\ rejected.value # NoValue
          /\ early' = Append(early, [lanes |-> c.parent \ c.condition, value |-> rejected.value])
          /\ mask' = accepted.mask /\ locals' = accepted.locals
          /\ returned' = NoValue
       \/ /\ accepted.value = NoValue /\ rejected.value = NoValue
          /\ locals' = [x \in Locals |->
                          Select(c.condition, accepted.locals[x], rejected.locals[x])]
          /\ mask' = MergedMask(c, accepted, rejected)
          /\ returned' = NoValue
          /\ UNCHANGED early
    /\ broke' = FALSE
    /\ UNCHANGED <<breaks, memory>>

If(condition) ==
    Statement /\ Opens /\ RunIf(condition) /\ Accept(condition) 

(* An arm that returns a value although some lane broke out of it.         *)
MayEndArm(before) ==
    ReturnAfterBreak \/ returned = NoValue \/ SwitchBreakCount = before.breaks

Else == RunElse /\ MayEndArm(Inner.before) /\ Reject /\ UNCHANGED size

EndIf ==
    /\ RunEndIf /\ MayEndArm(Inner.before)
    /\ Merge(Inner, Inner.accepted, Arm(Inner.before))
    /\ stack' = SubSeq(stack, 1, Depth - 1)
    /\ UNCHANGED size

-----------------------------------------------------------------------------
(* lower_simple_switch leaves the default for the end; with grouped labels *)
(* the groups are taken as they come.                                      *)
Grouped(cases) == \E k \in DOMAIN cases : \E a, b \in cases[k] : a # b
DefaultLast(cases, d) ==
    [k \in DOMAIN cases |-> IF k < d THEN cases[k]
                            ELSE IF k < Len(cases) THEN cases[k + 1] ELSE cases[d]]
LoweringOrder(cases) ==
    IF Grouped(cases) \/ \A k \in DOMAIN cases : Default \notin cases[k] THEN cases
    ELSE DefaultLast(cases, CHOOSE k \in DOMAIN cases : Default \in cases[k])

Selected(selection, labels) == { l \in Lanes : selection[l] \in labels }
Literals(cases) == (UNION { cases[k] : k \in DOMAIN cases }) \ {Default}

(* The condition of a case: `matched` are the lanes that some literal      *)
(* matches (of the cases lowered so far, when they are not grouped).       *)
CaseCondition(s, labels) ==
    Selected(s.selection, labels) \cup (IF Default \in labels THEN Lanes \ s.matched ELSE {})

(* In the text: the lanes whose selector is one of the labels, or for the  *)
(* default is no label of the switch.                                      *)
Taken(s, labels) ==
    { l \in Lanes : \/ s.selection[l] \in labels
                    \/ Default \in labels /\ s.selection[l] \notin Literals(s.cases) }

Switch(selection, cases) ==
    /\ Statement /\ Opens /\ RunSwitch
    /\ stack' = Append(stack,
          [selection |-> selection, cases |-> cases, todo |-> LoweringOrder(cases),
           matched |-> IF Grouped(cases) THEN Selected(selection, Literals(cases)) ELSE {}])
    /\ breaks' = Append(breaks, <<>>)
    /\ UNCHANGED <<mask, locals, argument, early, returned, broke, memory>>

Case ==
    LET s == Inner IN
    /\ Top.kind = "switch" /\ s.todo # <<>>
    /\ RunCase(Taken(s, Head(s.todo)))
    /\ Accept(CaseCondition(s, Head(s.todo)))
    /\ UNCHANGED size

(* The literal of the case just lowered is matched from now on.            *)
AfterCase(s, condition) ==
    [s EXCEPT !.todo = Tail(@),
              !.matched = IF Grouped(s.cases) THEN @ ELSE @ \cup condition]

(* The case's conditional has no other arm.                                *)
EndCase ==
    /\ RunEndCase /\ MayEndArm(Inner.before)
    /\ Merge(Inner, Arm(Inner.before), EmptyArm(Inner))
    /\ stack' = Append(SubSeq(stack, 1, Depth - 2),
                       AfterCase(stack[Depth - 1], Inner.condition))
    /\ UNCHANGED size

Break ==
    /\ Statement /\ RunBreak
    /\ breaks' = [breaks EXCEPT ![Len(breaks)] =
                    IF mask = {} THEN @
                    ELSE Append(@, [lanes |-> mask, locals |-> locals, argument |-> argument])]
    /\ mask' = {} /\ broke' = TRUE
    /\ UNCHANGED <<locals, argument, early, stack, returned, memory>>

(* Entries are selected from the last to the first: the first one that     *)
(* covers a lane decides.                                                  *)
FirstIsLast(entries, l) ==
    CHOOSE k \in DOMAIN entries :
        l \in entries[k].lanes /\ \A j \in k+1..Len(entries) : l \notin entries[j].lanes
First(entries, l) ==
    CHOOSE k \in DOMAIN entries :
        l \in entries[k].lanes /\ \A j \in 1..k-1 : l \notin entries[j].lanes
Covered(entries) == UNION { entries[k].lanes : k \in DOMAIN entries }

(* merge_switch_breaks                                                     *)
EndSwitch ==
    /\ RunEndSwitch /\ Inner.todo = <<>>
    /\ mask' = mask \cup Covered(LastBreaks)
    /\ locals' = [x \in Locals |-> [l \in Lanes |->
                    IF l \in Covered(LastBreaks) THEN LastBreaks[First(LastBreaks, l)].locals[x][l]
                                                 ELSE locals[x][l]]]
    /\ argument' = [l \in Lanes |->
                    IF l \in Covered(LastBreaks) THEN LastBreaks[First(LastBreaks, l)].argument[l]
                                                 ELSE argument[l]]
    /\ breaks' = SubSeq(breaks, 1, Len(breaks) - 1)
    /\ stack' = SubSeq(stack, 1, Depth - 1)
    /\ UNCHANGED <<early, returned, broke, memory, size>>

-----------------------------------------------------------------------------
Return(x) ==
    /\ Statement /\ RunReturn(x)
    /\ returned' = locals[x]
    /\ UNCHANGED <<mask, locals, argument, early, breaks, stack, broke, memory>>

FinalizeReturn(value) ==
    [l \in Lanes |-> IF l \in Covered(early) THEN early[First(early, l)].value[l] ELSE value[l]]

(* inline_call and inline_void_call: the callee is lowered in place, under *)
(* the caller's mask and inside the caller's switches.                     *)
Call(target) ==
    /\ Statement /\ Opens
    /\ target = Argument => nest[Function].target # NoPointer /\ MayStorePointer
    /\ RunCall(target)
    /\ stack' = Append(stack, [mask |-> mask, locals |-> locals, argument |-> argument,
                               early |-> early])
    /\ locals' = [x \in Locals |-> Zeros]
    /\ argument' = CASE target \in Locals -> locals[target]
                     [] target = Argument -> argument
                     [] OTHER -> Zeros
    /\ early' = <<>>
    /\ UNCHANGED <<mask, breaks, returned, broke, memory>>

(* write_back_call_pointer_arguments, then the statement that keeps the    *)
(* call's value, if it has one, in a local.                                *)
EndCall(results) ==
    LET caller == Inner IN
    /\ results # {} => returned # NoValue \* "missing return value" otherwise
    /\ RunEndCall(results)
    /\ mask' = caller.mask /\ early' = caller.early
    /\ locals' = [x \in Locals |-> CASE x \in results -> FinalizeReturn(returned)
                                      [] x = Top.target /\ x \notin results -> argument
                                      [] OTHER -> caller.locals[x]]
    /\ argument' = IF Top.target = Argument THEN argument ELSE caller.argument
    /\ stack' = SubSeq(stack, 1, Depth - 1)
    /\ returned' = NoValue
    /\ UNCHANGED <<breaks, broke, memory, size>>

-----------------------------------------------------------------------------
Init ==
    /\ RunInit
    /\ mask = Lanes /\ locals = own /\ argument = Zeros
    /\ early = <<>> /\ breaks = <<>> /\ returned = NoValue /\ broke = FALSE
    /\ stack = <<[mask |-> Lanes, locals |-> own, argument |-> Zeros, early |-> <<>>]>>
    /\ memory = Zeros /\ size = 0

Next ==
    \/ \E x \in Locals, v \in Operands : Store(x, v)
    \/ \E v \in Operands : StoreArgumentPointer(v)
    \/ \E x \in Locals : Emit(x)
    \/ \E condition \in Conditions : If(condition)
    \/ Else
    \/ EndIf
    \/ \E selection \in Selections, cases \in Switches : Switch(selection, cases)
    \/ Case
    \/ EndCase
    \/ Break
    \/ EndSwitch
    \/ \E x \in Locals : Return(x)
    \/ \E target \in Locals \cup {Argument, NoPointer} : Call(target)
    \/ \E results \in { {} } \cup { {x} : x \in Locals } : EndCall(results)

Spec == Init /\ [][Next]_vars

-----------------------------------------------------------------------------
AtStatement == Top.kind # "switch" /\ returned = NoValue /\ ~broke

(* The execution predicate of every statement is the set of lanes that     *)
(* execute it: through nested conditionals, early returns, switch breaks   *)
(* and calls.                                                              *)
MaskIsLive == AtStatement => mask = Running

(* A lane that runs finds in its locals and behind its pointer argument    *)
(* what it has put there itself: no merge of two arms, of a switch's       *)
(* breaks or of a call's results gives it the value of an arm it did not   *)
(* take.                                                                   *)
LocalsAreOwn ==
    AtStatement => \A l \in Running :
        /\ \A x \in Locals : locals[x][l] = own[x][l]
        /\ argument[l] = pointee[l]

(* A store happens in the lanes that execute it and in no other.           *)
EffectsAreOwn == memory = output

(* At the end of a function every lane that called it gets the value it    *)
(* has returned, wherever in the function that was.                        *)
AtFunctionEnd == Top.kind = "call" /\ returned # NoValue

ValueIsOwn ==
    AtFunctionEnd => \A l \in Top.lanes : FinalizeReturn(returned)[l] = given[l]

(* And finds behind the pointer it passed what it has written there: no    *)
(* lane's write is lost to one that another lane made later.               *)
WritesArePreserved ==
    AtFunctionEnd => \A l \in Top.lanes : argument[l] = pointee[l]
=============================================================================
