----------------------------- MODULE Invocations ----------------------------
(***************************************************************************)
(* What a structured shader means.  Every invocation (lane) of a Naga      *)
(* function runs it by itself; a lane that has not taken a branch, has     *)
(* broken out of a switch or has returned waits for the end of that        *)
(* construct.  The meaning is Naga's, as lower.rs takes it: this is what   *)
(* the predicated code of module Predication is measured against.          *)
(*                                                                         *)
(* A program is a walk through the actions: Store, If, Else, EndIf, ... are *)
(* its statements in the order of the text, each with its operands.  A     *)
(* condition is the set of lanes in which it is true.                      *)
(***************************************************************************)
EXTENDS Naturals, Sequences

CONSTANTS
    Lanes,      \* the invocations of a warp
    Locals,     \* the local variables of a function (of every function)
    Values, Zero,
    Selectors,  \* what a switch can select on; those without a case are included
    Default,    \* the label of the default case
    Argument,   \* "the pointer this function was given", passed on to a callee
    NoPointer   \* a callee without a pointer parameter

ASSUME InvocationsAssumption ==
    /\ Zero \in Values
    /\ Default \notin Selectors
    /\ Argument \notin Locals /\ NoPointer \notin Locals /\ Argument # NoPointer

VARIABLES
    nest,    \* the open constructs, outermost first
    wait,    \* wait[l]: 0 when lane l runs, or the construct whose end it waits for
    own,     \* own[x][l]: local x of lane l in the function that runs
    pointee, \* pointee[l]: what the function's pointer argument points at
    given,   \* given[l]: the value lane l returned last
    output   \* output[l]: what lane l has stored in memory

meaningVars == <<nest, wait, own, pointee, given, output>>

Word == [Lanes -> Values]
Zeros == [l \in Lanes |-> Zero]
Depth == Len(nest)
Top == nest[Depth]
Running == { l \in Lanes : wait[l] = 0 }

(* The function that runs, and the switch a break leaves if there is one.  *)
Innermost(kind) == CHOOSE k \in 1..Depth :
                      nest[k].kind = kind /\ \A j \in k+1..Depth : nest[j].kind # kind
Function == Innermost("call")
InSwitch == \E k \in 1..Depth : k > Function /\ nest[k].kind = "switch"

Update(word, lanes, value) == [l \in Lanes |-> IF l \in lanes THEN value[l] ELSE word[l]]
Park(lanes, k) == [l \in Lanes |-> IF l \in lanes THEN k ELSE wait[l]]
Pop == SubSeq(nest, 1, Depth - 1)
(* The lanes that waited for the end of the construct on top run again.    *)
Resume == [l \in Lanes |-> IF wait[l] = Depth THEN 0 ELSE wait[l]]

Frame(kind, lanes) == [kind |-> kind, lanes |-> lanes]

RunStore(x, v) ==
    /\ own' = [own EXCEPT ![x] = Update(@, Running, v)]
    /\ UNCHANGED <<nest, wait, pointee, given, output>>

RunStorePointer(v) ==
    /\ pointee' = Update(pointee, Running, v)
    /\ UNCHANGED <<nest, wait, own, given, output>>

RunEffect(x) ==
    /\ output' = Update(output, Running, own[x])
    /\ UNCHANGED <<nest, wait, own, pointee, given>>

RunIf(condition) ==
    /\ nest' = Append(nest, Frame("if", Running \ condition))
    /\ wait' = Park(Running \ condition, Depth + 1)
    /\ UNCHANGED <<own, pointee, given, output>>

RunElse ==
    /\ Top.kind = "if"
    /\ nest' = [nest EXCEPT ![Depth].kind = "else"]
    /\ wait' = [l \in Lanes |-> IF l \in Top.lanes THEN 0
                                ELSE IF l \in Running THEN Depth ELSE wait[l]]
    /\ UNCHANGED <<own, pointee, given, output>>

RunEndIf ==
    /\ Top.kind = "else"
    /\ nest' = Pop /\ wait' = Resume
    /\ UNCHANGED <<own, pointee, given, output>>

RunSwitch ==
    /\ nest' = Append(nest, Frame("switch", Running))
    /\ wait' = Park(Running, Depth + 1)
    /\ UNCHANGED <<own, pointee, given, output>>

(* `taken`: the lanes whose selector leads to this case.                   *)
RunCase(taken) ==
    /\ Top.kind = "switch"
    /\ nest' = Append(nest, Frame("case", Top.lanes \cap taken))
    /\ wait' = Park(Top.lanes \cap taken, 0)
    /\ UNCHANGED <<own, pointee, given, output>>

RunEndCase ==
    /\ Top.kind = "case"
    /\ nest' = Pop /\ wait' = Park(Running, Depth - 1)
    /\ UNCHANGED <<own, pointee, given, output>>

RunBreak ==
    /\ InSwitch
    /\ wait' = Park(Running, Innermost("switch"))
    /\ UNCHANGED <<nest, own, pointee, given, output>>

RunEndSwitch ==
    /\ Top.kind = "switch"
    /\ nest' = Pop /\ wait' = Resume
    /\ UNCHANGED <<own, pointee, given, output>>

RunReturn(x) ==
    /\ given' = Update(given, Running, own[x])
    /\ wait' = Park(Running, Function)
    /\ UNCHANGED <<nest, own, pointee, output>>

(* The callee starts with fresh locals and a pointer to `target`.          *)
RunCall(target) ==
    /\ nest' = Append(nest, [kind |-> "call", lanes |-> Running, target |-> target,
                             own |-> own, pointee |-> pointee])
    /\ own' = [x \in Locals |-> Zeros]
    /\ pointee' = CASE target \in Locals -> own[target]
                    [] target = Argument -> pointee
                    [] OTHER -> Zeros
    /\ UNCHANGED <<wait, given, output>>

(* The caller's lanes go on; each finds its own writes through the pointer, *)
(* and the value it returned in the locals `results` (none or one).        *)
RunEndCall(results) ==
    /\ Top.kind = "call" /\ Depth > 1
    /\ nest' = Pop /\ wait' = Resume
    /\ own' = [x \in Locals |->
                 CASE x \in results -> Update(Top.own[x], Top.lanes, given)
                   [] x = Top.target /\ x \notin results ->
                        Update(Top.own[x], Top.lanes, pointee)
                   [] OTHER -> Top.own[x]]
    /\ pointee' = IF Top.target = Argument THEN Update(Top.pointee, Top.lanes, pointee)
                                           ELSE Top.pointee
    /\ UNCHANGED <<given, output>>

RunInit ==
    /\ nest = <<[kind |-> "call", lanes |-> Lanes, target |-> NoPointer,
                 own |-> [x \in Locals |-> Zeros], pointee |-> Zeros]>>
    /\ wait = [l \in Lanes |-> 0]
    /\ own = [x \in Locals |-> Zeros]
    /\ pointee = Zeros /\ given = Zeros /\ output = Zeros
=============================================================================
