-------------------------- MODULE MCStructuredLoops -------------------------
(* Programs for StructuredLoops.                                           *)
EXTENDS StructuredLoops

Set(x, y, n) == [op |-> "store", local |-> x, from |-> y, plus |-> n]
Inc(x) == Set(x, x, 1)
Effect(x) == [op |-> "effect", from |-> x]
If(c, accept, reject) == [op |-> "if", condition |-> c, accept |-> accept, reject |-> reject]
Loop(body, continuing, breakIf) ==
    [op |-> "loop", body |-> body, continuing |-> continuing, breakIf |-> breakIf]
Break == [op |-> "break"]
Continue == [op |-> "continue"]
Return(x) == [op |-> "return", value |-> <<x>>]
ReturnVoid == [op |-> "return", value |-> <<>>]
Call(x, body) == [op |-> "call", local |-> x, body |-> body]
Block(body) == [op |-> "block", body |-> body]

Is(x, n) == [of |-> x, is |-> n, not |-> FALSE]
IsNot(x, n) == [of |-> x, is |-> n, not |-> TRUE]

Observed == <<Effect("v"), Effect("w")>>

(* Ways out of the middle of a body: before it has written a local, and    *)
(* after (the writes go through exit scratch).                             *)
Conditions == {Is("v", 2), IsNot("lane", 0)}
Exits == UNION { { If(c, <<Break>>, <<>>), If(c, <<>>, <<Break>>) } : c \in Conditions }
LateExits == UNION { { If(c, <<Inc("v"), Break>>, <<>>), If(c, <<>>, <<Inc("w"), Block(<<Break>>)>>) } :
                     c \in Conditions }
Skips == UNION { { If(c, <<Continue>>, <<>>), If(c, <<>>, <<Inc("w"), Continue>>) } : c \in Conditions }
Work == {Inc("v"), Inc("w"), Effect("v"), If(Is("v", 1), <<Inc("w"), Effect("w")>>, <<Inc("v")>>)}

Loops(bodies) ==
    { <<Loop(body, continuing, breakIf)>> \o Observed :
        body \in bodies, continuing \in {<<>>, <<Inc("v")>>}, breakIf \in {<<>>} }

Early == { <<a, b, c>> : a \in Exits, b \in Work \cup Skips, c \in Work }
Late == { <<a, b, c>> : a \in LateExits, b \in Work \cup Skips \cup Exits, c \in Work}
   \cup { <<a, b, c>> : a \in Work \cup Skips, b \in LateExits, c \in Work}

(* A body that ends in its break never comes back; one that ends in its    *)
(* continue always does.                                                   *)
Terminal == { <<a, b, c>> : a \in Exits \cup LateExits \cup Skips, b \in Work, c \in {Break, Block(<<Inc("w"), Break>>)} }
AlwaysContinued == { <<a, b, Continue>> : a \in Exits \cup LateExits, b \in Work }

(* An inlined helper that returns from its loop, or after it.              *)
ReturningLoops ==
    { Loop(<<a, If(c, <<Return(x)>>, <<>>), b, Inc("w")>>, <<Inc("v")>>, <<>>) :
        a \in Work \cup Exits \cup Skips, b \in {Effect("w"), Inc("v")}, c \in Conditions, x \in {"v", Argument} }
Helpers ==
    { <<Call("w", <<loop, Effect("v"), Return("w")>>)>> \o Observed : loop \in ReturningLoops }

(* A loop in a loop; and break_if, which a loop with exit scratch may have *)
(* after any writes.                                                       *)
Nested ==
    { <<Loop(<<outer, Loop(<<inner, Inc("w")>>, <<Inc("v")>>, <<>>), Effect("w")>>, <<Inc("v")>>, <<>>)>> \o Observed :
        outer \in Exits \cup LateExits, inner \in Exits \cup LateExits }
BreakIfs ==
    { <<Loop(<<a, b, Inc("w")>>, <<Inc("v")>>, <<c>>)>> \o Observed : a \in LateExits, b \in Exits \cup Skips, c \in Conditions }

(* A loop in one arm of a conditional, which all invocations run through.  *)
Branched ==
    { <<If(c, <<Loop(<<a, b, Inc("w")>>, <<Inc("v")>>, <<>>), Effect("v")>>, <<Inc("w")>>)>> \o Observed :
        c \in {Is("lane", 1), IsNot("lane", 1)}, a \in { s \in Exits \cup LateExits : s.condition.of = "v" }, b \in Work }

(* The locals a loop reads before it writes them are those it writes.      *)
Merged(s) == s.op = "loop" => Carried(s) = Written(s.body) \cup Written(s.continuing)
MCPrograms ==
    { p \in Loops(Early \cup Late \cup Terminal \cup AlwaysContinued)
            \cup Helpers \cup Nested \cup BreakIfs \cup Branched :
        \A k \in DOMAIN p : Merged(p[k]) }

-----------------------------------------------------------------------------
(* Programs that are not lowered to what they mean.                        *)

(* lib.rs:2363: a helper that returns, without a value, from its loop.     *)
ReturnedLanes ==
    { <<Loop(<<If([of |-> "v", is |-> n, not |-> FALSE], <<ReturnVoid>>, <<>>), Inc("v"),
               If(Is("v", 2), <<Break>>, <<>>)>>, <<>>, <<>>), Effect("v")>> : n \in {0, 1} }

(* A local is written on the way to a break that writes nothing itself.    *)
WrittenBeforeBreak ==
    { <<Loop(<<Inc("v"), If(c, <<Break>>, <<>>), Inc("w")>>, <<>>, <<>>)>> \o Observed : c \in Conditions }

(* The break is inside a conditional that is not lowered to a branch.      *)
NestedControl ==
    { <<Loop(<<If(Is("lane", n), <<If(Is("w", 0), <<Inc("v"), Break>>, <<>>)>>, <<Inc("w")>>), Inc("v"),
               If(Is("v", 3), <<Inc("w"), Break>>, <<>>)>>, <<>>, <<>>)>> \o Observed : n \in {0, 1} }

(* Whether the loop ends depends on the condition around it.               *)
DivergentLoops ==
    { <<If(Is("lane", 1), <<Loop(<<If(Is("lane", 1), <<Break>>, <<>>)>>, <<>>, <<>>)>>, <<>>)>> }

(* The last index a loop saw; nothing in the loop reads it.                *)
WriteOnly ==
    { <<Loop(<<If(Is("v", 2), <<Break>>, <<>>), Set("w", "v", 1)>>, <<Inc("v")>>, <<>>)>> \o Observed }

(* A local that a loop with exit scratch reads and does not write.         *)
ReadOnly ==
    { <<Set("w", Argument, 1), Loop(<<If(Is("w", 2), <<Inc("v"), Break>>, <<>>), Inc("v"),
        If(Is("v", 3), <<Break>>, <<>>)>>, <<>>, <<>>)>> \o Observed }
=============================================================================
