----------------------------- MODULE LoopMeaning ----------------------------
(***************************************************************************)
(* What a structured program with loops means for one invocation, as Naga  *)
(* defines it.  A program is a sequence of statements; a statement is one  *)
(* of                                                                      *)
(*    [op |-> "store", local, from, plus]    local := from + plus          *)
(*    [op |-> "effect", from]                a store to a buffer           *)
(*    [op |-> "if", condition, accept, reject]                             *)
(*    [op |-> "loop", body, continuing, breakIf]                           *)
(*    [op |-> "break"], [op |-> "continue"]                                *)
(*    [op |-> "return", value]               value: none or one operand    *)
(*    [op |-> "call", local, body]           local := an inlined helper    *)
(*    [op |-> "block", body]                 a nested lexical block        *)
(* An operand is a local or the invocation's argument; a condition         *)
(* [of, is, not] compares one with a constant.                             *)
(***************************************************************************)
EXTENDS Naturals, Sequences

CONSTANTS
    Locals, Argument,  \* names
    Modulus,           \* the word arithmetic wraps at
    Fuel               \* iterations after which a program is taken not to end

ASSUME MeaningAssumption ==
    Argument \notin Locals /\ Modulus \in Nat \ {0} /\ Fuel \in Nat

Zeros == [x \in Locals |-> 0]

(* exit: how the statements so far were left ("none": at their end).       *)
Enter(argument) ==
    [locals |-> Zeros, argument |-> argument, output |-> <<>>,
     exit |-> "none", result |-> 0, fuel |-> Fuel]

Read(run, x) == IF x = Argument THEN run.argument ELSE run.locals[x]
IsTrue(run, condition) == (Read(run, condition.of) = condition.is) # condition.not

RECURSIVE Run(_, _)

RECURSIVE Iterate(_, _)
Iterate(run, loop) ==
    LET body == Run([run EXCEPT !.fuel = @ - 1], loop.body)
        end  == Run(IF body.exit = "continue" THEN [body EXCEPT !.exit = "none"] ELSE body,
                    loop.continuing)
        breaks == loop.breakIf # <<>> /\ IsTrue(end, loop.breakIf[1])
    IN  CASE run.fuel = 0 -> [run EXCEPT !.exit = "never"]
          [] run.fuel # 0 /\ end.exit = "break" -> [end EXCEPT !.exit = "none"]
          [] run.fuel # 0 /\ end.exit = "none" -> IF breaks THEN end ELSE Iterate(end, loop)
          [] OTHER -> end

RunCall(run, call) ==
    LET end == Run([run EXCEPT !.locals = Zeros], call.body)
    IN  IF end.exit = "never" THEN end
        ELSE [end EXCEPT !.exit = "none", !.locals = [run.locals EXCEPT ![call.local] = end.result]]

RunStatement(run, s) ==
    CASE s.op = "store" ->
            [run EXCEPT !.locals[s.local] = (Read(run, s.from) + s.plus) % Modulus]
      [] s.op = "effect" -> [run EXCEPT !.output = Append(@, Read(run, s.from))]
      [] s.op = "if" -> Run(run, IF IsTrue(run, s.condition) THEN s.accept ELSE s.reject)
      [] s.op = "loop" -> Iterate(run, s)
      [] s.op = "call" -> RunCall(run, s)
      [] s.op = "block" -> Run(run, s.body)
      [] s.op = "return" ->
            [run EXCEPT !.exit = "return",
                        !.result = IF s.value = <<>> THEN 0 ELSE Read(run, s.value[1])]
      [] OTHER -> [run EXCEPT !.exit = s.op]

Run(run, body) ==
    IF body = <<>> \/ run.exit # "none" THEN run
    ELSE Run(RunStatement(run, Head(body)), Tail(body))

Meaning(program, argument) == Run(Enter(argument), program)
=============================================================================
