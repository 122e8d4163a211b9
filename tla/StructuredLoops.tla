--------------------------- MODULE StructuredLoops --------------------------
(***************************************************************************)
(* Programs with loops, lowered by LoopLowering and executed block by      *)
(* block by one invocation, against what LoopMeaning says they do.  What   *)
(* an invocation does never depends on another one here: the exits of a    *)
(* loop are branches that each invocation takes by itself.                 *)
(***************************************************************************)
EXTENDS LoopLowering

CONSTANTS
    Programs, Arguments,  \* the programs, and the arguments they are run with
    Unwritten,            \* what a register or a scratch slot that has not been
                          \* written may contain
    MaxOutput             \* bound on the number of effects that is followed

ASSUME LoopsAssumption == MaxOutput \in Nat /\ Unwritten \subseteq Nat

VARIABLES
    program,    \* the program that runs
    argument,   \* its argument
    unwritten,  \* the contents of registers that have not been written
    code,       \* the blocks and edges it has been lowered to
    block, pc,  \* the instruction that is executed next; no such block: the end
    registers, scratch,
    output      \* the values that have been stored

vars == <<program, argument, unwritten, code, block, pc, registers, scratch, output>>

Lookup(f, x) == IF x \in DOMAIN f THEN f[x] ELSE unwritten
Holds(p) == (p.register = NoRegister \/ Lookup(registers, p.register) # 0) # p.not
Number(o) == IF o.register = NoRegister THEN o.number ELSE Lookup(registers, o.register)
Bit(b) == IF b THEN 1 ELSE 0

Compute(i) ==
    CASE i.op = "add" -> (Number(i.sources[1]) + i.sources[2].number) % Modulus
      [] i.op = "equal" -> Bit(Number(i.sources[1]) = i.sources[2].number)
      [] i.op = "nonzero" -> Bit(Number(i.sources[1]) # 0)
      [] i.op = "and" -> Bit(Holds(i.sources[1]) /\ Holds(i.sources[2]))
      [] i.op = "or" -> Bit(Holds(i.sources[1]) \/ Holds(i.sources[2]))
      [] i.op = "select" -> Number(IF Holds(i.sources[1]) THEN i.sources[2] ELSE i.sources[3])
      [] i.op = "fill" -> Lookup(scratch, i.sources)

Running == block <= Len(code.blocks)
AtInstruction(op) ==
    Running /\ pc <= Len(code.blocks[block].code) /\ code.blocks[block].code[pc].op \in op
Instruction == code.blocks[block].code[pc]
BlockOf(label) == CHOOSE b \in DOMAIN code.blocks : code.blocks[b].label = label

-----------------------------------------------------------------------------
Init ==
    /\ program \in Programs /\ argument \in Arguments /\ unwritten \in Unwritten
    /\ Meaning(program, argument).exit # "never"
    /\ \E st \in {Lower(program)} : code = [blocks |-> st.blocks, edges |-> st.edges]
    /\ block = 1 /\ pc = 1
    /\ registers = (ArgumentRegister :> argument)
    /\ scratch = <<>> /\ output = <<>>

Advance == pc' = pc + 1 /\ UNCHANGED <<program, argument, unwritten, code, block>>

(* A value is computed; the registers of a phi are written in parallel.    *)
Value ==
    /\ AtInstruction({"add", "equal", "nonzero", "and", "or", "select", "fill"})
    /\ registers' = (Instruction.dst :> Compute(Instruction)) @@ registers
    /\ Advance /\ UNCHANGED <<scratch, output>>

Phi ==
    /\ AtInstruction({"phi"})
    /\ registers' = [r \in DOMAIN Instruction.values |-> Number(Instruction.values[r])] @@ registers
    /\ Advance /\ UNCHANGED <<scratch, output>>

Store ==
    /\ AtInstruction({"store"}) /\ Len(output) <= MaxOutput
    /\ output' = IF Holds(Instruction.predicate)
                 THEN Append(output, Number(Instruction.sources[1])) ELSE output
    /\ Advance /\ UNCHANGED <<registers, scratch>>

Spill ==
    /\ AtInstruction({"spill"})
    /\ scratch' = IF Holds(Instruction.predicate)
                  THEN (Instruction.slot :> Number(Instruction.sources[1])) @@ scratch ELSE scratch
    /\ Advance /\ UNCHANGED <<registers, output>>

(* A branch, or the end of a block, leads to another block.                *)
Jump(b) ==
    block' = b /\ pc' = 1 /\ UNCHANGED <<program, argument, unwritten, code, registers, scratch, output>>

BranchTaken ==
    AtInstruction({"brk", "cont"}) /\ Holds(Instruction.predicate) /\ Jump(BlockOf(Instruction.target))
BranchNotTaken ==
    /\ AtInstruction({"brk", "cont"}) /\ ~Holds(Instruction.predicate)
    /\ Advance /\ UNCHANGED <<registers, scratch, output>>
FallThrough == Running /\ pc > Len(code.blocks[block].code) /\ Jump(block + 1)

Next == Value \/ Phi \/ Store \/ Spill \/ BranchTaken \/ BranchNotTaken \/ FallThrough

Spec == Init /\ [][Next]_vars

(* The machine goes on executing.                                          *)
FairSpec == Spec /\ WF_vars(Next)

-----------------------------------------------------------------------------
(* Properties.                                                             *)
Meant == Meaning(program, argument).output

(* Whatever a loop does, and however it is left, the invocation stores     *)
(* what the program says, in that order, and at the end all of it.         *)
StoresAreMeant == IsPrefix(output, Meant) /\ (~Running => output = Meant)

(* The control-flow graph given to the later passes (replace_blocks) has   *)
(* an edge for every step the code can take: liveness, phis and register   *)
(* allocation rest on it.                                                  *)
EdgesAreDeclared == [][block' <= Len(code.blocks) => <<block, block'>> \in code.edges]_block

(* Code of a program that ends comes to an end.                            *)
Ends == <>~Running
=============================================================================
