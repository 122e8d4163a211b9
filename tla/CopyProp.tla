------------------------------ MODULE CopyProp ------------------------------
(***************************************************************************)
(* crates/deko-nak/src/opt_copy_prop.rs: a use of a value that is a copy   *)
(* becomes a use of what it is a copy of, also when the copy is an         *)
(* addition of zero that negates, or a boolean that was made an integer    *)
(* and back.  Of the instructions it knows, those are here that lower.rs   *)
(* emits: "fadd", "iadd" (and "iadd carry", which writes a carry), "sel",  *)
(* "iseteq" and "isetne" (ISetP), and copies.  "fop" reads floats, "mov"   *)
(* plain words, "psetp" predicates, everything else general registers.     *)
(*                                                                         *)
(* An instruction has a modifier for each source (mods; none if empty) and *)
(* may be executed where its predicate is false (inverted).  A word has a  *)
(* sign bit and the bits below it; predicates and literals are numbers.    *)
(***************************************************************************)
EXTENDS Liveness

CONSTANT SignBit    \* 2^31 in the code

Literal(n) == <<"immediate", <<n, "immediate">>>>
Zero == Literal(0)
Words == 0 .. 2 * SignBit - 1

ModOf(instr, k) == IF instr.mods = <<>> THEN "none" ELSE instr.mods[k]
Source(instr, k) == [src |-> instr.srcs[k][1], mod |-> ModOf(instr, k)]

(* SrcMod::modify, which panics when the two are of different types.       *)
FloatNeg == ("none" :> "FNeg") @@ ("FNeg" :> "none") @@ ("FAbs" :> "FNegAbs") @@ ("FNegAbs" :> "FAbs")
Modify(inner, outer) ==
    CASE outer = "none" -> inner
      [] outer = inner /\ inner \in {"INeg", "BNot"} -> "none"
      [] outer \in {"INeg", "BNot"} /\ inner = "none" -> outer
      [] outer = "FNeg" /\ inner \in DOMAIN FloatNeg -> FloatNeg[inner]
      [] outer \in {"FAbs", "FNegAbs"} /\ inner \in DOMAIN FloatNeg -> outer
      [] OTHER -> "panic"

(* A word as a source of type `type` reads it.                             *)
Under(type, mod, word) ==
    CASE mod = "none" -> word
      [] mod = "FNeg" /\ type = "F32" -> (word + SignBit) % (2 * SignBit)
      [] mod = "FAbs" /\ type = "F32" -> word % SignBit
      [] mod = "FNegAbs" /\ type = "F32" -> SignBit + (word % SignBit)
      [] mod = "INeg" /\ type = "I32" -> (2 * SignBit - word) % (2 * SignBit)
      [] mod = "BNot" /\ type = "Pred" -> 1 - word
      [] OTHER -> -1

TypeOf(instr, k) ==
    CASE instr.op \in {"fadd", "fop"} -> "F32"
      [] instr.op \in {"iadd", "iadd carry"} -> "I32"
      [] instr.op = "psetp" \/ (instr.op = "sel" /\ k = 1) -> "Pred"
      [] instr.op \in {"sel", "iseteq", "isetne", "mov"} -> "ALU"
      [] OTHER -> "GPR"

(* Mutant: what an addition with carry is no exception.                    *)
CarryIsNoException(instr, k) == TypeOf(instr, k)

(* force_alu_src_type: "Carry-out and overflow interact funny with         *)
(* SrcMod::INeg".                                                          *)
PropagatedAs(instr, k) == IF instr.op = "iadd carry" THEN "ALU" ELSE TypeOf(instr, k)

-----------------------------------------------------------------------------
(* try_add_instr: what the pass knows of a value, ssa_map.                 *)
Entry(kind, type, o) == [kind |-> kind, type |-> type, src |-> o.src, mod |-> o.mod]

IsFNegZero(o) == ~IsSsa(o.src) /\ Under("F32", o.mod, o.src[2][1]) = SignBit
IsZero(o) == o.src = Zero /\ o.mod \in {"none", "FAbs"}
IsNonzero(o) == ~IsSsa(o.src) /\ o.src # Zero
NotOf(o) == [o EXCEPT !.mod = Modify(@, "BNot")]

(* What it adds to nothing, compares with zero, or makes a number of.      *)
Summand(instr, neutral) ==
    CASE 1 \in neutral -> {Source(instr, 2)}
      [] 2 \in neutral -> {Source(instr, 1)}
      [] OTHER -> {}
FloatSummand(instr) == Summand(instr, { k \in {1, 2} : IsFNegZero(Source(instr, k)) })
WordSummand(instr) == Summand(instr, { k \in {1, 2} : IsZero(Source(instr, k)) })
SelectedFlag(instr) ==
    CASE IsZero(Source(instr, 2)) /\ IsNonzero(Source(instr, 3)) -> {NotOf(Source(instr, 1))}
      [] IsNonzero(Source(instr, 2)) /\ IsZero(Source(instr, 3)) -> {Source(instr, 1)}
      [] OTHER -> {}

(* add_i2b: "Fold i2b(b2i(x))"                                             *)
IsFlag(map, o) ==
    o.mod \in {"none", "INeg"} /\ o.src \in DOMAIN map /\ map[o.src].kind = "b2i"
FoldedFlag(flag, o, inverted) ==
    LET read == [src |-> flag.src, mod |-> Modify(flag.mod, o.mod)]
    IN  IF inverted THEN NotOf(read) ELSE read

Learned(map, instr) ==
    CASE instr.op = "fadd" -> { Entry("copy", "F32", o) : o \in FloatSummand(instr) }
      [] instr.op \in {"iadd", "iadd carry"} ->
            { Entry("copy", "I32", o) : o \in WordSummand(instr) }
      [] instr.op = "sel" -> { Entry("b2i", "Pred", o) : o \in SelectedFlag(instr) }
      [] instr.op \in {"iseteq", "isetne"} ->
            { Entry("copy", "Pred", FoldedFlag(map[o.src], o, instr.op = "iseteq")) :
              o \in { tested \in WordSummand(instr) : IsFlag(map, tested) } }
      [] instr.op = "copy" -> {Entry("copy", "GPR", Source(instr, 1))}
      [] OTHER -> {}

TryAdd(map, instr) ==
    With(Learned(map, instr), LAMBDA learned :
         [v \in { instr.dsts[1][1] : e \in learned } |-> CHOOSE e \in learned : TRUE] @@ map)

-----------------------------------------------------------------------------
(* prop_to_pred.                                                           *)
IsCopied(map, v) == v \in DOMAIN map /\ map[v].kind = "copy"

RECURSIVE ToPred(_, _)
ToPred(map, p) ==
    IF \A v \in p.pred : ~IsCopied(map, v) THEN p
    ELSE With(map[CHOOSE v \in p.pred : TRUE], LAMBDA e :
              ToPred(map, [pred |-> IF IsSsa(e.src) THEN {e.src} ELSE {},
                           inverted |-> (p.inverted # (e.src = Zero)) # (e.mod = "BNot")]))

(* prop_to_ssa_values and prop_to_gpr_src: only registers, or all zeros.   *)
RECURSIVE ToSsa(_, _)
ToSsa(map, v) ==
    IF IsCopied(map, v) /\ map[v].mod = "none" /\ IsSsa(map[v].src)
    THEN ToSsa(map, map[v].src) ELSE v

ToGpr(map, vec) ==
    With([c \in DOMAIN vec |-> ToSsa(map, vec[c])], LAMBDA found :
         IF \A c \in DOMAIN found : IsCopied(map, found[c]) /\ map[found[c]].src = Zero
         THEN <<Zero>> ELSE found)

(* Mutant: a modifier is thought to mean the same to every type.           *)
AnyTypeFits(entry, type) == TRUE

(* "If there are modifiers ... the source types have to match"             *)
TypeFits(entry, type) == entry.mod = "none" \/ entry.type = type

(* prop_to_scalar_src                                                      *)
RECURSIVE ToScalar(_, _, _)
ToScalar(map, type, o) ==
    IF ~IsCopied(map, o.src) \/ (IsCopied(map, o.src) /\ ~TypeFits(map[o.src], type)) THEN o
    ELSE ToScalar(map, type, [src |-> map[o.src].src, mod |-> Modify(map[o.src].mod, o.mod)])

ToSources(map, instr) ==
    With([k \in DOMAIN instr.srcs |->
            IF PropagatedAs(instr, k) = "GPR" THEN [vec |-> ToGpr(map, instr.srcs[k]), mod |-> "none"]
            ELSE LET o == ToScalar(map, PropagatedAs(instr, k), Source(instr, k))
                 IN  [vec |-> <<o.src>>, mod |-> o.mod]], LAMBDA found :
         [instr EXCEPT !.srcs = [k \in DOMAIN @ |-> found[k].vec],
                       !.mods = [k \in DOMAIN @ |-> found[k].mod]])

ToInstr(map, instr) ==
    With(ToPred(map, [pred |-> instr.pred, inverted |-> instr.inverted]), LAMBDA p :
         [ToSources(map, instr) EXCEPT !.pred = IF p.pred = {} /\ p.inverted THEN Never ELSE p.pred,
                                       !.inverted = p.inverted /\ p.pred # {}])

(* run: an instruction is known before its own sources are replaced.       *)
CopyPropagated(blocks) ==
    Through(LAMBDA acc, block :
        With(Through(LAMBDA a, instr :
                With(TryAdd(a.map, instr), LAMBDA map : [map |-> map, code |-> Append(a.code, ToInstr(map, instr))]),
                [map |-> acc.map, code |-> <<>>], block), LAMBDA a :
             [map |-> a.map, blocks |-> Append(acc.blocks, a.code)]),
        [map |-> <<>>, blocks |-> <<>>], blocks).blocks
-----------------------------------------------------------------------------
(* What instructions compute; the results of others can be anything.       *)
Computing == {"fadd", "iadd", "iadd carry", "sel", "iseteq", "isetne", "copy"}
Computed(blocks) ==
    LET instrs == { i \in UNION { Range(blocks[b]) : b \in DOMAIN blocks } : i.op \in Computing }
    IN  [v \in { i.dsts[1][1] : i \in instrs } |-> CHOOSE i \in instrs : i.dsts[1][1] = v]

Signed(word) == IF word < SignBit THEN word ELSE SignBit - word
Clipped(n) == IF n < SignBit THEN n ELSE SignBit - 1
FAdd(x, y) ==
    LET sum == Signed(x) + Signed(y) IN
    CASE x = SignBit -> y
      [] y = SignBit -> x
      [] sum < 0 -> SignBit + Clipped(-sum)
      [] OTHER -> Clipped(sum)

RECURSIVE Eval(_, _, _)
Eval(computed, inputs, v) ==
    IF ~IsSsa(v) THEN v[2][1] % (2 * SignBit)
    ELSE IF v \notin DOMAIN computed THEN inputs[v]
    ELSE LET i == computed[v]
             x(k) == Under(TypeOf(i, k), ModOf(i, k), Eval(computed, inputs, i.srcs[k][1]))
         IN  CASE i.op = "copy" -> x(1)
               [] i.op = "fadd" -> FAdd(x(1), x(2))
               [] i.op = "sel" -> IF x(1) = 1 THEN x(2) ELSE x(3)
               [] i.op = "iseteq" -> IF x(1) = x(2) THEN 1 ELSE 0
               [] i.op = "isetne" -> IF x(1) = x(2) THEN 0 ELSE 1
               [] OTHER -> (x(1) + x(2)) % (2 * SignBit)

RECURSIVE InputsOf(_, _)
InputsOf(computed, v) ==
    IF ~IsSsa(v) THEN {}
    ELSE IF v \notin DOMAIN computed THEN {v}
    ELSE UNION { InputsOf(computed, computed[v].srcs[k][1]) : k \in DOMAIN computed[v].srcs }
Inputs(values) ==
    { f \in [values -> Words] : \A v \in values : v[1] = "Pred" => f[v] \in {0, 1} }

(* What an adder reads besides the word: the complement and one more, of   *)
(* which the one may be carried out.                                       *)
CarryRead(mod, word) == IF mod = "INeg" THEN 2 * SignBit - word ELSE word

Component(vec, c) == IF c \in DOMAIN vec THEN vec[c] ELSE vec[1]
Reads(computed, inputs, instr, k, c) ==
    LET word == Eval(computed, inputs, Component(instr.srcs[k], c))
    IN  <<Under(TypeOf(instr, k), ModOf(instr, k), word),
          IF instr.op = "iadd carry" THEN CarryRead(ModOf(instr, k), word) ELSE 0>>
Executes(computed, inputs, instr) ==
    \A v \in instr.pred : (Eval(computed, inputs, v) = 1) # instr.inverted

InputsTo(computed, vectors) ==
    UNION { InputsOf(computed, v) : v \in UNION { Range(vec) : vec \in vectors } }
SameSource(computed, i, j, k) ==
    \/ i.srcs[k] = j.srcs[k] /\ ModOf(i, k) = ModOf(j, k)
    \/ \A inputs \in Inputs(InputsTo(computed, {i.srcs[k], j.srcs[k]})) : \A c \in DOMAIN i.srcs[k] :
           Reads(computed, inputs, i, k, c) = Reads(computed, inputs, j, k, c)
SameGuard(computed, i, j) ==
    \/ i.pred = j.pred /\ i.inverted = j.inverted
    \/ \A inputs \in Inputs(UNION { InputsOf(computed, v) : v \in i.pred \cup j.pred }) :
           Executes(computed, inputs, i) <=> Executes(computed, inputs, j)

(* Every instruction of `code` reads what it did in `blocks`.              *)
SameMeaning(blocks, code) ==
    \E computed \in {Computed(blocks)} : \A b \in DOMAIN blocks : \A ip \in DOMAIN blocks[b] :
        LET i == blocks[b][ip]
            j == code[b][ip]
        IN  /\ i.op = j.op /\ i.dsts = j.dsts /\ i.phis = j.phis
            /\ \A k \in DOMAIN i.srcs : SameSource(computed, i, j, k)
            /\ SameGuard(computed, i, j)
=============================================================================
