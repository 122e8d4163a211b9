------------------------ MODULE MCRegisterAllocation ------------------------
(* Functions for RegisterAllocation.                                       *)
EXTENDS RegisterAllocation

(* What the machine has.                                                  *)
Room(gprs, predicates) == ("GPR" :> gprs) @@ ("Pred" :> predicates)
Plenty == Room(255, 7)

G(x) == <<"GPR", <<1, x>>>>
P(x) == <<"Pred", <<1, x>>>>
Number(n) == Literal(n)

Instr(op, pred, dsts, srcs) ==
    [op |-> op, pred |-> pred, inverted |-> FALSE, dsts |-> dsts, srcs |-> srcs, mods |-> <<>>, phis |-> <<>>]
Single(values) == [k \in DOMAIN values |-> <<values[k]>>]
Make(dsts, srcs) == Instr("op", {}, dsts, srcs)
Def(v) == Make(<< <<v>> >>, <<>>)
Undef(v) == Instr("undef", {}, << <<v>> >>, <<>>)
Copy(dst, src) == Instr("copy", {}, << <<dst>> >>, << <<src>> >>)
Of(dst, srcs) == Make(<< <<dst>> >>, Single(srcs))
Use(v) == Instr("store", {}, <<>>, << <<v>> >>)
UseAll(values) == Instr("store", {}, <<>>, Single(values))
BraIf(v) == Instr("bra", {v}, <<>>, <<>>)
Bra == Instr("bra", {}, <<>>, <<>>)
RegOut(values) == Instr("regout", {}, <<>>, Single(values))
PhiDst(phis, values) == [Instr("phidsts", {}, Single(values), <<>>) EXCEPT !.phis = phis]
PhiSrc(phis, values) == [Instr("phisrcs", {}, <<>>, Single(values)) EXCEPT !.phis = phis]

-----------------------------------------------------------------------------
(* All control-flow graphs of Blocks blocks, in block order.  A block uses *)
(* the values of the blocks that dominate it, if it is one of `users`, and *)
(* defines one; a block with two successors branches on a predicate.       *)
Successors(n) == { <<>> } \cup { <<b>> : b \in 2 .. n } \cup { <<b, c>> : b \in 2 .. n, c \in 2 .. n }
Graphs(n) == { succ \in [1 .. n -> { s \in Successors(n) : Len(s) = 2 => s[1] < s[2] }] :
                  From(succ, {1}, {}) = 1 .. n }
EdgesOf(succ) == FlattenSeq([b \in DOMAIN succ |-> [k \in DOMAIN succ[b] |-> <<b, succ[b][k]>>]])
ReachedOnlyThrough(succ, b) == { p \in DOMAIN succ \ {b} : MustPass([succ |-> succ], p, b) }

(* A vector of what is used has to be gathered, and values leave their     *)
(* registers; with a critical edge that goes wrong (see critical_edge).    *)
Critical(succ) ==
    \E b \in DOMAIN succ : Len(succ[b]) = 2 /\ \E s \in Range(succ[b]) :
        Cardinality({ c \in DOMAIN succ : s \in Range(succ[c]) }) > 1
Together(values) == IF Len(values) < 2 THEN UseAll(values) ELSE Instr("store", {}, <<>>, <<values>>)
BlockOf(succ, users, b) ==
    LET used == Through(LAMBDA seq, p : Append(seq, G(p)), <<>>,
                        Ordered(IF b \in users THEN ReachedOnlyThrough(succ, b) ELSE {}, LAMBDA p, q : p > q))
    IN  << IF Critical(succ) THEN UseAll(used) ELSE Together(used),
           Make(<< <<G(b)>> >>, Single(used)), Make(<< <<P(b)>> >>, << <<G(b)>> >>) >>
        \o (IF Len(succ[b]) = 2 THEN <<BraIf(P(b))>> ELSE IF succ[b] # <<>> THEN <<Bra>> ELSE <<>>)

GraphShaders(n) ==
    { [blocks |-> [b \in 1 .. n |-> BlockOf(succ, users, b)], edges |-> EdgesOf(succ), room |-> Plenty] :
        succ \in { s \in Graphs(n) : InBlockOrder(n, EdgesOf(s)) }, users \in {{n}, 2 .. n} }

-----------------------------------------------------------------------------
(* Straight-line code with vectors: up to four operands of up to two       *)
(* components, in all the ways they can overlap and die.                   *)
Pairs == { <<G("a"), G("b")>>, <<G("b"), G("a")>>, <<G("c"), G("c")>>, <<G("a"), G("d")>>, <<G("d")>> }
Scattered(values) == [k \in DOMAIN values |-> Def(G(values[k]))]
Starts == { << Make(<< <<G("a"), G("b")>>, <<G("c"), G("d")>> >>, <<>>) >>,
            Scattered(<<"a", "c", "b", "d">>), Scattered(<<"a", "p", "b", "q", "c", "r", "d", "s">>) }
Results == { << <<G("e"), G("f")>> >>, << <<G("e")>>, <<G("f"), G("g")>> >>, << <<G("g"), G("e")>>, <<G("f"), G("h")>> >> }
Rest(start) == IF Len(start) = 8 THEN <<UseAll(<<G("p"), G("q"), G("r"), G("s")>>)>> ELSE <<>>
Endings == { << UseAll(<<G("a"), G("d"), G("e")>>) >>,
             << Make(<< <<G("x"), G("y")>> >>, << <<G("f"), G("e")>>, <<G("b"), G("d")>> >>), UseAll(<<G("x")>>), UseAll(<<G("c"), G("y")>>) >>,
             << Copy(G("m"), G("e")), Make(<< <<G("n")>> >>, << <<G("m"), G("f")>> >>), UseAll(<<G("n"), G("e")>>) >>,
             << RegOut(<<G("e"), G("f"), G("a")>>) >>, << RegOut(<<G("f"), G("e")>>) >> }
VectorShaders ==
    { [blocks |-> << start \o <<Make(results, <<x, y>>)>> \o Rest(start) \o end >>, edges |-> <<>>, room |-> Plenty] :
        start \in Starts, results \in Results, x \in Pairs, y \in Pairs, end \in Endings }

One == <<1, "first">>
Other == <<1, "second">>
Both == <<One, Other>>

(* A copy of a constant, a value that is undefined and a predicate, where  *)
(* two ways meet.                                                          *)
Diamonds ==
    { [blocks |-> << << Def(G("a")), Undef(G("u")), Copy(G("k"), Number(7)), Make(<< <<P("p")>> >>, << <<G("a")>> >>),
                        Copy(G("c"), x), Copy(P("q"), P("p")), BraIf(P("p")) >>,
                     << PhiSrc(Both, <<y, P("q")>>), Bra >>,
                     << Make(<< <<G("d")>> >>, << <<G("k"), G("a")>>, <<G("a"), G("k")>> >>), PhiSrc(Both, <<G("d"), P("p")>>) >>,
                     << PhiDst(Both, <<G("f"), P("r")>>), Use(G("f")), Use(z), Instr("store", {P("r")}, <<>>, << <<G("c")>> >>) >> >>,
       edges |-> << <<1, 2>>, <<1, 3>>, <<2, 4>>, <<3, 4>> >>, room |-> Plenty] :
         x \in {G("a"), G("k"), P("p"), Number(1)}, y \in {G("u"), G("k"), G("c"), Number(2)}, z \in {G("k"), G("a"), G("u")} }

-----------------------------------------------------------------------------
(* Chains of what copy propagation knows: floats that -0 is added to,      *)
(* integers that 0 is added to, booleans made integers and tested; at the  *)
(* end of each chain everything that can read the last value.  Types are   *)
(* kept, except that a word may be read as it is.                          *)
Calc(op, dst, srcs, mods) ==
    [Instr(op, {}, << <<dst>> >>, Single(srcs)) EXCEPT !.mods = mods]
NegZero == Number(SignBit)
FloatMods == {"none", "FNeg", "FAbs", "FNegAbs"}

FloatSums(dst, src) ==
    { Calc("fadd", dst, <<src, z[1]>>, <<m, z[2]>>) : m \in FloatMods, z \in {<<Zero, "FNeg">>, <<Zero, "none">>} }
    \cup { Calc("fadd", dst, <<NegZero, src>>, <<"none", "FNeg">>) }
IntegerSums(dst, src) ==
    { Calc(op, dst, <<src, Zero>>, <<m, "none">>) : op \in {"iadd", "iadd carry"}, m \in {"none", "INeg"} }
    \cup { Calc("iadd", dst, <<Zero, src>>, <<"none", "INeg">>), Calc("iadd", dst, <<Number(1), src>>, <<"none", "INeg">>) }
Selects(dst, p) ==
    { Calc("sel", dst, <<p, x, y>>, <<m, "none", "none">>) :
        m \in {"none", "BNot"}, x \in {Zero, Number(1)}, y \in {Zero, Number(2)} }
Tests(dst, src) ==
    { Calc(op, dst, <<src, Zero>>, <<"none", "none">>) : op \in {"iseteq", "isetne"} }
    \cup { Calc("isetne", dst, <<Zero, src>>, <<"none", "none">>) }
Plain(dst, src) == { Copy(dst, src), Calc("mov", dst, <<src>>, <<"none">>) }

FloatReaders(v) == << Calc("fop", G("f"), <<v, v>>, <<"none", "FNeg">>), Calc("fadd", G("h"), <<v, G("b")>>, <<"FAbs", "none">>) >>
IntegerReaders(v) ==
    << Calc("iadd", G("f"), <<v, G("b")>>, <<"INeg", "none">>), Calc("iadd carry", G("h"), <<G("b"), v>>, <<"none", "none">>) >>
WordReaders(v) ==
    << Calc("mov", G("m"), <<v>>, <<"none">>), Calc("sel", G("n"), <<P("p"), v, G("b")>>, <<"BNot", "none", "none">>),
       UseAll(<<G("f"), G("h"), G("m"), G("n"), v>>), Instr("store", {}, <<>>, << <<G("b"), v>> >>) >>
BooleanReaders(v) ==
    << Calc("psetp", P("f"), <<v, P("p")>>, <<"BNot", "none">>), Calc("sel", G("m"), <<v, Number(1), Zero>>, <<"none", "none", "none">>),
       Calc("iseteq", P("h"), <<G("m"), Zero>>, <<"none", "none">>), Instr("store", {v}, <<>>, << <<G("m")>> >>),
       Instr("store", {P("h")}, <<>>, << <<G("b")>> >>), Instr("store", {P("f")}, <<>>, << <<G("a")>> >>) >>

Beginning == << Def(G("a")), Def(G("b")), Of(P("p"), <<G("a")>>) >>
Straight(instrs) == [blocks |-> << Beginning \o instrs >>, edges |-> <<>>, room |-> Plenty]
Chains ==
    { Straight(<<i, j>> \o FloatReaders(G("d")) \o WordReaders(G("d"))) :
        i \in FloatSums(G("c"), G("a")) \cup Plain(G("c"), G("a")), j \in FloatSums(G("d"), G("c")) }
    \cup { Straight(<<i, j>> \o IntegerReaders(G("d")) \o WordReaders(G("d"))) :
              i \in IntegerSums(G("c"), G("a")) \cup Selects(G("c"), P("p")) \cup Plain(G("c"), Zero), j \in IntegerSums(G("d"), G("c")) }
    \cup { Straight(<<i, j>> \o BooleanReaders(P("d"))) :
              i \in Selects(G("c"), P("p")) \cup Plain(G("c"), G("a")), j \in Tests(P("d"), G("c")) }
    \cup { Straight(<< i, Copy(P("d"), x), Copy(P("e"), P("d")), Calc("psetp", P("f"), <<P("e"), P("p")>>, <<"BNot", "none">>),
                        Instr("store", {P("e")}, <<>>, << <<G("c")>> >>), Instr("store", {P("f")}, <<>>, << <<G("a")>> >>) >>) :
              i \in Plain(G("c"), Zero), x \in {Zero, Number(1), P("p")} }

-----------------------------------------------------------------------------
(* Functions that need more registers than there are: straight-line code,  *)
(* two ways that meet, a loop whose phis exchange or keep values, a loop   *)
(* in a loop, and predicates.  `k` and `t` are constants.                  *)
Constants == << Copy(G("k"), Number(7)), Copy(P("t"), Number(1)) >>
OnlyIf(v) == Instr("store", {v}, <<>>, << <<G("a")>> >>)
Tight(edges, room, bs) == [blocks |-> [bs EXCEPT ![1] = Constants \o @], edges |-> edges, room |-> room]

Lines ==
    { Tight(<<>>, Room(gprs, 7),
            << << Def(G("a")), Def(G("b")), Def(G("c")), Of(G("d"), <<x, y>>), UseAll(<<z, G("k")>>),
                  Of(G("e"), <<G("a"), z>>), UseAll(<<G("e"), G("b")>>), UseAll(<<G("c"), G("d")>>) >> >>) :
        x \in {G("a"), G("k")}, y \in {G("c"), G("k")}, z \in {G("a"), G("k"), G("d")}, gprs \in {5, 6} }

Meetings ==
    { Tight(<< <<1, 2>>, <<1, 3>>, <<2, 4>>, <<3, 4>> >>, Room(5, 7),
            << << Def(G("a")), Def(G("b")), Of(P("p"), <<G("a")>>), BraIf(P("p")) >>,
               << Of(G("c"), <<G("a"), G("b")>>), UseAll(<<G("c"), G("k")>>), PhiSrc(Both, <<x, G("b")>>), Bra >>,
               << Use(G("k")), PhiSrc(Both, <<y, G("k")>>) >>,
               << PhiDst(Both, <<G("f"), G("g")>>), UseAll(<<G("f"), G("a")>>), UseAll(<<z, G("g")>>), Use(G("k")) >> >>) :
        x \in {G("a"), G("c"), G("k")}, y \in {G("b"), G("a"), Number(1)}, z \in {G("b"), G("f")} }

Exchanges ==
    { Tight(<< <<1, 2>>, <<2, 3>>, <<2, 4>>, <<3, 2>> >>, Room(5, 7),
            << << Def(G("a")), Def(G("b")), Def(G("c")), PhiSrc(Both, <<G("a"), u>>) >>,
               << PhiDst(Both, <<G("x"), G("y")>>), Of(P("p"), <<G("x")>>), BraIf(P("p")) >>,
               << UseAll(<<G("b"), G("y")>>), Of(G("d"), <<G("x"), G("k")>>), PhiSrc(Both, <<v, z>>), Bra >>,
               << UseAll(<<G("x"), G("c")>>), UseAll(<<G("y"), G("b")>>) >> >>) :
        u \in {G("b"), G("k")}, v \in {G("y"), G("d"), G("c")}, z \in {G("x"), G("d"), G("y")} }

NestedExchanges ==
    { Tight(<< <<1, 2>>, <<2, 3>>, <<2, 7>>, <<3, 4>>, <<4, 5>>, <<4, 6>>, <<5, 4>>, <<6, 2>> >>, Room(5, 7),
            << << Def(G("a")), Def(G("b")), Def(G("c")), PhiSrc(<<One>>, <<G("a")>>) >>,
               << PhiDst(<<One>>, <<G("x")>>), Of(P("p"), <<G("x")>>), BraIf(P("p")) >>,
               << PhiSrc(<<Other>>, <<G("x")>>) >>,
               << PhiDst(<<Other>>, <<G("y")>>), Of(P("q"), <<G("y")>>), BraIf(P("q")) >>,
               << UseAll(<<G("b"), G("c")>>), Of(G("d"), <<G("y"), w>>), PhiSrc(<<Other>>, <<v>>), Bra >>,
               << PhiSrc(<<One>>, <<z>>), Bra >>,
               << UseAll(<<G("x"), G("c")>>), Use(G("b")) >> >>) :
        v \in {G("y"), G("d")}, w \in {G("b"), G("k")}, z \in {G("y"), G("x"), G("b")} }

ManyPredicates ==
    { Tight(<< <<1, 2>>, <<1, 3>>, <<2, 4>>, <<3, 4>> >>, Room(gprs, preds),
            << << Def(G("a")), Of(P("p"), <<G("a")>>), Def(G("b")), Of(P("q"), <<G("b")>>), Of(P("r"), <<G("a"), G("b")>>), BraIf(x) >>,
               << OnlyIf(y), PhiSrc(<<One>>, <<z>>), Bra >>,
               << OnlyIf(P("q")), PhiSrc(<<One>>, <<P("r")>>) >>,
               << PhiDst(<<One>>, <<P("s")>>), OnlyIf(P("s")), OnlyIf(P("p")), OnlyIf(P("t")), Use(G("b")) >> >>) :
        x \in {P("p"), P("r")}, y \in {P("q"), P("t")}, z \in {P("p"), P("t")}, gprs \in {5, 20}, preds \in {1, 2} }

(* Functions of graphics shaders: memory is read and written, predicates   *)
(* guard, and outputs end the function.  The registers are few, so that    *)
(* pressure decides, or enough for latencies to.                           *)
Ld(dsts, srcs) == Instr("ld", {}, <<dsts>>, Single(srcs))
Fetches ==
    { [blocks |-> << << Def(G("a")), Def(G("b")), Ld(<<G("c"), G("d")>>, <<x>>), Ld(<<G("e")>>, <<y>>), Of(P("p"), <<z>>),
                        Of(G("f"), <<G("c"), G("e")>>), Of(G("g"), <<G("d"), G("f")>>),
                        Instr("store", {P("p")}, <<>>, << <<G("g")>> >>), Use(u), RegOut(<<G("g"), G("a")>>) >> >>,
       edges |-> <<>>, room |-> Room(gprs, 7)] :
       x \in {G("a"), G("b")}, y \in {G("a"), G("b")}, z \in {G("a"), G("e")}, u \in {G("b"), G("f")}, gprs \in {7, 20} }

(* The second block raises the limit under which the first was scheduled.  *)
Growing ==
    { [blocks |-> << << Def(G("a")), Ld(<<G("b")>>, <<G("a")>>), Of(G("c"), <<x>>), Of(G("d"), <<G("b"), y>>), Use(G("d")), Bra >>,
                     << Def(G("e")), Def(G("f")), Def(G("g")), Of(G("h"), <<G("e"), z>>), Def(G("i")), UseAll(<<G("f"), G("g")>>),
                        UseAll(<<G("h"), G("i")>>), RegOut(<<G("e"), G("a")>>) >> >>,
       edges |-> << <<1, 2>> >>, room |-> Room(gprs, 7)] :
       x \in {G("a"), G("b")}, y \in {G("c"), G("a")}, z \in {G("f"), G("a")}, gprs \in {7, 20} }

WithRoom(gprs, shaders) == { [s EXCEPT !.room["GPR"] = gprs] : s \in shaders }

TightShaders == Lines \cup Meetings \cup Exchanges \cup NestedExchanges \cup ManyPredicates

-----------------------------------------------------------------------------
(* Functions that LoopLowering makes of programs with loops.               *)
Loops == INSTANCE LoopLowering WITH Locals <- {"v", "w"}, Argument <- "lane", Modulus <- 4, Fuel <- 8

IsPredicate(ls, r) ==
    \E b \in DOMAIN ls : \E i \in Range(ls[b].code) :
        i.op \in {"equal", "nonzero", "and", "or"} /\ i.dst = r
Value(ls, r) == <<IF IsPredicate(ls, r) THEN "Pred" ELSE "GPR", r>>
IsGuard(o) == "not" \in DOMAIN o
SourceOf(ls, o) ==
    IF o.register # Loops!NoRegister THEN Value(ls, o.register)
    ELSE Number(IF IsGuard(o) THEN 0 ELSE o.number)
Guard(ls, p) == IF p.register = Loops!NoRegister THEN {} ELSE {Value(ls, p.register)}

FromLoops(ls, i) ==
    CASE i.op \in {"brk", "cont"} -> Instr("bra", Guard(ls, i.predicate), <<>>, <<>>)
      [] i.op \in {"store", "spill"} ->
            Instr("store", Guard(ls, i.predicate), <<>>, << <<SourceOf(ls, i.sources[1])>> >>)
      [] i.op = "fill" -> Def(Value(ls, i.dst))
      [] i.op = "phi" ->
            With(Listed(DOMAIN i.values), LAMBDA order :
                 PhiSrc(order, [k \in DOMAIN order |-> SourceOf(ls, i.values[order[k]])]))
      [] i.op = "nonzero" -> Calc("isetne", Value(ls, i.dst), <<SourceOf(ls, i.sources[1]), Zero>>, <<"none", "none">>)
      [] i.op = "equal" ->
            Calc("iseteq", Value(ls, i.dst), [k \in DOMAIN i.sources |-> SourceOf(ls, i.sources[k])], <<"none", "none">>)
      [] OTHER -> Make(<< <<Value(ls, i.dst)>> >>,
                       Single([k \in DOMAIN i.sources |-> SourceOf(ls, i.sources[k])]))

PhisAt(ls, label) ==
    With(Listed(UNION { UNION { DOMAIN i.values : i \in { j \in Range(ls[b].code) : j.op = "phi" } } : b \in DOMAIN ls }),
         LAMBDA all : SelectSeq(all, LAMBDA r : r[1] = label))

BlockFromLoops(ls, b) ==
    With(PhisAt(ls, ls[b].label), LAMBDA phis :
         (IF b = 1 THEN <<Def(<<"GPR", Loops!ArgumentRegister>>)>> ELSE <<>>)
         \o (IF phis = <<>> THEN <<>> ELSE <<PhiDst(phis, [k \in DOMAIN phis |-> Value(ls, phis[k])])>>)
         \o [ip \in DOMAIN ls[b].code |-> FromLoops(ls, ls[b].code[ip])])

EdgeOrder(edges) == Ordered(edges, LAMBDA d, e : d[1] < e[1] \/ (d[1] = e[1] /\ d[2] < e[2]))
ShaderOf(program) ==
    With(Loops!Lower(program), LAMBDA st :
         [blocks |-> [b \in DOMAIN st.blocks |-> BlockFromLoops(st.blocks, b)], edges |-> EdgeOrder(st.edges), room |-> Plenty])

Set(x, y, n) == [op |-> "store", local |-> x, from |-> y, plus |-> n]
Inc(x) == Set(x, x, 1)
Effect(x) == [op |-> "effect", from |-> x]
If(c, accept, reject) == [op |-> "if", condition |-> c, accept |-> accept, reject |-> reject]
Loop(body, continuing, breakIf) ==
    [op |-> "loop", body |-> body, continuing |-> continuing, breakIf |-> breakIf]
Break == [op |-> "break"]
Continue == [op |-> "continue"]
Return(x) == [op |-> "return", value |-> <<x>>]
Call(x, body) == [op |-> "call", local |-> x, body |-> body]
Is(x, n) == [of |-> x, is |-> n, not |-> FALSE]
Observed == <<Effect("v"), Effect("w")>>

Exits == { If(Is(x, 2), <<Break>>, <<>>) : x \in {"v", "lane"} }
LateExits == { If(Is(x, 2), <<Inc("w"), Break>>, <<>>) : x \in {"v", "lane"} }
Skips == { If(Is("v", 1), <<Continue>>, <<>>), If(Is("lane", 1), <<Inc("w"), Continue>>, <<>>) }
Work == {Inc("v"), Inc("w"), Set("w", "v", 1), If(Is("v", 1), <<Inc("w"), Effect("w")>>, <<Inc("v")>>)}

OneExit == { <<Loop(<<a, b>>, c, <<>>)>> \o Observed :
                a \in Exits \cup LateExits, b \in Work, c \in {<<>>, <<Inc("v")>>} }
TwoExits == { <<Loop(<<a, b, c, Inc("w")>>, <<>>, <<>>)>> \o Observed : a \in Exits, b \in Work, c \in Exits \cup Skips }
Nested == { <<Loop(<<a, Loop(<<b, Inc("w")>>, <<Inc("v")>>, <<>>), Effect("w")>>, <<>>, <<>>)>> \o Observed :
              a \in Exits \cup LateExits, b \in Exits \cup LateExits }

(* Helpers that return one of two values from a loop.                      *)
Returning == { <<Call("w", <<Loop(<<If(Is("lane", 1), <<Return(x)>>, <<>>), a, Inc("v"), If(Is("v", 2), <<Return("v")>>, <<>>)>>,
                                  <<Inc("v")>>, <<>>), Return("w")>>)>> \o Observed : a \in Work, x \in {"v", "lane"} }

AllGraphShaders == UNION { GraphShaders(n) : n \in 2 .. 4 }
MCFileOrder == <<"GPR", "Pred", "Mem">>

(* An instruction has up to four vectors; 16 is enough for four of four    *)
(* components, and four times the longest is enough here.  A scalar        *)
(* instruction of the functions that spill has three.                      *)
HasPairs(bs) ==
    \E b \in DOMAIN bs : \E i \in Range(bs[b]) : \E vec \in Range(i.srcs) \cup Range(i.dsts) : Len(vec) = 2
MCMinGprs(bs) == IF HasPairs(bs) THEN 8 ELSE 3
MCSixteen(bs) == 16

(* As in MCStructuredLoops: the locals a loop reads before it writes them  *)
(* are those it writes.                                                    *)
Merged(s) == s.op = "loop" => Loops!Carried(s) = Loops!Written(s.body) \cup Loops!Written(s.continuing)
LoweredFrom(programs) == { ShaderOf(p) : p \in { q \in programs : \A k \in DOMAIN q : Merged(q[k]) } }

LoopShaders == LoweredFrom(OneExit \cup TwoExits \cup Nested)

At(stage, shaders) == { s @@ ("stage" :> stage) : s \in shaders }
ReturningShaders == At("compute", LoweredFrom(Returning))
ComputeShaders == At("compute", AllGraphShaders \cup Chains \cup VectorShaders \cup Diamonds \cup LoopShaders \cup TightShaders)
GraphicsShaders ==
    At("vertex", Fetches \cup Growing \cup Lines \cup ManyPredicates
                   \cup WithRoom(7, Lines \cup Meetings \cup Exchanges) \cup WithRoom(20, Exchanges))
MCShaders == ComputeShaders \cup GraphicsShaders
=============================================================================
