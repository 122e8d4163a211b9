---------------------------- MODULE LoopLowering ----------------------------
(***************************************************************************)
(* crates/deko-shader-compiler/src/lower.rs: how a function with loops is  *)
(* turned into basic blocks.  Conditionals become straight-line code with  *)
(* selects and an execution predicate; only the exits of loops become      *)
(* branches.                                                               *)
(*                                                                         *)
(* Lower(program) is a recursive function over the statements, as          *)
(* execute_statements is.  The lowerer is a record; expressions, vectors   *)
(* and switches are left out (Predication has switches).                   *)
(***************************************************************************)
EXTENDS LoopMeaning, SequencesExt

(* Registers are SSA values.  A phi and its destination are one register:  *)
(* its sources are written into it in parallel at the end of the           *)
(* predecessors, as the later passes arrange.                              *)
NoRegister == <<0, "none">>
Const(n) == [register |-> NoRegister, number |-> n]
Reg(r) == [register |-> r, number |-> 0]
ArgumentRegister == <<0, "argument">>

(* A predicate is a register or TRUE, possibly negated.                    *)
True == [register |-> NoRegister, not |-> FALSE]
False == [register |-> NoRegister, not |-> TRUE]
Not(p) == [p EXCEPT !.not = ~@]

Start ==
    [blocks |-> <<[label |-> 0, code |-> <<>>]>>, edges |-> {},
     mask |-> True,          \* execution_predicate
     loops |-> <<>>,         \* the LoopContexts
     base |-> 0,             \* loop_base_depth
     locals |-> [x \in Locals |-> Const(0)],
     early |-> <<>>,         \* early_returns
     returned |-> <<>>,      \* what execute_statements returns: none or one value
     labels |-> 1, fresh |-> 1]

Current(st) == Len(st.blocks)
Context(st) == Last(st.loops)
InContext(st, context) == [st EXCEPT !.loops = Append(Front(@), context)]
Fresh(st) == <<st.fresh, "value">>

Push(st, instruction) == [st EXCEPT !.blocks[Current(st)].code = Append(@, instruction)]
Define(st, op, sources) ==
    [Push(st, [op |-> op, dst |-> Fresh(st), sources |-> sources]) EXCEPT !.fresh = @ + 1]

(* combine_predicates and combine_predicates_or, into the mask.            *)
Both(st, p, q) ==
    CASE p = False \/ q = False -> [st EXCEPT !.mask = False]
      [] p = True -> [st EXCEPT !.mask = q]
      [] q = True -> [st EXCEPT !.mask = p]
      [] OTHER -> [Define(st, "and", <<p, q>>) EXCEPT !.mask = [register |-> Fresh(st), not |-> FALSE]]
Either(st, p, q) ==
    CASE p = True \/ q = True -> [st EXCEPT !.mask = True]
      [] p = False -> [st EXCEPT !.mask = q]
      [] q = False -> [st EXCEPT !.mask = p]
      [] OTHER -> [Define(st, "or", <<p, q>>) EXCEPT !.mask = [register |-> Fresh(st), not |-> FALSE]]

(* emit, for an instruction with a side effect.                            *)
EmitEffect(st, instruction, p) ==
    LET masked == Both(st, st.mask, p)
    IN  [Push(masked, instruction @@ [predicate |-> masked.mask]) EXCEPT !.mask = st.mask]

AppendBlock(st, label) == [st EXCEPT !.blocks = Append(@, [label |-> label, code |-> <<>>])]
AddEdge(st, from, to) == [st EXCEPT !.edges = @ \cup {<<from, to>>}]

Operand(st, x) == IF x = Argument THEN Reg(ArgumentRegister) ELSE st.locals[x]

-----------------------------------------------------------------------------
(* What is known of a loop before it is lowered.                           *)

(* loop_control_prefix: the block without the control statement it ends    *)
(* in; none when it does not end in one.                                   *)
RECURSIVE Prefix(_, _)
Prefix(block, control) ==
    IF block = <<>> THEN {}
    ELSE LET s == Last(block) IN
         CASE s.op = control -> {Front(block)}
           [] s.op = "block" ->
                { IF inner = <<>> THEN Front(block)
                  ELSE Append(Front(block), [op |-> "block", body |-> inner]) :
                    inner \in Prefix(s.body, control) }
           [] OTHER -> {}

BreaksAfterWork(block) == \E prefix \in Prefix(block, "break") : prefix # <<>>

RECURSIVE RequiresScratch(_)
RequiresScratch(block) ==
    \/ BreaksAfterWork(block)
    \/ \E k \in DOMAIN block :
          \/ block[k].op = "block" /\ RequiresScratch(block[k].body)
          \/ block[k].op = "if" /\ (\/ BreaksAfterWork(block[k].accept)
                                    \/ BreaksAfterWork(block[k].reject)
                                    \/ RequiresScratch(block[k].accept)
                                    \/ RequiresScratch(block[k].reject))

(* collect_loop_written_locals                                             *)
RECURSIVE Written(_)
Written(block) ==
    UNION { LET s == block[k] IN
            CASE s.op \in {"store", "call"} -> {s.local}
              [] s.op = "block" -> Written(s.body)
              [] s.op = "if" -> Written(s.accept) \cup Written(s.reject)
              [] s.op = "loop" -> Written(s.body) \cup Written(s.continuing)
              [] OTHER -> {} : k \in DOMAIN block }

(* collect_loop_carried_locals: read before they are written on some way.  *)
Reads(s) ==
    { x \in Locals : \/ s.op \in {"store", "effect"} /\ x = s.from
                     \/ s.op = "if" /\ x = s.condition.of
                     \/ s.op = "return" /\ <<x>> = s.value }
BreakIfReads(s) == { x \in Locals : s.breakIf # <<>> /\ x = s.breakIf[1].of }

Carry(known, written, carried) ==
    [written |-> written, carried |-> known.carried \cup (carried \ known.written)]

RECURSIVE Collect(_, _)
CollectStatement(known, s) ==
    CASE s.op \in {"store", "call"} -> Carry(known, known.written \cup {s.local}, Reads(s))
      [] s.op = "block" -> Collect(known, s.body)
      [] s.op = "if" ->
            LET accept == Collect(known, s.accept)
                reject == Collect(known, s.reject)
            IN  Carry(known, accept.written \cap reject.written,
                      Reads(s) \cup accept.carried \cup reject.carried)
      [] s.op = "loop" ->
            LET end == Collect(Collect(known, s.body), s.continuing)
            IN  [written |-> known.written,
                 carried |-> end.carried \cup (BreakIfReads(s) \ end.written)]
      [] OTHER -> Carry(known, known.written, Reads(s))
Collect(known, block) ==
    FoldLeft(CollectStatement, known, block)

Carried(loop) == CollectStatement([written |-> {}, carried |-> {}], loop).carried

-----------------------------------------------------------------------------
(* The two branches out of the middle of a loop body.                      *)

StoreScratch(st, p) ==
    FoldSet(LAMBDA x, s : EmitEffect(s, [op |-> "spill", slot |-> <<Context(st).exit, x>>,
                                         sources |-> <<st.locals[x]>>], p),
            st, Context(st).scratch)

(* A predicated branch ends the block; what follows starts another.        *)
Branch(st, control, target, p) ==
    LET branched == Push(st, [op |-> control, target |-> target, predicate |-> p])
        split == AppendBlock([branched EXCEPT !.labels = @ + 1], st.labels)
    IN  AddEdge(split, Current(st), Current(split))

ConditionalBreak(st, p, returned) ==
    IF p = False THEN st
    ELSE LET stored == StoreScratch(st, p)
             edge == [block |-> Current(st), returned |-> returned, locals |-> st.locals]
         IN  Branch(InContext(stored, [Context(st) EXCEPT !.breaks = Append(@, edge)]),
                    "brk", Context(st).exit, p)

ConditionalContinue(st, p) ==
    IF p = False THEN st
    ELSE LET edge == [block |-> Current(st), locals |-> st.locals]
         IN  Branch(InContext(st, [Context(st) EXCEPT !.continues = Append(@, edge)]),
                    "cont", Context(st).continue, p)

-----------------------------------------------------------------------------
RECURSIVE Execute(_, _)

(* conditional: both arms in line.                                         *)
LoopControls(st) ==
    IF st.loops = <<>> THEN 0 ELSE Len(Context(st).breaks) + Len(Context(st).continues)
Edges(st) == <<Len(st.early), LoopControls(st)>>
Partial(before, after) == after.returned = <<>> /\ Edges(after) # Edges(before)

SelectLocal(st, p, x, accept, reject) ==
    [Define(st, "select", <<p, accept, reject>>) EXCEPT !.locals[x] = Reg(Fresh(st))]

Conditional(st, p, accept, reject) ==
    LET into == Both(st, st.mask, p)
        accepted == Execute(into, accept)
        other == Both([accepted EXCEPT !.locals = st.locals, !.returned = <<>>], st.mask, Not(p))
        rejected == Execute(other, reject)
        open == [rejected EXCEPT !.returned = <<>>]
        merged == FoldSet(LAMBDA x, s : SelectLocal(s, p, x, accepted.locals[x], rejected.locals[x]),
                          open, Locals)
    IN  CASE accepted.returned # <<>> /\ rejected.returned # <<>> ->
                [Define(open, "select", <<p, accepted.returned[1], rejected.returned[1]>>)
                    EXCEPT !.mask = st.mask, !.returned = <<Reg(Fresh(open))>>]
          [] accepted.returned # <<>> /\ rejected.returned = <<>> ->
                [open EXCEPT !.early = Append(@, [condition |-> into.mask, value |-> accepted.returned[1]])]
          [] accepted.returned = <<>> /\ rejected.returned # <<>> ->
                [open EXCEPT !.early = Append(@, [condition |-> other.mask, value |-> rejected.returned[1]]),
                             !.locals = accepted.locals, !.mask = accepted.mask]
          [] OTHER ->
                IF Partial(into, accepted) \/ Partial(other, rejected)
                THEN Either(merged, accepted.mask, rejected.mask)
                ELSE [merged EXCEPT !.mask = st.mask]

(* An if with one arm that only leaves the loop is a branch.               *)
ArmOf(s, arm) == IF arm THEN s.accept ELSE s.reject
BlockReturnValue(block) ==
    IF Len(block) = 1 /\ block[1].op = "return" THEN block[1].value ELSE <<>>

LowerContinue(st, s, p, arm, prefix) ==
    LET before == Conditional(st, p, IF arm THEN prefix ELSE <<>>, IF arm THEN <<>> ELSE prefix)
    IN  IF before.returned # <<>> THEN before
        ELSE ConditionalContinue(before, IF arm THEN p ELSE Not(p))

LowerBreak(st, s, p, arm, prefix) ==
    LET before == IF prefix = <<>> THEN st
                  ELSE Conditional(st, p, IF arm THEN prefix ELSE <<>>, IF arm THEN <<>> ELSE prefix)
    IN  IF before.returned # <<>> THEN before
        ELSE ConditionalBreak(before, IF arm THEN p ELSE Not(p), <<>>)

InLoop(st) == st.loops # <<>>
InOwnLoop(st) == Len(st.loops) > st.base

LowerIf(st, s) ==
    LET p == [register |-> Fresh(st), not |-> s.condition.not]
        next == Define(st, "equal", <<Operand(st, s.condition.of), Const(s.condition.is)>>)
        lone == { arm \in BOOLEAN : ArmOf(s, ~arm) = <<>> }
        continues == { arm \in lone : InLoop(st) /\ Prefix(ArmOf(s, arm), "continue") # {} }
        returns == { arm \in lone : InOwnLoop(st) /\ BlockReturnValue(ArmOf(s, arm)) # <<>> }
        breaks == { arm \in lone : \E prefix \in Prefix(ArmOf(s, arm), "break") :
                        InLoop(st) /\ (prefix = <<>> \/ Context(st).scratch # {}) }
        Only(arms) == CHOOSE arm \in arms : TRUE
        PrefixOf(arms, control) == CHOOSE prefix \in Prefix(ArmOf(s, Only(arms)), control) : TRUE
    IN  CASE continues # {} ->
                LowerContinue(next, s, p, Only(continues), PrefixOf(continues, "continue"))
          [] continues = {} /\ returns # {} ->
                ConditionalBreak(next, IF Only(returns) THEN p ELSE Not(p),
                                 <<Operand(st, BlockReturnValue(ArmOf(s, Only(returns)))[1])>>)
          [] continues = {} /\ returns = {} /\ breaks # {} ->
                LowerBreak(next, s, p, Only(breaks), PrefixOf(breaks, "break"))
          [] OTHER -> Conditional(next, p, s.accept, s.reject)

-----------------------------------------------------------------------------
(* A mutant: the sources of a phi after the branch that leaves the block.  *)
InsertPhisAfter(st, block, values) ==
    [st EXCEPT !.blocks[block].code = Append(@, [op |-> "phi", values |-> values])]

(* Phis at the end of a block go before its branch.                        *)
InsertPhis(st, block, values) ==
    LET code == st.blocks[block].code
        phis == [op |-> "phi", values |-> values]
        branches == code # <<>> /\ Last(code).op \in {"brk", "cont"}
    IN  [st EXCEPT !.blocks[block].code =
            IF branches THEN Front(code) \o <<phis, Last(code)>> ELSE Append(code, phis)]

(* The registers that locals `xs` get at label `at`.                       *)
Phis(at, xs, locals) == [r \in { <<at, x>> : x \in xs } |-> locals[r[2]]]
MergedLocals(locals, at, xs) ==
    [x \in Locals |-> IF x \in xs THEN Reg(<<at, x>>) ELSE locals[x]]

(* merge_continue_locals: only the carried locals are merged.              *)
MergeContinueLocals(st, edges) ==
    LET context == Context(st)
        merged == FoldLeft(LAMBDA s, edge : InsertPhis(s, edge.block,
                               Phis(context.continue, context.carried, edge.locals)), st, edges)
    IN  IF edges = <<>> THEN st
        ELSE [merged EXCEPT !.locals = MergedLocals(context.entry, context.continue, context.carried)]

(* merge_break_locals                                                      *)
MergeBreakLocals(st, context) ==
    LET returns == \E k \in DOMAIN context.breaks : context.breaks[k].returned # <<>>
        changed == { x \in context.written : \E k \in DOMAIN context.breaks :
                        context.breaks[k].locals[x] # context.entry[x] }
        merged == FoldLeft(LAMBDA s, edge : InsertPhis(s, edge.block,
                               Phis(context.exit, changed, edge.locals)), st, context.breaks)
    IN  IF returns \/ context.breaks = <<>> THEN [st EXCEPT !.locals = context.entry]
        ELSE [merged EXCEPT !.locals = MergedLocals(context.entry, context.exit, changed)]

LoadScratch(st, context) ==
    FoldSet(LAMBDA x, s : [Define(s, "fill", <<context.exit, x>>) EXCEPT !.locals[x] = Reg(Fresh(s))],
            st, context.scratch)

(* The values the locals have after the loop.                              *)
ExitLocals(st, context) ==
    CASE context.scratch # {} -> LoadScratch(st, context)
      [] context.scratch = {} /\ context.merge -> MergeBreakLocals(st, context)
      [] OTHER -> [st EXCEPT !.locals = MergedLocals(@, context.header, context.carried)]

(* merge_loop_returns: has this lane returned, and what.                   *)
MergeLoopReturns(st, context) ==
    LET flag == <<context.exit, "flag">>
        value == <<context.exit, "returned">>
        Sources(edge) == [r \in {flag, value} |->
            IF edge.returned = <<>> THEN Const(0) ELSE IF r = flag THEN Const(1) ELSE edge.returned[1]]
        merged == FoldLeft(LAMBDA s, edge : InsertPhis(s, edge.block, Sources(edge)), st, context.breaks)
        tested == Define(merged, "nonzero", <<Reg(flag)>>)
        has == [register |-> Fresh(merged), not |-> FALSE]
    IN  IF \A k \in DOMAIN context.breaks : context.breaks[k].returned = <<>> THEN st
        ELSE Both([tested EXCEPT !.early = Append(@, [condition |-> has, value |-> Reg(value)])],
                  tested.mask, Not(has))

-----------------------------------------------------------------------------
LoopContext(st, loop) ==
    LET written == Written(loop.body) \cup Written(loop.continuing) IN
    [header |-> st.labels, continue |-> st.labels + 1, exit |-> st.labels + 2,
     carried |-> Carried(loop), written |-> written,
     scratch |-> IF RequiresScratch(loop.body) THEN written ELSE {},
     entry |-> MergedLocals(st.locals, st.labels, Carried(loop)),
     breaks |-> <<>>, continues |-> <<>>, merge |-> FALSE]

(* lower_loop up to the loop body.                                         *)
EnterLoop(st, context) ==
    LET phis == InsertPhis(st, Current(st), Phis(context.header, context.carried, st.locals))
        header == AppendBlock(phis, context.header)
    IN  [AddEdge(header, Current(st), Current(header))
            EXCEPT !.labels = @ + 3, !.locals = context.entry, !.loops = Append(@, context)]

BodyOf(loop) ==
    IF Prefix(loop.body, "break") # {} THEN CHOOSE b \in Prefix(loop.body, "break") : TRUE
    ELSE IF Prefix(loop.body, "continue") # {} THEN CHOOSE b \in Prefix(loop.body, "continue") : TRUE
    ELSE loop.body

(* The end of the body: it returns, breaks or falls through.               *)
Leave(st, returned) ==
    LET stored == IF returned = <<>> THEN StoreScratch(st, True) ELSE st
        context == Context(st)
        edge == [block |-> Current(st), returned |-> returned, locals |-> st.locals]
    IN  InContext(Push([stored EXCEPT !.returned = <<>>],
                       [op |-> "brk", target |-> context.exit, predicate |-> True]),
                  [context EXCEPT !.breaks = Append(@, edge),
                                  !.merge = returned = <<>> /\ context.scratch = {}])

(* A mutant: the values of the header go around, not those of the body.    *)
EndBodyOfHeader(st, loop) ==
    IF st.returned # <<>> THEN Leave(st, st.returned)
    ELSE IF Prefix(loop.body, "break") # {} THEN Leave(st, <<>>)
    ELSE InContext(st, [Context(st) EXCEPT
            !.continues = Append(@, [block |-> Current(st), locals |-> Context(st).entry])])

EndBody(st, loop) ==
    IF st.returned # <<>> THEN Leave(st, st.returned)
    ELSE IF Prefix(loop.body, "break") # {} THEN Leave(st, <<>>)
    ELSE InContext(st, [Context(st) EXCEPT
            !.continues = Append(@, [block |-> Current(st), locals |-> st.locals])])

EnterContinuing(st) ==
    LET continuing == AppendBlock(st, Context(st).continue)
        edges == Context(st).continues
    IN  MergeContinueLocals(
            [continuing EXCEPT !.edges = @ \cup { <<edges[k].block, Current(continuing)>> : k \in DOMAIN edges }],
            edges)

BreakIf(st, loop) ==
    IF loop.breakIf = <<>> THEN st
    ELSE LET condition == loop.breakIf[1]
             tested == Define(st, "equal", <<Operand(st, condition.of), Const(condition.is)>>)
         IN  ConditionalBreak(tested, [register |-> Fresh(st), not |-> condition.not], <<>>)

(* A mutant: only the back edge is given to the control-flow graph.        *)
ExitWithoutEdges(st, header) ==
    LET context == Context(st)
        phis == InsertPhis(st, Current(st), Phis(context.header, context.carried, st.locals))
        back == AddEdge(Push(phis, [op |-> "cont", target |-> context.header, predicate |-> True]),
                        Current(st), header)
        out == [AppendBlock(back, context.exit) EXCEPT !.loops = Front(@)]
    IN  MergeLoopReturns(ExitLocals(out, context), context)

(* The back edge, the exit block, and the state after the loop.            *)
ExitLoop(st, header) ==
    LET context == Context(st)
        phis == InsertPhis(st, Current(st), Phis(context.header, context.carried, st.locals))
        back == AddEdge(Push(phis, [op |-> "cont", target |-> context.header, predicate |-> True]),
                        Current(st), header)
        exit == AppendBlock(back, context.exit)
        left == { <<context.breaks[k].block, Current(exit)>> : k \in DOMAIN context.breaks }
        out == [exit EXCEPT !.edges = @ \cup left, !.loops = Front(@)]
    IN  MergeLoopReturns(ExitLocals(out, context), context)

LowerLoop(st, loop) ==
    LET entered == EnterLoop(st, LoopContext(st, loop))
        body == EndBody(Execute(entered, BodyOf(loop)), loop)
        continuing == Execute(EnterContinuing(body), loop.continuing)
    IN  ExitLoop(BreakIf(continuing, loop), Current(entered))

-----------------------------------------------------------------------------
(* finalize_return, and inline_call with the store of its result.          *)
FinalizeReturn(st) ==
    LET Select(s, entry) == [Define(s, "select", <<entry.condition, entry.value, s.returned[1]>>)
                                EXCEPT !.returned = <<Reg(Fresh(s))>>]
    IN  FoldLeft(Select, st, Reverse(st.early))

LowerCall(st, call) ==
    LET callee == Execute([st EXCEPT !.locals = [x \in Locals |-> Const(0)], !.early = <<>>,
                                     !.base = Len(st.loops)], call.body)
        value == FinalizeReturn(callee)
    IN  [value EXCEPT !.locals = [st.locals EXCEPT ![call.local] = value.returned[1]],
                      !.returned = <<>>, !.early = st.early, !.mask = st.mask, !.base = st.base]

LowerStore(st, s) ==
    [Define(st, "add", <<Operand(st, s.from), Const(s.plus)>>) EXCEPT !.locals[s.local] = Reg(Fresh(st))]

Statement(st, s) ==
    CASE s.op = "store" -> LowerStore(st, s)
      [] s.op = "effect" ->
            EmitEffect(st, [op |-> "store", sources |-> <<Operand(st, s.from)>>], True)
      [] s.op = "if" -> LowerIf(st, s)
      [] s.op = "loop" -> LowerLoop(st, s)
      [] s.op = "call" -> LowerCall(st, s)
      [] s.op = "block" -> Execute(st, s.body)
      [] s.op = "break" -> [ConditionalBreak(st, True, <<>>) EXCEPT !.mask = False]
      [] s.op = "continue" -> [ConditionalContinue(st, True) EXCEPT !.mask = False]
      [] s.op = "return" ->
            [st EXCEPT !.returned = <<IF s.value = <<>> THEN Const(0) ELSE Operand(st, s.value[1])>>]

(* execute_statements stops at the first statement that returns.           *)
Execute(st, body) ==
    IF body = <<>> \/ st.returned # <<>> THEN st
    ELSE Execute(Statement(st, Head(body)), Tail(body))

Lower(program) == Execute(Start, program)
=============================================================================
