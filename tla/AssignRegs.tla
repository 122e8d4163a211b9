----------------------------- MODULE AssignRegs -----------------------------
(***************************************************************************)
(* crates/deko-nak/src/assign_regs.rs: registers for the instructions of   *)
(* one block, and the copies between blocks.                               *)
(*                                                                         *)
(* An instruction that has been assigned names registers where it named    *)
(* SSA values.  `as` is an instruction under assignment: the instruction,  *)
(* the allocators of the files (as.ras), the parallel copy that goes       *)
(* before it, and whether the code has given up.  `ctx` is what the        *)
(* assignment reads: the block, the place in it, what dies at the          *)
(* instruction, the phi webs and the sizes of the files.                   *)
(***************************************************************************)
EXTENDS RegisterAllocator, UnionFind

Own(f, vec) == vec[1][1] = f
Indices(vectors, Test(_)) == SelectSeq([k \in DOMAIN vectors |-> k], LAMBDA k : Test(vectors[k]))
Registers(f, r, comps) == [c \in 1 .. comps |-> Register(f, r + c - 1)]

-----------------------------------------------------------------------------
(* PhiWebs: a union-find of the values that phis connect, and the register *)
(* a value of a web got last.  (That a lookup halves the paths it follows  *)
(* changes no answer, and is left out.)                                    *)
WebOfBlock(forest, blocks, cfg, b) ==
    LET dsts == Head(PhiDsts(blocks[b]))
        DstOf(phi) == dsts.dsts[CHOOSE k \in DOMAIN dsts.phis : dsts.phis[k] = phi][1]
    IN  IF PhiDsts(blocks[b]) = <<>> THEN forest
        ELSE Through(LAMBDA f, p :
                ThroughDomain(LAMBDA g, k :
                    Union(g, Head(PhiSrcs(blocks[p])).srcs[k][1], DstOf(Head(PhiSrcs(blocks[p])).phis[k])),
                    f, Head(PhiSrcs(blocks[p])).phis),
                forest, cfg.pred[b])

(* new: it stops where a predecessor has no sources for the phis of its    *)
(* successor, or sources for phis of another one.                          *)
WebsDefined(blocks, cfg) ==
    \A b \in DOMAIN blocks : PhiDsts(blocks[b]) # <<>> =>
        \A p \in Range(cfg.pred[b]) :
            /\ PhiSrcs(blocks[p]) # <<>>
            /\ Range(Head(PhiSrcs(blocks[p])).phis) \subseteq Range(Head(PhiDsts(blocks[b])).phis)

PhiWebs(blocks, cfg) ==
    [forest |-> ThroughDomain(LAMBDA f, b : WebOfBlock(f, blocks, cfg, b), <<>>, blocks),
     register |-> <<>>]

WebOf(webs, v) == Find(webs.forest, v).representative
GetWeb(webs, v) == LET web == WebOf(webs, v) IN
    IF web \in DOMAIN webs.register THEN webs.register[web] ELSE NoReg

(* set, for every value in a register at the end of a block; which one is  *)
(* last in its web is up to the order of a hash table.                     *)
SetWebs(webs, ras) ==
    LET held == UNION { { <<WebOf(webs, v), ras[f][v]>> : v \in DOMAIN ras[f] } : f \in DOMAIN ras }
        Options(web) == { h[2] : h \in { g \in held : g[1] = web } }
        several == { h[1] : h \in { g \in held : Options(g[1]) # {g[2]} } }
        others == [web \in { h[1] : h \in held } \ several |-> CHOOSE r \in Options(web) : TRUE]
    IN  { [webs EXCEPT !.register = last @@ others @@ @] :
            last \in { g \in [several -> { h[2] : h \in held }] : \A web \in several : g[web] \in Options(web) } }

-----------------------------------------------------------------------------
(* instr_remap_srcs_file: vectors, the predicate, scalars.                 *)
CollectSrc(acc, k) ==
    With(CollectVector(acc.vra, acc.instr.srcs[k]), LAMBDA found :
         [vra |-> found.vra,
          instr |-> [acc.instr EXCEPT !.srcs[k] = Registers(found.vra.file, found.reg, Len(@))]])

CollectPred(acc) ==
    IF \A v \in acc.instr.pred : v[1] # acc.vra.file THEN acc
    ELSE With(CollectVector(acc.vra, Listed(acc.instr.pred)), LAMBDA found :
              [vra |-> found.vra,
               instr |-> [acc.instr EXCEPT !.pred = {Register(found.vra.file, found.reg)}]])

RemapSrcs(vra, instr) ==
    LET vectors == Indices(instr.srcs, LAMBDA vec : Own(vra.file, vec) /\ Len(vec) > 1)
        scalars == Indices(instr.srcs, LAMBDA vec : Own(vra.file, vec) /\ Len(vec) = 1)
    IN  With(Through(CollectSrc, [vra |-> vra, instr |-> instr], vectors), LAMBDA acc :
        With(CollectPred(acc), LAMBDA withPred : Through(CollectSrc, withPred, scalars)))

(* What one of the ways through instr_assign_regs_file leaves.             *)
FinishFile(as, acc, killed) ==
    With(Finish(FreeKilled(acc.vra, killed)), LAMBDA vra :
         [as EXCEPT !.instr = acc.instr, !.ras[vra.file] = vra.ra,
                    !.copies = @ \o vra.copies, !.stuck = @ \/ vra.stuck])

(* alloc_scalar, of a value that becomes destination k.                    *)
Allocate(as, ctx, v) ==
    With(AllocScalar(as.ras[v[1]], ctx.block, ctx.ip, v, GetWeb(ctx.webs, v), ctx.limit[v[1]]), LAMBDA r :
         [as EXCEPT !.ras[v[1]] = (v :> r) @@ @,
                    !.stuck = @ \/ r \notin 0 .. ctx.limit[v[1]] - 1 \/ v \in DOMAIN as.ras[v[1]]
                                \/ r \in Range(as.ras[v[1]])])
AllocDst(as, ctx, k) ==
    LET v == as.instr.dsts[k][1] IN
    With(Allocate(as, ctx, v), LAMBDA a :
         [a EXCEPT !.instr.dsts[k] = Registers(v[1], a.ras[v[1]][v], 1)])

AllocScalarDsts(as, ctx, f) ==
    Through(LAMBDA a, k : AllocDst(a, ctx, k), as, Indices(as.instr.dsts, LAMBDA vec : Own(f, vec)))

-----------------------------------------------------------------------------
(* instr_assign_regs_file.                                                 *)
SortedBySize(vectors, ks) ==
    With(Ordered(DOMAIN ks, LAMBDA i, j :
            Len(vectors[ks[i]]) < Len(vectors[ks[j]]) \/ (Len(vectors[ks[i]]) = Len(vectors[ks[j]]) /\ i < j)),
         LAMBDA order : [i \in DOMAIN order |-> ks[order[i]]])

(* The vectors among the sources that die here, no value counted twice.    *)
KilledVectors(instr, f, killed) ==
    With(Through(LAMBDA acc, k :
            IF Own(f, instr.srcs[k]) /\ Range(instr.srcs[k]) \subseteq acc.avail
            THEN [avail |-> acc.avail \ Range(instr.srcs[k]), found |-> Append(acc.found, k)] ELSE acc,
            [avail |-> killed, found |-> <<>>], Indices(instr.srcs, LAMBDA vec : Len(vec) > 1)),
         LAMBDA acc : [i \in DOMAIN acc.found |-> instr.srcs[SortedBySize(instr.srcs, acc.found)[i]]])

(* For each vector destination, from the largest: the dying vector it can  *)
(* replace (a list of at most one), and a place that is free anyway.       *)
PlanVector(plan, vec, ra, limit) ==
    LET fits == plan.dying # <<>> /\ Len(Last(plan.dying)) >= Len(vec) IN
    With(FindUnused(ra, plan.next, Len(vec), limit), LAMBDA r :
         [dying |-> IF fits THEN Front(plan.dying) ELSE <<>>,
          replaces |-> <<IF fits THEN <<Last(plan.dying)>> ELSE <<>>>> \o plan.replaces,
          place |-> <<r>> \o plan.place,
          next |-> IF r = NoReg THEN plan.next ELSE r + Len(vec)])

Plan(as, ctx, f, ks) ==
    Through(LAMBDA plan, k : PlanVector(plan, as.instr.dsts[k], as.ras[f], ctx.limit[f]),
            [dying |-> KilledVectors(as.instr, f, ctx.srcsKilled), replaces |-> <<>>, place |-> <<>>, next |-> 0],
            Reverse(ks))

PlaceDst(acc, k, r) ==
    LET vec == acc.instr.dsts[k] IN
    [vra |-> AssignPinVec(acc.vra, vec, r),
     instr |-> [acc.instr EXCEPT !.dsts[k] = Registers(acc.vra.file, r, Len(vec))]]

AllocVectorDst(acc, k) ==
    With(AllocVector(acc.vra, acc.instr.dsts[k]), LAMBDA found :
         [vra |-> found.vra,
          instr |-> [acc.instr EXCEPT !.dsts[k] = Registers(acc.vra.file, found.reg, Len(@))]])

(* Every vector destination takes the place of a vector that dies.         *)
ReplaceDying(as, ctx, f, ks, plan) ==
    With(RemapSrcs(Vra(f, ctx.limit[f], as.ras[f]), as.instr), LAMBDA acc :
    With([k \in DOMAIN ks |-> VecRegOf(acc.vra.ra, plan.replaces[k][1])], LAMBDA regs :
    With([acc EXCEPT !.vra = FreeKilled(@, ctx.srcsKilled)], LAMBDA freed :
    With(ThroughDomain(LAMBDA a, k : PlaceDst(a, ks[k], regs[k]), freed, ks), LAMBDA placed :
         FinishFile(as, placed, {})))))

(* They all fit beside what is there.                                      *)
PlaceFree(as, ctx, f, ks, plan) ==
    With(ThroughDomain(LAMBDA a, k : PlaceDst(a, ks[k], plan.place[k]),
                       [vra |-> Vra(f, ctx.limit[f], as.ras[f]), instr |-> as.instr], ks), LAMBDA placed :
    With(RemapSrcs(placed.vra, placed.instr), LAMBDA acc : FinishFile(as, acc, ctx.srcsKilled)))

(* Others have to make room.                                               *)
MakeRoom(as, ctx, f) ==
    With(RemapSrcs(Vra(f, ctx.limit[f], as.ras[f]), as.instr), LAMBDA acc :
    With(Through(AllocVectorDst, acc, Indices(as.instr.dsts, LAMBDA vec : Own(f, vec) /\ Len(vec) > 1)),
         LAMBDA placed : FinishFile(as, placed, ctx.srcsKilled)))

VectorDsts(as, ctx, f) ==
    LET ks == SortedBySize(as.instr.dsts, Indices(as.instr.dsts, LAMBDA vec : Own(f, vec) /\ Len(vec) > 1)) IN
    With(Plan(as, ctx, f, ks), LAMBDA plan :
         IF \A k \in DOMAIN ks : plan.replaces[k] # <<>> THEN ReplaceDying(as, ctx, f, ks, plan)
         ELSE IF \A k \in DOMAIN ks : plan.place[k] # NoReg THEN PlaceFree(as, ctx, f, ks, plan)
         ELSE MakeRoom(as, ctx, f))

AssignFile(as, ctx, f) ==
    With(IF Indices(as.instr.dsts, LAMBDA vec : Own(f, vec) /\ Len(vec) > 1) # <<>>
         THEN VectorDsts(as, ctx, f)
         ELSE With(RemapSrcs(Vra(f, ctx.limit[f], as.ras[f]), as.instr), LAMBDA acc :
                   FinishFile(as, acc, ctx.srcsKilled)),
         LAMBDA a : AllocScalarDsts(a, ctx, f))

-----------------------------------------------------------------------------
(* assign_regs_instr.  as.arb is the AssignRegsBlock: it collects what is  *)
(* live in and where the sources of phis are; as.code is what is emitted.  *)
FreeAll(as, values) ==
    [as EXCEPT !.ras = [f \in DOMAIN as.ras |-> Freed(as.ras[f], values)],
               !.stuck = @ \/ \E v \in values : v \notin DOMAIN as.ras[v[1]]]

GetScalar(ras, v) == IF IsSsa(v) THEN Register(v[1], RegOf(ras[v[1]], v)) ELSE v
ScalarsOf(as, vectors) == [k \in DOMAIN vectors |-> <<GetScalar(as.ras, vectors[k][1])>>]
Unknown(as, vectors) == \E v \in SsaOf(vectors) : v \notin DOMAIN as.ras[v[1]]

Emit(as, was) == [as EXCEPT !.code = Append(@, [was |-> was] @@ as.instr)]

(* try_coalesce: the destination keeps the register of its source.  The    *)
(* code drops the copy; here it stays, as one of a register to itself, to  *)
(* say what the register is called from now on.                            *)
Coalesces(as, dst, src) ==
    src[1] = "reg" /\ src[2] = dst[1] /\ src[3] \notin Range(as.ras[dst[1]])
Coalesce(as, k) ==
    LET dst == as.instr.dsts[k][1]
        src == as.instr.srcs[k][1]
    IN  [as EXCEPT !.ras[dst[1]] = (dst :> src[3]) @@ @, !.instr.dsts[k] = <<src>>]

AssignUndef(as, ctx) ==
    With(AllocDst(as, ctx, 1), LAMBDA a : Emit(FreeAll(a, ctx.dstsKilled), as.instr))

AssignPhiSrcs(as) ==
    [as EXCEPT !.stuck = @ \/ Unknown(as, as.instr.srcs),
               !.phi_out = [phi \in Range(as.instr.phis) |->
                   GetScalar(as.ras, as.instr.srcs[CHOOSE k \in DOMAIN as.instr.phis : as.instr.phis[k] = phi][1])]]

AssignPhiDsts(as, ctx) ==
    With(ThroughDomain(LAMBDA a, k :
            With(AllocDst(a, ctx, k), LAMBDA placed :
                 [placed EXCEPT !.live_in = @ \cup {[what |-> <<"phi", placed.instr.phis[k]>>,
                                                     register |-> placed.instr.dsts[k][1]]}]),
            as, as.instr.dsts), LAMBDA a : FreeAll(a, ctx.dstsKilled))

AssignCopy(as, ctx) ==
    LET f == as.instr.srcs[1][1][1]
        dst == as.instr.dsts[1][1]
    IN  With(IF f \notin Files THEN as
             ELSE With(CollectSrc([vra |-> Vra(f, ctx.limit[f], as.ras[f]), instr |-> as.instr], 1), LAMBDA acc :
                       FinishFile(as, acc, ctx.srcsKilled)), LAMBDA a :
             IF Coalesces(a, dst, a.instr.srcs[1][1])
             THEN Emit(FreeAll(Coalesce(a, 1), ctx.dstsKilled), as.instr)
             ELSE With(AllocDst(a, ctx, 1), LAMBDA b : Emit(FreeAll(b, ctx.dstsKilled), as.instr)))

AllocRest(as, ctx) ==
    Through(LAMBDA a, k : AllocDst(a, ctx, k), as, Indices(as.instr.dsts, LAMBDA vec : IsSsa(vec[1])))

AssignParCopy(as, ctx) ==
    With(FreeAll([as EXCEPT !.instr.srcs = ScalarsOf(as, @), !.stuck = @ \/ Unknown(as, as.instr.srcs)],
                 ctx.srcsKilled), LAMBDA freed :
    With(ThroughDomain(LAMBDA a, k :
            IF Coalesces(a, a.instr.dsts[k][1], a.instr.srcs[k][1]) THEN Coalesce(a, k) ELSE a,
            freed, freed.instr.dsts), LAMBDA coalesced :
    With(AllocRest(coalesced, ctx), LAMBDA placed : Emit(FreeAll(placed, ctx.dstsKilled), as.instr))))

(* "its sources should be the last free GPRs": none is in use afterwards.  *)
AssignRegOut(as, ctx) ==
    With([as EXCEPT !.stuck = @ \/ Unknown(as, as.instr.srcs),
                    !.copies = [k \in DOMAIN as.instr.srcs |->
                                  <<Register("GPR", k - 1), GetScalar(as.ras, as.instr.srcs[k][1])>>]], LAMBDA a :
    With(FreeAll(a, ctx.srcsKilled), LAMBDA freed :
         [freed EXCEPT !.stuck = @ \/ DOMAIN freed.ras["GPR"] # {}]))

AssignOther(as, ctx, files) ==
    With(Through(LAMBDA a, f : AssignFile(a, ctx, f), as, files), LAMBDA a :
         Emit(FreeAll(a, ctx.dstsKilled), as.instr))

AssignInstr(as, ctx, files) ==
    LET op == as.instr.op IN
    CASE op = "undef" -> AssignUndef(as, ctx)
      [] op = "phisrcs" -> AssignPhiSrcs(as)
      [] op = "phidsts" -> AssignPhiDsts(as, ctx)
      [] op = "copy" -> AssignCopy(as, ctx)
      [] op = "parcopy" -> AssignParCopy(as, ctx)
      [] op = "regout" -> AssignRegOut(as, ctx)
      [] OTHER -> AssignOther(as, ctx, files)
=============================================================================
