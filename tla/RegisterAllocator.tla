-------------------------- MODULE RegisterAllocator -------------------------
(***************************************************************************)
(* crates/deko-nak/src/assign_regs.rs: which register a value gets, and    *)
(* what has to move when a vector needs neighbouring registers.            *)
(*                                                                         *)
(* A register file's allocator is a function `ra` from the values that     *)
(* have a register to their register.  While one instruction is assigned,  *)
(* `vra` adds what is pinned, what has lost its register (evicted), the    *)
(* copies to be made, and whether an expect or an assert has failed.       *)
(***************************************************************************)
EXTENDS ConventionalSsa

NoReg == -1

RECURSIVE NextPowerOfTwo(_, _)
NextPowerOfTwo(n, p) == IF p >= n THEN p ELSE NextPowerOfTwo(n, 2 * p)
Align(comps) == NextPowerOfTwo(comps, 1)

(* try_find_unset_reg_range                                                *)
FindUnset(set, start, comps, limit) ==
    LET fits == { r \in start .. limit - comps :
                    r % Align(comps) = 0 /\ \A c \in 0 .. comps - 1 : r + c \notin set }
    IN  IF fits = {} THEN NoReg ELSE CHOOSE r \in fits : \A other \in fits : r <= other

FindUnused(ra, start, comps, limit) == FindUnset(Range(ra), start, comps, limit)

RegOf(ra, v) == IF v \in DOMAIN ra THEN ra[v] ELSE NoReg
Freed(ra, values) == [v \in DOMAIN ra \ values |-> ra[v]]

(* try_get_vec_reg                                                         *)
VecRegOf(ra, vec) ==
    IF /\ RegOf(ra, vec[1]) # NoReg
       /\ RegOf(ra, vec[1]) % Align(Len(vec)) = 0
       /\ \A c \in DOMAIN vec : RegOf(ra, vec[c]) = RegOf(ra, vec[1]) + c - 1
    THEN RegOf(ra, vec[1]) ELSE NoReg

(* Where the vector starts of which component c is in register r, or NoReg *)
(* when r is no place for it.                                              *)
StartOf(vec, c, r) ==
    LET start == r - (r % Align(Len(vec)))
    IN  IF r # NoReg /\ r = start + c - 1 THEN start ELSE NoReg

-----------------------------------------------------------------------------
(* SSAUseMap: the next use after ip, in its block, that wants the value in *)
(* a register of a kind: as an output or in a vector.                      *)
WantsPlace(instr, v) ==
    \E k \in DOMAIN instr.srcs :
        (instr.op = "regout" \/ Len(instr.srcs[k]) > 1) /\ v \in Range(instr.srcs[k])

NextPlace(block, v, ip) ==
    LET later == { i \in DOMAIN block : i > ip /\ WantsPlace(block[i], v) }
    IN  IF later = {} THEN 0 ELSE CHOOSE i \in later : \A other \in later : i <= other

(* The last of the places a RegOut lists the value at would be another     *)
(* choice; the code finds the first.                                       *)
FirstSource(instr, v) ==
    CHOOSE k \in DOMAIN instr.srcs :
        /\ (instr.op = "regout" \/ Len(instr.srcs[k]) > 1) /\ v \in Range(instr.srcs[k])
        /\ \A j \in 1 .. k - 1 : (instr.op # "regout" /\ Len(instr.srcs[j]) = 1) \/ v \notin Range(instr.srcs[j])

(* Beside a component that is in place already, or where all would fit.    *)
PlaceInVector(ra, vec, v, limit) ==
    LET comp == CHOOSE c \in DOMAIN vec : vec[c] = v /\ \A d \in 1 .. c - 1 : vec[d] # v
        beside == { c \in DOMAIN vec \ {comp} :
                      LET start == StartOf(vec, c, RegOf(ra, vec[c])) IN
                      start # NoReg /\ start + comp - 1 < limit /\ start + comp - 1 \notin Range(ra) }
        base == FindUnused(ra, 0, Len(vec), limit)
    IN  CASE beside # {} ->
                LET c == CHOOSE c \in beside : \A d \in beside : c <= d
                IN  StartOf(vec, c, RegOf(ra, vec[c])) + comp - 1
          [] beside = {} /\ base # NoReg -> base + comp - 1
          [] OTHER -> NoReg

Preferred(ra, block, ip, v, limit) ==
    LET i == NextPlace(block, v, ip) IN
    IF i = 0 THEN NoReg
    ELSE LET k == FirstSource(block[i], v) IN
         IF block[i].op # "regout" THEN PlaceInVector(ra, block[i].srcs[k], v, limit)
         ELSE IF k - 1 \notin Range(ra) THEN k - 1 ELSE NoReg

(* alloc_scalar: the register of the phi web, else a place that suits the  *)
(* next use, else the first that is free; NoReg where the code panics.     *)
AllocScalar(ra, block, ip, v, hint, limit) ==
    IF hint # NoReg /\ hint \notin Range(ra) THEN hint
    ELSE With(Preferred(ra, block, ip, v, limit), LAMBDA r :
              IF r # NoReg THEN r ELSE FindUnused(ra, 0, 1, limit))

-----------------------------------------------------------------------------
(* VecRegAllocator.                                                        *)
Vra(f, limit, ra) ==
    [file |-> f, limit |-> limit, ra |-> ra, pinned |-> {}, evicted |-> <<>>, copies |-> <<>>,
     stuck |-> FALSE]

Register(f, r) == <<"reg", f, r>>
Move(vra, from, to) ==
    [vra EXCEPT !.copies = Append(@, <<Register(vra.file, to), Register(vra.file, from)>>)]

AssignPin(vra, v, r) ==
    [vra EXCEPT !.stuck = @ \/ r \notin 0 .. vra.limit - 1 \/ r \in Range(vra.ra) \/ v \in DOMAIN vra.ra,
                !.ra = (v :> r) @@ @, !.pinned = @ \cup {r}]

EvictRegIfUsed(vra, r) ==
    LET holder == { v \in DOMAIN vra.ra : vra.ra[v] = r }
    IN  [vra EXCEPT !.stuck = @ \/ r \in vra.pinned,
                    !.ra = Freed(@, holder),
                    !.evicted = [v \in holder |-> r] @@ @]

MoveSsaToReg(vra, v, r) ==
    CASE RegOf(vra.ra, v) = r -> [vra EXCEPT !.pinned = @ \cup {r}, !.stuck = @ \/ r \in vra.pinned]
      [] RegOf(vra.ra, v) \notin {r, NoReg} ->
            With([vra EXCEPT !.ra = Freed(@, {v}), !.stuck = @ \/ vra.ra[v] \in vra.pinned], LAMBDA freed :
            With(EvictRegIfUsed(freed, r), LAMBDA evicted :
                 AssignPin(Move(evicted, vra.ra[v], r), v, r)))
      [] v \in DOMAIN vra.evicted ->
            With([vra EXCEPT !.evicted = Freed(@, {v})], LAMBDA found :
            With(EvictRegIfUsed(found, r), LAMBDA evicted :
                 AssignPin(Move(evicted, vra.evicted[v], r), v, r)))
      [] OTHER -> [vra EXCEPT !.stuck = TRUE]

PinRange(vra, r, comps) == [vra EXCEPT !.pinned = @ \cup (r .. r + comps - 1)]

(* The place of the first component around which all of the vector fits    *)
(* into registers that are not pinned.                                     *)
AroundComponent(vra, vec) ==
    LET starts == { c \in DOMAIN vec :
                      LET start == StartOf(vec, c, RegOf(vra.ra, vec[c])) IN
                      /\ start # NoReg /\ start + Len(vec) <= vra.limit
                      /\ \A r \in start .. start + Len(vec) - 1 : r \notin vra.pinned }
    IN  IF starts = {} THEN NoReg
        ELSE StartOf(vec, CHOOSE c \in starts : \A d \in starts : c <= d,
                     RegOf(vra.ra, vec[CHOOSE c \in starts : \A d \in starts : c <= d]))

VectorPlace(vra, vec) ==
    LET unused == FindUnused(vra.ra, 0, Len(vec), vra.limit)
        around == AroundComponent(vra, vec)
    IN  IF unused # NoReg THEN unused
        ELSE IF around # NoReg THEN around ELSE FindUnset(vra.pinned, 0, Len(vec), vra.limit)

(* collect_vector: the register it ends up in, and the allocator.          *)
CollectVector(vra, vec) ==
    IF VecRegOf(vra.ra, vec) # NoReg
    THEN [reg |-> VecRegOf(vra.ra, vec), vra |-> PinRange(vra, VecRegOf(vra.ra, vec), Len(vec))]
    ELSE With(VectorPlace(vra, vec), LAMBDA place :
         IF place = NoReg THEN [reg |-> 0, vra |-> [vra EXCEPT !.stuck = TRUE]]
         ELSE [reg |-> place,
               vra |-> ThroughDomain(LAMBDA a, c : MoveSsaToReg(a, vec[c], place + c - 1), vra, vec)])

(* assign_pin_vec_reg, and alloc_vector.                                   *)
AssignPinVec(vra, vec, r) ==
    ThroughDomain(LAMBDA a, c : AssignPin(a, vec[c], r + c - 1), vra, vec)

AllocVector(vra, vec) ==
    LET unused == FindUnused(vra.ra, 0, Len(vec), vra.limit)
        unpinned == FindUnset(vra.pinned, 0, Len(vec), vra.limit)
    IN  CASE unused # NoReg -> [reg |-> unused, vra |-> AssignPinVec(vra, vec, unused)]
          [] unused = NoReg /\ unpinned # NoReg ->
                [reg |-> unpinned,
                 vra |-> With(ThroughDomain(LAMBDA a, c : EvictRegIfUsed(a, unpinned + c - 1), vra, vec),
                              LAMBDA a : AssignPinVec(a, vec, unpinned))]
          [] OTHER -> [reg |-> 0, vra |-> [vra EXCEPT !.stuck = TRUE]]

FreeKilled(vra, killed) ==
    LET own == { v \in killed : v[1] = vra.file }
    IN  [vra EXCEPT !.ra = Freed(@, own), !.stuck = @ \/ ~(own \subseteq DOMAIN vra.ra)]

(* finish: those that are still without a register get one, in the order   *)
(* of the registers they had.                                              *)
Finish(vra) ==
    Through(LAMBDA a, v :
        With(FindUnset(Range(a.ra) \cup a.pinned, 0, 1, a.limit), LAMBDA r :
             IF r = NoReg THEN [a EXCEPT !.stuck = TRUE]
             ELSE AssignPin(Move(a, vra.evicted[v], r), v, r)),
        vra, Ordered(DOMAIN vra.evicted, LAMBDA v, w : vra.evicted[v] < vra.evicted[w]))
=============================================================================
