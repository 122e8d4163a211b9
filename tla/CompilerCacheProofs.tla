------------------------- MODULE CompilerCacheProofs ------------------------
(***************************************************************************)
(* Theorems about CompilerCache, for every number of processes, threads,   *)
(* keys and requests, every limit and every environment; and that the      *)
(* cache implements the service it stands in front of.                     *)
(***************************************************************************)
EXTENDS CompilerCache, SequenceTheorems, FiniteSums

(* A sequence keeps its element type when a key is moved to its end.       *)
LEMMA TouchType ==
    ASSUME NEW S, NEW s \in Seq(S), NEW k \in S
    PROVE  Touch(s, k) \in Seq(S)
<1>1. Without(s, k) \in Seq(S)
  <2>1. CASE k \notin Range(s)
    BY <2>1 DEF Without
  <2>2. CASE k \in Range(s)
    <3> DEFINE i == CHOOSE i \in DOMAIN s : s[i] = k
    <3>1. i \in DOMAIN s
      BY <2>2 DEF Range
    <3>2. i \in 1 .. Len(s) /\ Len(s) \in Nat /\ \A j \in 1 .. Len(s) : s[j] \in S
      BY <3>1, LenProperties, ElementOfSeq
    <3> HIDE DEF i
    <3>3. SubSeq(s, 1, i - 1) \in Seq(S)
      BY <3>2, SubSeqProperties
    <3>4. SubSeq(s, i + 1, Len(s)) \in Seq(S)
      BY <3>2, SubSeqProperties
    <3>5. SubSeq(s, 1, i - 1) \o SubSeq(s, i + 1, Len(s)) \in Seq(S)
      BY <3>3, <3>4, ConcatProperties
    <3> QED BY <3>5, <2>2 DEF Without, RemoveAt, i
  <2> QED BY <2>1, <2>2
<1> QED BY <1>1, AppendProperties DEF Touch

(* A resolved key is a key of the same source that the source defines.     *)
LEMMA ResolveType ==
    ASSUME NEW k \in Key, Resolve(k) # Failure
    PROVE  Resolve(k) \in Key /\ Resolve(k).source = k.source
           /\ Resolve(k).entry \in EntryPoints[k.source]
<1> DEFINE defined == EntryPoints[k.source]
<1>1. defined \subseteq Name
  BY CacheAssumption DEF Key
<1>2. CASE k.entry \in defined
  BY <1>2 DEF Resolve
<1>3. CASE k.entry \notin defined /\ \E n \in defined : defined = {n}
  <2>1. (CHOOSE n \in defined : TRUE) \in defined
    BY <1>3
  <2>2. Resolve(k) = [k EXCEPT !.entry = CHOOSE n \in defined : TRUE]
    BY <1>3 DEF Resolve
  <2> QED BY <2>1, <2>2, <1>1 DEF Key
<1>4. CASE k.entry \notin defined /\ ~ \E n \in defined : defined = {n}
  BY <1>4 DEF Resolve
<1> QED BY <1>2, <1>3, <1>4

LEMMA PointTypes ==
    ASSUME NEW t \in Thread
    PROVE  AfterMiss(t) \in Point /\ OnError(t) \in Point
BY DEF AfterMiss, OnError, Point

LEMMA ScratchType ==
    ASSUME TypeOK, NEW t \in Thread
    PROVE  ScratchOf(t) \in ScratchName
BY CacheAssumption DEF TypeOK, ScratchOf, ScratchName, Call

(* The assignments actions make to the locals of a request.                *)
LEMMA CallTypes ==
    ASSUME TypeOK, NEW t \in Thread
    PROVE  /\ \A a \in Artifact \cup {None} : [call EXCEPT ![t].artifact = a] \in [Thread -> Call]
           /\ \A a \in Artifact \cup {None}, src \in ReplySource :
                 [call EXCEPT ![t].artifact = a, ![t].source = src] \in [Thread -> Call]
           /\ \A k \in Key, b \in BOOLEAN :
                 [call EXCEPT ![t].key = k, ![t].resolved = b] \in [Thread -> Call]
           /\ \A n \in Nat : [call EXCEPT ![t].sequence = n] \in [Thread -> Call]
<1>1. call \in [Thread -> Call] /\ call[t] \in Call
  BY DEF TypeOK
<1>2. \A c \in Call : [call EXCEPT ![t] = c] \in [Thread -> Call]
  BY <1>1
<1>3. \A a \in Artifact \cup {None} : [call[t] EXCEPT !.artifact = a] \in Call
  BY <1>1 DEF Call
<1>4. \A a \in Artifact \cup {None}, src \in ReplySource :
         [call[t] EXCEPT !.artifact = a, !.source = src] \in Call
  BY <1>1 DEF Call
<1>5. \A k \in Key, b \in BOOLEAN : [call[t] EXCEPT !.key = k, !.resolved = b] \in Call
  BY <1>1 DEF Call
<1>6. \A n \in Nat : [call[t] EXCEPT !.sequence = n] \in Call
  BY <1>1 DEF Call
<1> QED BY <1>2, <1>3, <1>4, <1>5, <1>6

LEMMA EntryType ==
    ASSUME TypeOK, NEW p \in Process, NEW k \in Key, NEW a \in Artifact \cup {None}
    PROVE  [entries EXCEPT ![p][k] = a] \in [Process -> [Key -> Artifact \cup {None}]]
<1>1. [entries[p] EXCEPT ![k] = a] \in [Key -> Artifact \cup {None}]
  BY DEF TypeOK
<1> QED BY <1>1 DEF TypeOK

LEMMA StrikeType ==
    ASSUME TypeOK, NEW h, Strike(h)
    PROVE  hazards' \in [Hazard -> Nat]
<1>1. h \in Hazard
  BY CacheAssumption DEF Strike
<1>2. hazards[h] + 1 \in Nat
  BY <1>1 DEF TypeOK
<1> QED BY <1>1, <1>2 DEF Strike, TypeOK

LEMMA ReturnType ==
    ASSUME TypeOK, NEW t \in Thread, NEW from, NEW outcome, NEW source,
           Return(t, from, outcome, source), outcome \in Artifact \cup {None, Failure}, source \in ReplySource
    PROVE  pc' \in [Thread -> Point] /\ reply' \in [Thread -> Reply]
<1>1. [outcome |-> outcome, source |-> source] \in Reply
  BY DEF Reply
<1> QED BY <1>1 DEF TypeOK, Return, Step, Point

-----------------------------------------------------------------------------
(* Why no two threads meet on a temporary name: live processes have        *)
(* different ids, the threads of one process drew different sequence       *)
(* numbers, and every number drawn is below the process's counter, so the  *)
(* next one is fresh again.  TypeOK needs it: rename moves a file that     *)
(* must be there.                                                          *)
Writing == {"write", "rename", "cleanup"}

ScratchInv ==
    /\ \A p, q \in Process : pid[p] = pid[q] => p = q
    /\ \A t \in Thread : pc[t] \in Writing => call[t].sequence < sequence[ProcessOf[t]]
    /\ \A t, u \in Thread :
          (t # u /\ pc[t] \in Writing /\ pc[u] \in Writing /\ ProcessOf[t] = ProcessOf[u])
              => call[t].sequence # call[u].sequence
    /\ \A t \in Thread : pc[t] \in {"write", "rename"} => ScratchOf(t) \in DOMAIN scratch
    /\ \A t \in Thread : pc[t] = "rename" => scratch[ScratchOf(t)] = Whole(call[t].key)

LEMMA Apart ==
    ASSUME ScratchInv, NEW t \in Thread, NEW u \in Thread, t # u,
           pc[t] \in Writing, pc[u] \in Writing
    PROVE  ScratchOf(t) # ScratchOf(u)
BY CacheAssumption DEF ScratchInv, ScratchOf

-----------------------------------------------------------------------------
(* Every variable keeps its type under every action of the cache and of    *)
(* its environment.                                                        *)
LEMMA TypeInit == Init => TypeOK
<1> SUFFICES ASSUME Init PROVE TypeOK
  OBVIOUS
<1> DEFINE r == CHOOSE r \in Request : TRUE
<1>1. r \in [resolving : BOOLEAN, key : Key]
  BY CacheAssumption
<1>2. call \in [Thread -> Call]
  <2>1. call = [t \in Thread |->
                    [resolving |-> r.resolving, asked |-> r.key, key |-> r.key,
                     resolved |-> FALSE, artifact |-> None, source |-> "error",
                     sequence |-> 0, request |-> 0]]
    BY DEF Init
  <2> HIDE DEF r
  <2> QED BY <2>1, <1>1 DEF Call, ReplySource
<1>3. reply \in [Thread -> Reply]
  BY DEF Init, Reply, ReplySource
<1>4. scratch = << >> /\ DOMAIN scratch = {}
  BY DEF Init
<1> QED BY <1>2, <1>3, <1>4, EmptySeq DEF Init, TypeOK, Point, Hazard

LEMMA TypeNext == TypeOK /\ ScratchInv /\ [Next]_vars => TypeOK'
<1> SUFFICES ASSUME TypeOK, ScratchInv, [Next]_vars PROVE TypeOK'
  OBVIOUS
<1> USE DEF TypeOK
<1>1. ASSUME NEW t \in Thread, NEW r \in Request, Ask(t, r) PROVE TypeOK'
  <2>1. call' \in [Thread -> Call]
    <3> DEFINE c == [resolving |-> r.resolving, asked |-> r.key, key |-> r.key,
                     resolved |-> FALSE, artifact |-> None, source |-> "error",
                     sequence |-> 0, request |-> call[t].request + 1]
    <3>1. r \in [resolving : BOOLEAN, key : Key] /\ call[t].request \in Nat
      BY CacheAssumption DEF Call
    <3>2. c \in Call
      BY <3>1 DEF Call, ReplySource
    <3>3. call' = [call EXCEPT ![t] = c]
      BY <1>1 DEF Ask
    <3> HIDE DEF c
    <3> QED BY <3>2, <3>3
  <2>2. pc' \in [Thread -> Point]
    BY <1>1 DEF Ask, Step, Point
  <2>3. reply' \in [Thread -> Reply]
    BY <1>1 DEF Ask, Reply, ReplySource
  <2> QED BY <1>1, <2>1, <2>2, <2>3 DEF Ask, memoryVars, directoryVars, processVars
<1>2. ASSUME NEW t \in Thread, MemoryGet(t) PROVE TypeOK'
  <2>1. ProcessOf[t] \in Process /\ call[t].key \in Key
    BY CacheAssumption DEF Call
  <2>2. Touch(order[ProcessOf[t]], call[t].key) \in Seq(Key)
    BY <2>1, TouchType
  <2>3. order' \in [Process -> Seq(Key)]
    BY <1>2, <2>2 DEF MemoryGet
  <2>4. pc' \in [Thread -> Point] /\ reply' \in [Thread -> Reply]
    <3>1. CASE Return(t, "memory", entries[ProcessOf[t]][call[t].key], "memory")
      BY <3>1, <2>1, ReturnType DEF ReplySource
    <3>2. CASE /\ Step(t, "memory", IF Persistent THEN "metadata" ELSE AfterMiss(t))
               /\ UNCHANGED reply
      BY <3>2, PointTypes DEF Step, Point
    <3> QED BY <1>2, <3>1, <3>2 DEF MemoryGet
  <2> QED BY <1>2, <2>3, <2>4 DEF MemoryGet, directoryVars, processVars
<1>3. ASSUME NEW t \in Thread, Metadata(t) PROVE TypeOK'
  <2>1. pc' \in [Thread -> Point]
    BY <1>3, PointTypes DEF Metadata, Step, Point
  <2> QED BY <1>3, <2>1 DEF Metadata, memoryVars, directoryVars, processVars
<1>4. ASSUME NEW t \in Thread, Read(t) PROVE TypeOK'
  <2>1. pc' \in [Thread -> Point]
    BY <1>4, PointTypes DEF Read, Step, Point
  <2>2. call' \in [Thread -> Call]
    <3>1. entry[call[t].key] # None =>
             Allocate(t, Decoded(entry[call[t].key])) \in Artifact
      BY DEF Allocate, Decoded, Artifact, Content, Call
    <3> DEFINE a == Allocate(t, Decoded(entry[call[t].key]))
    <3>2. a \in Artifact => [call EXCEPT ![t].artifact = a, ![t].source = "persistent"] \in [Thread -> Call]
      BY CallTypes DEF ReplySource
    <3> QED BY <1>4, <3>1, <3>2 DEF Read
  <2> QED BY <1>4, <2>1, <2>2 DEF Read, memoryVars, directoryVars, processVars
<1>5. ASSUME NEW t \in Thread, Discard(t) PROVE TypeOK'
  <2>1. pc' \in [Thread -> Point]
    BY <1>5, PointTypes DEF Discard, Step, Point
  <2> QED BY <1>5, <2>1 DEF Discard, memoryVars, processVars, Call
<1>6. ASSUME NEW t \in Thread, ResolveEntryPoint(t) PROVE TypeOK'
  <2>1. Resolve(call[t].asked) # Failure => Resolve(call[t].asked) \in Key
    BY ResolveType DEF Call
  <2>2. pc' \in [Thread -> Point] /\ reply' \in [Thread -> Reply]
    <3>1. CASE Return(t, "resolve", Failure, "error")
      BY <3>1, ReturnType DEF ReplySource
    <3>2. CASE /\ UNCHANGED reply
               /\ Step(t, "resolve", IF Resolve(call[t].asked) # call[t].asked
                                     THEN "memory" ELSE "compile")
      BY <3>2 DEF Step, Point
    <3> QED BY <1>6, <3>1, <3>2 DEF ResolveEntryPoint
  <2>3. call' \in [Thread -> Call]
    <3> DEFINE k == Resolve(call[t].asked)
    <3>1. k \in Key => [call EXCEPT ![t].key = k, ![t].resolved = TRUE] \in [Thread -> Call]
      BY CallTypes
    <3> QED BY <1>6, <2>1, <3>1 DEF ResolveEntryPoint
  <2> QED BY <1>6, <2>2, <2>3 DEF ResolveEntryPoint, memoryVars, directoryVars, processVars
<1>7. ASSUME NEW t \in Thread, Compile(t) PROVE TypeOK'
  <2>1. pc' \in [Thread -> Point] /\ reply' \in [Thread -> Reply]
    <3>1. CASE Return(t, "compile", Failure, "error")
      BY <3>1, ReturnType DEF ReplySource
    <3>2. CASE Step(t, "compile", IF Persistent THEN "check" ELSE "insert") /\ UNCHANGED reply
      BY <3>2 DEF Step, Point
    <3> QED BY <1>7, <3>1, <3>2 DEF Compile
  <2>2. call' \in [Thread -> Call]
    <3>1. Allocate(t, call[t].key) \in Artifact
      BY DEF Allocate, Artifact, Call
    <3> DEFINE a == Allocate(t, call[t].key)
    <3>2. [call EXCEPT ![t].artifact = a, ![t].source = "compiled"] \in [Thread -> Call]
      BY <3>1, CallTypes DEF ReplySource
    <3> QED BY <1>7, <3>2 DEF Compile
  <2> QED BY <1>7, <2>1, <2>2 DEF Compile, memoryVars, directoryVars, processVars
<1>8. ASSUME NEW t \in Thread, Check(t) PROVE TypeOK'
  BY <1>8 DEF Check, Step, Point, memoryVars, directoryVars, processVars
<1>9. ASSUME NEW t \in Thread, Create(t) PROVE TypeOK'
  <2>1. sequence' \in [Process -> Nat] /\ call' \in [Thread -> Call]
    <3>1. ProcessOf[t] \in Process
      BY CacheAssumption
    <3>2. sequence[ProcessOf[t]] \in Nat
      BY <3>1
    <3>3. [call EXCEPT ![t].sequence = sequence[ProcessOf[t]]] \in [Thread -> Call]
      BY <3>2, CallTypes
    <3> QED BY <1>9, <3>1, <3>3 DEF Create, NextSequence
  <2>2. pc' \in [Thread -> Point]
    BY <1>9 DEF Create, Step, Point
  <2>3. DOMAIN scratch' \subseteq ScratchName /\ \A f \in DOMAIN scratch' : scratch'[f] \in Content
    <3> DEFINE file == [ScratchOf(t) EXCEPT !.sequence = sequence[ProcessOf[t]]]
    <3>1. file \in ScratchName
      BY ScratchType, CacheAssumption DEF ScratchName
    <3>2. [form |-> "prefix", key |-> call[t].key] \in Content
      BY DEF Call, Content
    <3> HIDE DEF file
    <3>3. CASE UNCHANGED scratch
      BY <3>3
    <3>4. CASE scratch' = [f \in DOMAIN scratch \cup {file} |->
                             IF f = file THEN [form |-> "prefix", key |-> call[t].key]
                                         ELSE scratch[f]]
      BY <3>1, <3>2, <3>4
    <3> QED BY <1>9, <3>3, <3>4 DEF Create, file
  <2> QED BY <1>9, <2>1, <2>2, <2>3 DEF Create, memoryVars
<1>10. ASSUME NEW t \in Thread, Write(t) PROVE TypeOK'
  <2>1. Whole(call[t].key) \in Content
    BY DEF Whole, Content, Call
  <2>2. DOMAIN scratch' \subseteq ScratchName /\ \A f \in DOMAIN scratch' : scratch'[f] \in Content
    BY <1>10, <2>1 DEF Write
  <2> QED BY <1>10, <2>2 DEF Write, Step, Point, memoryVars, processVars
<1>11. ASSUME NEW t \in Thread, Rename(t) \/ Cleanup(t) PROVE TypeOK'
  <2>1. scratch' = Restrict(scratch, DOMAIN scratch \ {ScratchOf(t)})
    BY <1>11 DEF Rename, Cleanup
  <2>2. DOMAIN scratch' \subseteq ScratchName /\ \A f \in DOMAIN scratch' : scratch'[f] \in Content
    BY <2>1 DEF Restrict
  <2>3. pc' \in [Thread -> Point]
    BY <1>11 DEF Rename, Cleanup, Step, Point
  <2>4. entry' \in [Key -> Content \cup {None}]
    <3>1. CASE Cleanup(t)
      BY <3>1 DEF Cleanup
    <3>2. CASE Rename(t)
      <4>1. ScratchOf(t) \in DOMAIN scratch
        BY <3>2 DEF ScratchInv, Rename, Step
      <4> QED BY <3>2, <4>1 DEF Rename
    <3> QED BY <1>11, <3>1, <3>2
  <2> QED BY <1>11, <2>2, <2>3, <2>4 DEF Rename, Cleanup, memoryVars, processVars
<1>12. ASSUME NEW t \in Thread, SkipInsert(t) \/ Unlock(t) PROVE TypeOK'
  <2>1. call[t].artifact \in Artifact \cup {None} /\ call[t].source \in ReplySource
    BY DEF Call
  <2>2. pc' \in [Thread -> Point] /\ reply' \in [Thread -> Reply]
    <3>1. CASE Return(t, "insert", call[t].artifact, call[t].source)
      BY <3>1, <2>1, ReturnType
    <3>2. CASE Return(t, "evict", call[t].artifact, call[t].source)
      BY <3>2, <2>1, ReturnType
    <3> QED BY <1>12, <3>1, <3>2 DEF SkipInsert, Unlock
  <2> QED BY <1>12, <2>2, CacheAssumption
      DEF SkipInsert, Unlock, memoryVars, directoryVars, processVars
<1>13. ASSUME NEW t \in Thread, Insert(t) PROVE TypeOK'
  <2> DEFINE p == ProcessOf[t]
             k == call[t].key
  <2>1. p \in Process /\ k \in Key /\ Size[k] \in Nat /\ call[t].artifact \in Artifact \cup {None}
    BY CacheAssumption DEF Call
  <2>2. entries' \in [Process -> [Key -> Artifact \cup {None}]]
    <3>1. [entries EXCEPT ![p][k] = call[t].artifact] \in [Process -> [Key -> Artifact \cup {None}]]
      BY <2>1, EntryType
    <3> QED BY <1>13, <3>1 DEF Insert
  <2>3. retained' \in [Process -> Nat]
    <3>1. retained[p] + Size[k] \in Nat
      BY <2>1
    <3> QED BY <1>13, <2>1, <3>1 DEF Insert
  <2>4. order' \in [Process -> Seq(Key)]
    BY <1>13, <2>1, TouchType DEF Insert
  <2>5. call' \in [Thread -> Call]
    <3>1. entries[p][k] \in Artifact \cup {None}
      BY <2>1
    <3>2. [call EXCEPT ![t].artifact = entries[p][k]] \in [Thread -> Call]
      BY <3>1, CallTypes
    <3> QED BY <1>13, <3>2 DEF Insert
  <2>6. mutex' \in [Process -> Thread \cup {None}] /\ pc' \in [Thread -> Point]
    BY <1>13, <2>1 DEF Insert, Step, Point
  <2> QED BY <1>13, <2>2, <2>3, <2>4, <2>5, <2>6 DEF Insert, directoryVars, processVars
<1>14. ASSUME NEW t \in Thread, Evict(t) PROVE TypeOK'
  <2> DEFINE p == ProcessOf[t]
             k == Head(order[p])
  <2>1. p \in Process /\ order[p] \in Seq(Key) /\ order[p] # << >>
    BY <1>14, CacheAssumption DEF Evict
  <2>2. k \in Key /\ Tail(order[p]) \in Seq(Key)
    BY <2>1, HeadTailProperties
  <2>3. SaturatingSub(retained[p], Size[k]) \in Nat
    BY <2>1, <2>2, CacheAssumption DEF SaturatingSub
  <2>4. order' \in [Process -> Seq(Key)]
    BY <1>14, <2>1, <2>2 DEF Evict
  <2>5. entries' \in [Process -> [Key -> Artifact \cup {None}]] /\ retained' \in [Process -> Nat]
    <3>1. [entries EXCEPT ![p][k] = None] \in [Process -> [Key -> Artifact \cup {None}]]
      BY <2>1, <2>2, EntryType
    <3> QED BY <1>14, <2>1, <2>3, <3>1 DEF Evict
  <2> QED BY <1>14, <2>4, <2>5 DEF Evict, directoryVars, processVars, threadVars
<1>15. ASSUME NEW t \in Thread, IoFailure(t) PROVE TypeOK'
  <2>1. pc' \in [Thread -> Point]
    BY <1>15, PointTypes DEF IoFailure, Step
  <2>2. hazards' \in [Hazard -> Nat]
    BY <1>15, StrikeType DEF IoFailure
  <2>3. call' \in [Thread -> Call] /\ sequence' \in [Process -> Nat]
    <3>1. ProcessOf[t] \in Process
      BY CacheAssumption
    <3>2. sequence[ProcessOf[t]] \in Nat
      BY <3>1
    <3>3. [call EXCEPT ![t].sequence = sequence[ProcessOf[t]]] \in [Thread -> Call]
      BY <3>2, CallTypes
    <3>4. sequence[ProcessOf[t]] + 1 \in Nat
      BY <3>2
    <3>5. CASE UNCHANGED <<call, sequence>>
      BY <3>5
    <3>6. CASE NextSequence(t)
      BY <3>6, <3>1, <3>3, <3>4 DEF NextSequence
    <3> QED BY <1>15, <3>5, <3>6 DEF IoFailure
  <2> QED BY <1>15, <2>1, <2>2, <2>3 DEF IoFailure, memoryVars, directoryVars
<1>16. ASSUME NEW t \in Thread, UnlinkFailure(t) PROVE TypeOK'
  <2>1. pc' \in [Thread -> Point]
    BY <1>16, PointTypes DEF UnlinkFailure, Step, Point
  <2>2. hazards' \in [Hazard -> Nat]
    BY <1>16, StrikeType DEF UnlinkFailure
  <2> QED BY <1>16, <2>1, <2>2 DEF UnlinkFailure, memoryVars, directoryVars, processVars
<1>17. ASSUME NEW k \in Key, Damage(k) PROVE TypeOK'
  <2>1. Foreign(k) \subseteq Content \cup {None}
    BY CacheAssumption DEF Foreign, Stored, Whole, Content
  <2>2. entry' \in [Key -> Content \cup {None}]
    BY <1>17, <2>1 DEF Damage
  <2>3. hazards' \in [Hazard -> Nat]
    BY <1>17, StrikeType DEF Damage
  <2> QED BY <1>17, <2>2, <2>3 DEF Damage, memoryVars, processVars, threadVars
<1>18. ASSUME NEW p \in Process, Crash(p) PROVE TypeOK'
  <2>1. hazards' \in [Hazard -> Nat]
    BY <1>18, StrikeType DEF Crash
  <2>2. order' \in [Process -> Seq(Key)]
    BY <1>18, EmptySeq DEF Crash
  <2>3. pc' \in [Thread -> Point]
    BY <1>18 DEF Crash, Point
  <2> QED BY <1>18, <2>1, <2>2, <2>3 DEF Crash, directoryVars
<1>19. CASE UNCHANGED vars
  BY <1>19 DEF vars
<1> QED BY <1>1, <1>2, <1>3, <1>4, <1>5, <1>6, <1>7, <1>8, <1>9, <1>10, <1>11, <1>12,
           <1>13, <1>14, <1>15, <1>16, <1>17, <1>18, <1>19 DEF Next, Advance
-----------------------------------------------------------------------------
(* The exclusivity of temporary names is kept by every action.             *)
LEMMA ScratchInit == Init => ScratchInv
BY DEF Init, ScratchInv, IsInjective, Writing

(* Steps that neither write nor number temporary files.                    *)
LEMMA ScratchQuiet ==
    ASSUME ScratchInv, NEW t \in Thread, UNCHANGED <<scratch, pid, sequence>>,
           \A u \in Thread \ {t} : pc'[u] = pc[u] /\ call'[u] = call[u],
           pc'[t] \in Point \ Writing
    PROVE  ScratchInv'
BY DEF ScratchInv, ScratchOf, Writing

(* Steps on the thread's own temporary file.                               *)
LEMMA ScratchOwn ==
    ASSUME TypeOK, ScratchInv, NEW t \in Thread, pc[t] \in Writing,
           UNCHANGED <<pid, sequence, call>>,
           \A u \in Thread \ {t} : pc'[u] = pc[u],
           pc'[t] \in {"rename", "cleanup", "insert"},
           \A f \in DOMAIN scratch \ {ScratchOf(t)} : f \in DOMAIN scratch' /\ scratch'[f] = scratch[f],
           pc'[t] = "rename" => /\ ScratchOf(t) \in DOMAIN scratch'
                                /\ scratch'[ScratchOf(t)] = Whole(call[t].key)
    PROVE  ScratchInv'
<1>1. \A u \in Thread : (ScratchOf(u))' = ScratchOf(u)
  BY DEF ScratchOf
<1>2. \A u \in Thread : pc'[u] \in Writing => pc[u] \in Writing
  BY DEF Writing
<1>3. \A u \in Thread \ {t} : pc[u] \in Writing => ScratchOf(u) # ScratchOf(t)
  BY Apart
<1>4. \A u \in Thread : pc'[u] \in {"write", "rename"} => ScratchOf(u) \in DOMAIN scratch'
  BY <1>3 DEF ScratchInv, Writing
<1>5. \A u \in Thread : pc'[u] = "rename" => scratch'[ScratchOf(u)] = Whole(call[u].key)
  BY <1>3 DEF ScratchInv, Writing
<1> QED BY <1>1, <1>2, <1>4, <1>5 DEF ScratchInv

(* A freshly numbered temporary file.                                      *)
LEMMA ScratchFresh ==
    ASSUME TypeOK, ScratchInv, NEW t \in Thread, pc[t] = "create", NextSequence(t),
           UNCHANGED pid, \A u \in Thread \ {t} : pc'[u] = pc[u],
           pc'[t] \in {"write", "cleanup"},
           \A f \in DOMAIN scratch : f \in DOMAIN scratch' /\ scratch'[f] = scratch[f],
           pc'[t] = "write" =>
              [ScratchOf(t) EXCEPT !.sequence = sequence[ProcessOf[t]]] \in DOMAIN scratch'
    PROVE  ScratchInv'
<1> DEFINE p == ProcessOf[t]
<1>1. p \in Process /\ sequence[p] \in Nat
  BY CacheAssumption DEF TypeOK
<1>2. /\ sequence' = [sequence EXCEPT ![p] = sequence[p] + 1]
      /\ call' = [call EXCEPT ![t].sequence = sequence[p]]
  BY DEF NextSequence
<1>3. /\ \A u \in Thread \ {t} : call'[u] = call[u]
      /\ call'[t].sequence = sequence[p] /\ call'[t].key = call[t].key
  BY <1>2 DEF TypeOK, Call
<1>4. \A q \in Process : sequence'[q] = IF q = p THEN sequence[p] + 1 ELSE sequence[q]
  BY <1>1, <1>2 DEF TypeOK
<1>5. \A u \in Thread : call[u].sequence \in Nat /\ ProcessOf[u] \in Process
                        /\ sequence[ProcessOf[u]] \in Nat
  BY CacheAssumption DEF TypeOK, Call
<1>6. \A u \in Thread \ {t} : pc'[u] \in Writing => call[u].sequence < sequence[ProcessOf[u]]
  BY DEF ScratchInv
<1>7. \A u \in Thread : pc'[u] \in Writing => call'[u].sequence < sequence'[ProcessOf[u]]
  BY <1>1, <1>3, <1>4, <1>5, <1>6
<1>8. ASSUME NEW u \in Thread, NEW v \in Thread, u # v, pc'[u] \in Writing, pc'[v] \in Writing,
             ProcessOf[u] = ProcessOf[v]
      PROVE  call'[u].sequence # call'[v].sequence
  <2>1. CASE u = t
    BY <1>8, <2>1, <1>1, <1>3, <1>5, <1>6
  <2>2. CASE v = t
    BY <1>8, <2>2, <1>1, <1>3, <1>5, <1>6
  <2>3. CASE u # t /\ v # t
    BY <1>8, <2>3, <1>3 DEF ScratchInv
  <2> QED BY <2>1, <2>2, <2>3
<1>9. \A u \in Thread \ {t} : (ScratchOf(u))' = ScratchOf(u)
  BY <1>3 DEF ScratchOf
<1>10. (ScratchOf(t))' = [ScratchOf(t) EXCEPT !.sequence = sequence[p]]
  BY <1>3 DEF ScratchOf
<1>11. \A u \in Thread : pc'[u] \in {"write", "rename"} => (ScratchOf(u))' \in DOMAIN scratch'
  BY <1>9, <1>10 DEF ScratchInv
<1>12. \A u \in Thread : pc'[u] = "rename" => scratch'[(ScratchOf(u))'] = Whole(call'[u].key)
  BY <1>3, <1>9 DEF ScratchInv
<1> QED BY <1>7, <1>8, <1>11, <1>12 DEF ScratchInv

LEMMA ScratchNext == TypeOK /\ ScratchInv /\ [Next]_vars => ScratchInv'
<1> SUFFICES ASSUME TypeOK, ScratchInv, [Next]_vars PROVE ScratchInv'
  OBVIOUS
<1> DEFINE Others(t) == \A u \in Thread \ {t} : pc'[u] = pc[u] /\ call'[u] = call[u]
<1>1. ASSUME NEW t \in Thread, NEW r \in Request, Ask(t, r) PROVE ScratchInv'
  <2>1. Others(t) /\ pc'[t] \in Point \ Writing
    BY <1>1 DEF Ask, Step, TypeOK, Point, Writing
  <2> QED BY <1>1, <2>1, ScratchQuiet DEF Ask, directoryVars, processVars
<1>2. ASSUME NEW t \in Thread,
             \/ MemoryGet(t) \/ Metadata(t) \/ Discard(t) \/ Check(t)
             \/ SkipInsert(t) \/ Unlock(t) \/ UnlinkFailure(t)
      PROVE ScratchInv'
  <2>1. UNCHANGED <<scratch, pid, sequence, call>>
    BY <1>2 DEF MemoryGet, Metadata, Discard, Check, SkipInsert, Unlock, UnlinkFailure,
                directoryVars, processVars
  <2>2. Others(t) /\ pc'[t] \in Point \ Writing
    BY <1>2, <2>1, PointTypes DEF MemoryGet, Metadata, Discard, Check, SkipInsert, Unlock,
       UnlinkFailure, Return, Step, TypeOK, AfterMiss, Point, Writing
  <2> QED BY <2>1, <2>2, ScratchQuiet
<1>3. ASSUME NEW t \in Thread, Read(t) \/ ResolveEntryPoint(t) \/ Compile(t) \/ Insert(t)
      PROVE ScratchInv'
  <2>1. UNCHANGED <<scratch, pid, sequence>>
    BY <1>3 DEF Read, ResolveEntryPoint, Compile, Insert, directoryVars, processVars
  <2>2. pc'[t] \in Point \ Writing /\ \A u \in Thread \ {t} : pc'[u] = pc[u]
    BY <1>3 DEF Read, ResolveEntryPoint, Compile, Insert, Return, Step, TypeOK, AfterMiss,
                Point, Writing
  <2>3. \A u \in Thread \ {t} : call'[u] = call[u]
    BY <1>3 DEF Read, ResolveEntryPoint, Compile, Insert, TypeOK
  <2> QED BY <2>1, <2>2, <2>3, ScratchQuiet
<1>4. ASSUME NEW t \in Thread, Create(t) PROVE ScratchInv'
  <2>1. /\ pc[t] = "create" /\ NextSequence(t) /\ UNCHANGED pid
        /\ \A u \in Thread \ {t} : pc'[u] = pc[u]
        /\ pc'[t] \in {"write", "cleanup"}
    BY <1>4 DEF Create, Step, TypeOK
  <2>2. \A f \in DOMAIN scratch : f \in DOMAIN scratch' /\ scratch'[f] = scratch[f]
    BY <1>4 DEF Create
  <2>3. pc'[t] = "write" =>
          [ScratchOf(t) EXCEPT !.sequence = sequence[ProcessOf[t]]] \in DOMAIN scratch'
    BY <1>4, <2>1 DEF Create, Step, TypeOK
  <2> QED BY <2>1, <2>2, <2>3, ScratchFresh
<1>5. ASSUME NEW t \in Thread, Write(t) \/ Rename(t) \/ Cleanup(t) PROVE ScratchInv'
  <2>1. /\ pc[t] \in Writing /\ UNCHANGED <<pid, sequence, call>>
        /\ \A u \in Thread \ {t} : pc'[u] = pc[u]
        /\ pc'[t] \in {"rename", "cleanup", "insert"}
    BY <1>5 DEF Write, Rename, Cleanup, Step, TypeOK, Writing, processVars
  <2>2. \A f \in DOMAIN scratch \ {ScratchOf(t)} : f \in DOMAIN scratch' /\ scratch'[f] = scratch[f]
    BY <1>5 DEF Write, Rename, Cleanup, Restrict
  <2>3. pc'[t] = "rename" => /\ ScratchOf(t) \in DOMAIN scratch'
                             /\ scratch'[ScratchOf(t)] = Whole(call[t].key)
    <3>1. CASE Write(t)
      <4>1. ScratchOf(t) \in DOMAIN scratch
        BY <3>1 DEF Write, Step, ScratchInv
      <4> QED BY <3>1, <4>1 DEF Write
    <3>2. CASE Rename(t) \/ Cleanup(t)
      BY <3>2 DEF Rename, Cleanup, Step, TypeOK
    <3> QED BY <1>5, <3>1, <3>2
  <2> QED BY <2>1, <2>2, <2>3, ScratchOwn
<1>6. ASSUME NEW t \in Thread, Evict(t) PROVE ScratchInv'
  BY <1>6 DEF Evict, directoryVars, processVars, threadVars, ScratchInv, ScratchOf
<1>7. ASSUME NEW t \in Thread, IoFailure(t) PROVE ScratchInv'
  <2>1. /\ UNCHANGED <<scratch, pid>> /\ \A u \in Thread \ {t} : pc'[u] = pc[u]
        /\ pc'[t] = OnError(t)
    BY <1>7 DEF IoFailure, Step, TypeOK, directoryVars
  <2>2. CASE pc[t] = "create"
    <3>1. NextSequence(t) /\ pc'[t] = "cleanup"
      BY <1>7, <2>1, <2>2 DEF IoFailure, OnError
    <3> QED BY <2>1, <2>2, <3>1, ScratchFresh
  <2>3. CASE pc[t] \in {"write", "rename"}
    <3>1. UNCHANGED <<call, sequence>> /\ pc'[t] = "cleanup"
      BY <1>7, <2>1, <2>3 DEF IoFailure, OnError
    <3> QED BY <2>1, <2>3, <3>1, ScratchOwn DEF Writing
  <2>4. CASE pc[t] \in {"metadata", "read", "check"}
    <3>1. UNCHANGED <<call, sequence>> /\ pc'[t] \in Point \ Writing
      BY <1>7, <2>1, <2>4 DEF IoFailure, OnError, AfterMiss, Point, Writing
    <3> QED BY <2>1, <3>1, ScratchQuiet
  <2> QED BY <1>7, <2>2, <2>3, <2>4 DEF IoFailure, Step
<1>8. ASSUME NEW k \in Key, Damage(k) PROVE ScratchInv'
  BY <1>8 DEF Damage, processVars, threadVars, ScratchInv, ScratchOf
<1>9. ASSUME NEW p \in Process, Crash(p) PROVE ScratchInv'
  <2>1. /\ UNCHANGED <<scratch, call>>
        /\ \A t \in Thread : pc'[t] = IF ProcessOf[t] = p THEN "idle" ELSE pc[t]
        /\ \A q \in Process \ {p} : pid'[q] = pid[q] /\ sequence'[q] = sequence[q]
    BY <1>9 DEF Crash, directoryVars, TypeOK
  <2>2. \A q \in Process \ {p} : pid'[p] # pid[q]
    BY <1>9 DEF Crash, TypeOK
  <2>3. \A q, s \in Process : pid'[q] = pid'[s] => q = s
    BY <2>1, <2>2 DEF ScratchInv
  <2>4. \A t \in Thread : pc'[t] \in Writing =>
           ProcessOf[t] \in Process \ {p} /\ pc'[t] = pc[t] /\ (ScratchOf(t))' = ScratchOf(t)
    BY <2>1, CacheAssumption DEF Writing, ScratchOf
  <2> QED BY <2>1, <2>3, <2>4 DEF ScratchInv, Writing
<1>10. CASE UNCHANGED vars
  BY <1>10 DEF vars, ScratchInv, ScratchOf
<1> QED BY <1>1, <1>2, <1>3, <1>4, <1>5, <1>6, <1>7, <1>8, <1>9, <1>10 DEF Next, Advance

(* Type correctness of every behaviour.                                    *)
THEOREM TypeCorrect == Spec => []TypeOK
<1>1. Init => TypeOK /\ ScratchInv
  BY TypeInit, ScratchInit
<1>2. TypeOK /\ ScratchInv /\ [Next]_vars => (TypeOK /\ ScratchInv)'
  BY TypeNext, ScratchNext
<1> QED BY <1>1, <1>2, PTL DEF Spec

(* No two threads ever write under one temporary name, and what is renamed *)
(* is complete (persistent_insert), for any number of processes and        *)
(* threads and any reuse of process identifiers after a crash.             *)
THEOREM ScratchIsExclusive == Spec => []ScratchExclusive
<1>1. Init => TypeOK /\ ScratchInv
  BY TypeInit, ScratchInit
<1>2. TypeOK /\ ScratchInv /\ [Next]_vars => (TypeOK /\ ScratchInv)'
  BY TypeNext, ScratchNext
<1>3. ScratchInv => ScratchExclusive
  BY Apart DEF ScratchExclusive, ScratchInv, Writing
<1> QED BY <1>1, <1>2, <1>3, PTL DEF Spec

-----------------------------------------------------------------------------
(* A request that has been looked up under its final key carries the       *)
(* artifact of that key from the moment it is read or compiled.            *)
Compiled == {"check", "create", "write", "rename", "cleanup", "insert", "evict"}

(* Files of the form "whole" are what a compilation gave: Foreign files    *)
(* come from other caches.                                                 *)
FilesOK ==
    /\ \A k \in Key : entry[k] # None /\ entry[k].form = "whole" => entry[k].key \in Compilable
    /\ \A f \in DOMAIN scratch : scratch[f].form = "whole" => scratch[f].key \in Compilable

(* The key a request is at: the one asked for, or what it resolves to.     *)
KeyOK(t) ==
    LET c == call[t] IN
    IF c.resolving /\ c.resolved THEN c.key = Resolve(c.asked) ELSE c.key = c.asked

(* Nothing is compiled under a name that may be an alias.                  *)
ResolvedOK(t) ==
    /\ pc[t] = "compile" => ~call[t].resolving \/ call[t].resolved
    /\ pc[t] = "resolve" => call[t].resolving

ArtifactOf(k, a) == k \in Compilable /\ a # None /\ a.key = k

AnswerInv ==
    /\ FilesOK
    /\ OnlyCanonicalRetained
    /\ \A t \in Thread : KeyOK(t) /\ ResolvedOK(t)
    /\ \A t \in Thread : pc[t] \in Compiled => ArtifactOf(call[t].key, call[t].artifact)
    /\ \A t \in Thread : pc[t] # "idle" => reply[t].outcome = None

-----------------------------------------------------------------------------
(* A key that compiles resolves to itself.                                 *)
LEMMA CompilableResolves ==
    ASSUME NEW k \in Compilable
    PROVE  k \in Key /\ Resolve(k) = k
BY CacheAssumption DEF Resolve

LEMMA ForeignFiles ==
    ASSUME NEW k \in Key, NEW file \in Foreign(k) \cup Stored \cup {None}, file # None, file.form = "whole"
    PROVE  file.key \in Compilable
<1>1. file \in Stored \/ file \in [form : {"prefix", "corrupt", "huge"}, key : {k}]
  BY DEF Foreign
<1>2. file \in Stored
  BY <1>1
<1> QED BY <1>2 DEF Stored, Whole

LEMMA AnswerInit == Init => AnswerInv
<1> SUFFICES ASSUME Init PROVE AnswerInv
  OBVIOUS
<1> DEFINE r == CHOOSE r \in Request : TRUE
<1>1. \A t \in Thread : call[t].resolved = FALSE /\ call[t].key = call[t].asked
  <2>1. call = [t \in Thread |->
                    [resolving |-> r.resolving, asked |-> r.key, key |-> r.key,
                     resolved |-> FALSE, artifact |-> None, source |-> "error",
                     sequence |-> 0, request |-> 0]]
    BY DEF Init
  <2> HIDE DEF r
  <2> QED BY <2>1
<1>2. FilesOK
  <2>1. \A k \in Key : entry[k] # None /\ entry[k].form = "whole" => entry[k].key \in Compilable
    <3>1. \A k \in Key : entry[k] \in Foreign(k) \cup Stored \cup {None}
      BY DEF Init
    <3> QED BY <3>1, ForeignFiles
  <2> QED BY <2>1, EmptySeq DEF Init, FilesOK
<1>3. OnlyCanonicalRetained
  BY DEF Init, OnlyCanonicalRetained, Retained
<1> QED BY <1>1, <1>2, <1>3 DEF Init, AnswerInv, KeyOK, ResolvedOK, Compiled

(* What a step of thread t has to show of t alone, when it leaves memory   *)
(* and files alone.                                                        *)
LEMMA AnswerOwn ==
    ASSUME AnswerInv, NEW t \in Thread, UNCHANGED entries, FilesOK',
           \A u \in Thread \ {t} : pc'[u] = pc[u] /\ call'[u] = call[u] /\ reply'[u] = reply[u],
           KeyOK(t)', ResolvedOK(t)',
           pc'[t] \in Compiled => ArtifactOf(call'[t].key, call'[t].artifact),
           pc'[t] # "idle" => reply'[t].outcome = None
    PROVE  AnswerInv'
BY DEF AnswerInv, KeyOK, ResolvedOK, OnlyCanonicalRetained, Retained

LEMMA AnswerNext == TypeOK /\ ScratchInv /\ AnswerInv /\ [Next]_vars => AnswerInv'
<1> SUFFICES ASSUME TypeOK, ScratchInv, AnswerInv, [Next]_vars PROVE AnswerInv'
  OBVIOUS
<1> DEFINE Others(t) == \A u \in Thread \ {t} : pc'[u] = pc[u] /\ call'[u] = call[u] /\ reply'[u] = reply[u]
<1>1. ASSUME NEW t \in Thread, NEW r \in Request, Ask(t, r) PROVE AnswerInv'
  <2>1. UNCHANGED <<entries, entry, scratch>> /\ Others(t)
    BY <1>1 DEF Ask, Step, TypeOK, memoryVars, directoryVars
  <2>2. /\ pc'[t] = "memory" /\ reply'[t].outcome = None
        /\ call'[t].resolved = FALSE /\ call'[t].key = call'[t].asked
    BY <1>1 DEF Ask, Step, TypeOK
  <2>3. FilesOK'
    BY <2>1 DEF AnswerInv, FilesOK
  <2> QED BY <2>1, <2>2, <2>3, AnswerOwn DEF KeyOK, ResolvedOK, Compiled
<1>2. ASSUME NEW t \in Thread, \/ MemoryGet(t) \/ Metadata(t) \/ Check(t) \/ SkipInsert(t)
                               \/ Unlock(t) \/ UnlinkFailure(t) \/ Discard(t)
      PROVE  AnswerInv'
  <2>1. UNCHANGED <<entries, scratch, call>> /\ Others(t)
    BY <1>2 DEF MemoryGet, Metadata, Check, SkipInsert, Unlock, UnlinkFailure, Discard, Return, Step,
                TypeOK, memoryVars, directoryVars
  <2>2. FilesOK'
    <3>1. UNCHANGED entry \/ entry' = [entry EXCEPT ![call[t].key] = None]
      BY <1>2 DEF MemoryGet, Metadata, Check, SkipInsert, Unlock, UnlinkFailure, Discard, memoryVars, directoryVars
    <3> QED BY <2>1, <3>1 DEF AnswerInv, FilesOK, TypeOK
  <2>3. /\ pc[t] # "idle"
        /\ pc'[t] # "idle" => UNCHANGED reply
        /\ pc'[t] \in Compiled => pc[t] \in Compiled
        /\ pc'[t] \in {"compile", "resolve"} => pc'[t] = AfterMiss(t)
    BY <1>2 DEF MemoryGet, Metadata, Check, SkipInsert, Unlock, UnlinkFailure, Discard, Return, Step,
                TypeOK, AfterMiss, Compiled
  <2>4. KeyOK(t)' /\ ResolvedOK(t)'
    BY <2>1, <2>3 DEF AnswerInv, KeyOK, ResolvedOK, AfterMiss
  <2> QED BY <2>1, <2>2, <2>3, <2>4, AnswerOwn DEF AnswerInv
<1>3. ASSUME NEW t \in Thread, Read(t) PROVE AnswerInv'
  <2> DEFINE k == call[t].key
             a == Allocate(t, Decoded(entry[k]))
  <2>1. UNCHANGED <<entries, entry, scratch, reply>> /\ Others(t)
    BY <1>3 DEF Read, Step, TypeOK, memoryVars, directoryVars
  <2>2. FilesOK'
    BY <2>1 DEF AnswerInv, FilesOK
  <2>3. pc[t] = "read" /\ pc'[t] \in {AfterMiss(t), "insert", "remove"}
    BY <1>3 DEF Read, Step, TypeOK
  <2>4. CASE UNCHANGED call /\ pc'[t] \in {AfterMiss(t), "remove"}
    <3>1. KeyOK(t)' /\ ResolvedOK(t)'
      BY <2>4 DEF AnswerInv, KeyOK, ResolvedOK, AfterMiss
    <3> QED BY <2>1, <2>2, <2>3, <2>4, <3>1, AnswerOwn DEF AnswerInv, AfterMiss, Compiled
  <2>5. CASE /\ entry[k] # None /\ Decodes(entry[k], k) /\ pc'[t] = "insert"
             /\ call' = [call EXCEPT ![t].artifact = a, ![t].source = "persistent"]
    <3>1. k \in Key
      BY DEF TypeOK, Call
    <3>2. entry[k].form = "whole" /\ entry[k].key = k /\ k \in Compilable
      BY <2>5, <3>1 DEF Decodes, AnswerInv, FilesOK
    <3>3. a \in Artifact /\ a.key = k
      BY <3>1, <3>2 DEF Allocate, Decoded, Artifact, TypeOK, Call
    <3> HIDE DEF a
    <3>4. call'[t] = [call[t] EXCEPT !.artifact = a, !.source = "persistent"]
      BY <2>5 DEF TypeOK
    <3>5. call[t] \in Call
      BY DEF TypeOK
    <3>6. /\ call'[t].artifact = a /\ call'[t].key = k /\ call'[t].asked = call[t].asked
          /\ call'[t].resolving = call[t].resolving /\ call'[t].resolved = call[t].resolved
      BY <3>4, <3>5 DEF Call
    <3>7. KeyOK(t)' /\ ResolvedOK(t)' /\ ArtifactOf(k, a)
      BY <2>5, <3>2, <3>3, <3>6, OptionAssumption DEF AnswerInv, KeyOK, ResolvedOK, ArtifactOf
    <3> QED BY <2>1, <2>2, <2>3, <3>6, <3>7, AnswerOwn DEF AnswerInv
  <2> QED BY <1>3, <2>3, <2>4, <2>5 DEF Read, Step, TypeOK
<1>4. ASSUME NEW t \in Thread, ResolveEntryPoint(t) PROVE AnswerInv'
  <2> DEFINE k == Resolve(call[t].asked)
  <2>1. UNCHANGED <<entries, entry, scratch>> /\ Others(t) /\ pc[t] = "resolve"
    BY <1>4 DEF ResolveEntryPoint, Return, Step, TypeOK, memoryVars, directoryVars
  <2>2. FilesOK'
    BY <2>1 DEF AnswerInv, FilesOK
  <2>3. CASE pc'[t] = "idle" /\ UNCHANGED call
    BY <2>1, <2>2, <2>3, AnswerOwn DEF AnswerInv, KeyOK, ResolvedOK, Compiled
  <2>4. CASE /\ UNCHANGED reply /\ pc'[t] \in {"memory", "compile"}
             /\ call' = [call EXCEPT ![t].key = k, ![t].resolved = TRUE]
             /\ call[t].resolving
    <3>1. call'[t] = [call[t] EXCEPT !.key = k, !.resolved = TRUE] /\ call[t] \in Call
      BY <2>4 DEF TypeOK
    <3>2. /\ call'[t].key = k /\ call'[t].resolved = TRUE
          /\ call'[t].asked = call[t].asked /\ call'[t].resolving = call[t].resolving
      BY <3>1 DEF Call
    <3>3. KeyOK(t)' /\ ResolvedOK(t)'
      BY <2>4, <3>2 DEF KeyOK, ResolvedOK
    <3> QED BY <2>1, <2>2, <2>4, <3>3, AnswerOwn DEF AnswerInv, Compiled
  <2>5. pc[t] = "resolve" => call[t].resolving
    BY DEF AnswerInv, ResolvedOK
  <2> QED BY <1>4, <2>1, <2>3, <2>4, <2>5 DEF ResolveEntryPoint, Return, Step, TypeOK
<1>5. ASSUME NEW t \in Thread, Compile(t) PROVE AnswerInv'
  <2> DEFINE k == call[t].key
             a == Allocate(t, k)
  <2>1. UNCHANGED <<entries, entry, scratch>> /\ Others(t) /\ pc[t] = "compile"
    BY <1>5 DEF Compile, Return, Step, TypeOK, memoryVars, directoryVars
  <2>2. FilesOK'
    BY <2>1 DEF AnswerInv, FilesOK
  <2>3. CASE pc'[t] = "idle" /\ UNCHANGED call
    BY <2>1, <2>2, <2>3, AnswerOwn DEF AnswerInv, KeyOK, ResolvedOK, Compiled
  <2>4. CASE /\ UNCHANGED reply /\ pc'[t] \in {"check", "insert"} /\ k \in Compilable
             /\ call' = [call EXCEPT ![t].artifact = a, ![t].source = "compiled"]
    <3>1. a \in Artifact /\ a.key = k
      BY DEF Allocate, Artifact, TypeOK, Call
    <3> HIDE DEF a
    <3>2. call'[t] = [call[t] EXCEPT !.artifact = a, !.source = "compiled"] /\ call[t] \in Call
      BY <2>4 DEF TypeOK
    <3>3. /\ call'[t].artifact = a /\ call'[t].key = k /\ call'[t].asked = call[t].asked
          /\ call'[t].resolving = call[t].resolving /\ call'[t].resolved = call[t].resolved
      BY <3>2 DEF Call
    <3>4. KeyOK(t)' /\ ResolvedOK(t)' /\ ArtifactOf(k, a)
      BY <2>4, <3>1, <3>3, OptionAssumption DEF AnswerInv, KeyOK, ResolvedOK, ArtifactOf
    <3> QED BY <2>1, <2>2, <2>4, <3>3, <3>4, AnswerOwn DEF AnswerInv
  <2> QED BY <1>5, <2>3, <2>4 DEF Compile, Return, Step, TypeOK
<1>6. ASSUME NEW t \in Thread, Create(t) \/ IoFailure(t) PROVE AnswerInv'
  <2>1. /\ UNCHANGED <<entries, entry, reply>> /\ \A u \in Thread \ {t} : pc'[u] = pc[u]
        /\ UNCHANGED call \/ NextSequence(t)
    BY <1>6 DEF Create, IoFailure, Step, TypeOK, memoryVars, directoryVars
  <2>2. FilesOK'
    BY <1>6, <2>1 DEF AnswerInv, FilesOK, Create, IoFailure, directoryVars
  <2>3. \A u \in Thread : /\ call'[u].key = call[u].key /\ call'[u].artifact = call[u].artifact
                          /\ call'[u].asked = call[u].asked /\ call'[u].resolving = call[u].resolving
                          /\ call'[u].resolved = call[u].resolved
    <3>1. ASSUME NextSequence(t), NEW u \in Thread
          PROVE  call'[u] = [call[u] EXCEPT !.sequence = call'[u].sequence]
      BY <3>1 DEF NextSequence, TypeOK, Call
    <3>2. \A u \in Thread : call[u] \in Call
      BY DEF TypeOK
    <3> QED BY <2>1, <3>1, <3>2 DEF Call
  <2>4. /\ pc[t] # "idle"
        /\ pc'[t] \in Compiled => pc[t] \in Compiled
        /\ pc'[t] \in {"compile", "resolve"} => pc'[t] = AfterMiss(t)
    <3>1. CASE Create(t)
      BY <3>1 DEF Create, Step, TypeOK, Compiled
    <3>2. CASE IoFailure(t)
      <4>1. pc[t] \in {"metadata", "read", "check", "create", "write", "rename"} /\ pc'[t] = OnError(t)
        BY <3>2 DEF IoFailure, Step, TypeOK
      <4> QED BY <4>1 DEF OnError, AfterMiss, Compiled
    <3> QED BY <1>6, <3>1, <3>2
  <2>5. KeyOK(t)' /\ ResolvedOK(t)'
    BY <2>3, <2>4 DEF AnswerInv, KeyOK, ResolvedOK, AfterMiss
  <2> QED BY <2>1, <2>2, <2>3, <2>4, <2>5 DEF AnswerInv, KeyOK, ResolvedOK, OnlyCanonicalRetained, Retained
<1>7. ASSUME NEW t \in Thread, Write(t) \/ Rename(t) \/ Cleanup(t) PROVE AnswerInv'
  <2>1. UNCHANGED <<entries, call, reply>> /\ Others(t)
    BY <1>7 DEF Write, Rename, Cleanup, Step, TypeOK, memoryVars, processVars
  <2>2. pc[t] \in Compiled /\ pc'[t] \in Compiled /\ pc[t] # "idle"
        /\ pc'[t] # "compile" /\ pc'[t] # "resolve"
    BY <1>7 DEF Write, Rename, Cleanup, Step, TypeOK, Compiled
  <2>3. call[t].key \in Key /\ call[t].key \in Compilable
    BY <2>2 DEF AnswerInv, ArtifactOf, TypeOK, Call
  <2>4. FilesOK'
    <3>1. CASE Write(t)
      BY <3>1, <2>3 DEF Write, AnswerInv, FilesOK, Whole, TypeOK
    <3>2. CASE Rename(t)
      <4>1. ScratchOf(t) \in DOMAIN scratch
        BY <3>2 DEF Rename, Step, ScratchInv
      <4> QED BY <3>2, <2>3, <4>1 DEF Rename, Restrict, AnswerInv, FilesOK, TypeOK
    <3>3. CASE Cleanup(t)
      BY <3>3 DEF Cleanup, Restrict, AnswerInv, FilesOK
    <3> QED BY <1>7, <3>1, <3>2, <3>3
  <2>5. KeyOK(t)' /\ ResolvedOK(t)'
    BY <2>1, <2>2 DEF AnswerInv, KeyOK, ResolvedOK
  <2> QED BY <2>1, <2>2, <2>4, <2>5, AnswerOwn DEF AnswerInv
<1>8. ASSUME NEW t \in Thread, Insert(t) PROVE AnswerInv'
  <2> DEFINE q == ProcessOf[t]
             k == call[t].key
  <2>1. UNCHANGED <<entry, scratch, reply>> /\ Others(t) /\ pc[t] = "insert" /\ pc'[t] = "evict"
    BY <1>8 DEF Insert, Step, TypeOK, directoryVars
  <2>2. q \in Process /\ k \in Key /\ call[t] \in Call
    BY CacheAssumption DEF TypeOK, Call
  <2>3. ArtifactOf(k, call[t].artifact)
    BY <2>1 DEF AnswerInv, Compiled
  <2>4. \A p \in Process, l \in Key :
           entries'[p][l] = IF p = q /\ l = k /\ entries[q][k] = None THEN call[t].artifact ELSE entries[p][l]
    BY <1>8, <2>2 DEF Insert, TypeOK
  <2>5. OnlyCanonicalRetained'
    BY <2>3, <2>4 DEF AnswerInv, OnlyCanonicalRetained, Retained, ArtifactOf
  <2>6. /\ call'[t].key = k /\ call'[t].asked = call[t].asked
        /\ call'[t].resolving = call[t].resolving /\ call'[t].resolved = call[t].resolved
        /\ \/ call'[t].artifact = call[t].artifact
           \/ entries[q][k] # None /\ call'[t].artifact = entries[q][k]
    <3>1. CASE entries[q][k] # None /\ ~KeepsOwn(t)
      <4>1. call' = [call EXCEPT ![t].artifact = entries[q][k]]
        BY <1>8, <3>1, Zenon DEF Insert
      <4>2. call'[t] = [call[t] EXCEPT !.artifact = entries[q][k]]
        BY <4>1 DEF TypeOK
      <4> QED BY <3>1, <4>2, <2>2 DEF Call
    <3>2. CASE ~(entries[q][k] # None /\ ~KeepsOwn(t))
      <4>1. call'[t] = call[t]
        BY <1>8, <3>2, Zenon DEF Insert
      <4> QED BY <4>1
    <3> QED BY <3>1, <3>2
  <2>7. ArtifactOf(call'[t].key, call'[t].artifact)
    BY <2>2, <2>3, <2>6 DEF ArtifactOf, AnswerInv, OnlyCanonicalRetained, Retained
  <2>8. KeyOK(t)' /\ ResolvedOK(t)' /\ FilesOK'
    BY <2>1, <2>6 DEF AnswerInv, KeyOK, ResolvedOK, FilesOK
  <2> QED BY <2>1, <2>5, <2>7, <2>8 DEF AnswerInv, KeyOK, ResolvedOK
<1>9. ASSUME NEW t \in Thread, Evict(t) PROVE AnswerInv'
  <2> DEFINE q == ProcessOf[t]
             k == Head(order[q])
  <2>1. UNCHANGED <<entry, scratch, pc, call, reply>>
    BY <1>9 DEF Evict, directoryVars, threadVars
  <2>2. \A p \in Process, l \in Key : entries'[p][l] # None => entries'[p][l] = entries[p][l]
    <3>1. q \in Process /\ k \in Key
      BY <1>9, CacheAssumption, HeadTailProperties DEF Evict, TypeOK
    <3>2. UNCHANGED entries \/ entries' = [entries EXCEPT ![q][k] = None]
      BY <1>9 DEF Evict
    <3>3. CASE entries' = [entries EXCEPT ![q][k] = None]
      <4>1. \A p \in Process, l \in Key :
               entries'[p][l] = IF p = q /\ l = k THEN None ELSE entries[p][l]
        BY <3>1, <3>3 DEF TypeOK
      <4> QED BY <4>1
    <3> QED BY <3>2, <3>3
  <2>3. OnlyCanonicalRetained'
    BY <2>2 DEF AnswerInv, OnlyCanonicalRetained, Retained
  <2> QED BY <2>1, <2>3 DEF AnswerInv, FilesOK, KeyOK, ResolvedOK
<1>10. ASSUME NEW k \in Key, Damage(k) PROVE AnswerInv'
  <2>1. UNCHANGED <<entries, scratch, pc, call, reply>>
    BY <1>10 DEF Damage, memoryVars, threadVars
  <2>2. FilesOK'
    <3>1. PICK content \in Foreign(k) : entry' = [entry EXCEPT ![k] = content]
      BY <1>10 DEF Damage
    <3>2. content # None /\ content.form = "whole" => content.key \in Compilable
      BY ForeignFiles
    <3> QED BY <2>1, <3>1, <3>2 DEF AnswerInv, FilesOK, TypeOK
  <2> QED BY <2>1, <2>2 DEF AnswerInv, OnlyCanonicalRetained, Retained, KeyOK, ResolvedOK
<1>11. ASSUME NEW p \in Process, Crash(p) PROVE AnswerInv'
  <2>1. /\ UNCHANGED <<entry, scratch, call, reply>>
        /\ \A t \in Thread : pc'[t] = "idle" \/ pc'[t] = pc[t]
        /\ \A q \in Process, l \in Key : entries'[q][l] # None => entries'[q][l] = entries[q][l]
    BY <1>11 DEF Crash, directoryVars, TypeOK
  <2>2. OnlyCanonicalRetained'
    BY <2>1 DEF AnswerInv, OnlyCanonicalRetained, Retained
  <2> QED BY <2>1, <2>2 DEF AnswerInv, FilesOK, KeyOK, ResolvedOK, Compiled
<1>12. CASE UNCHANGED vars
  BY <1>12 DEF vars, AnswerInv, FilesOK, OnlyCanonicalRetained, Retained, KeyOK, ResolvedOK
<1> QED BY <1>1, <1>2, <1>3, <1>4, <1>5, <1>6, <1>7, <1>8, <1>9, <1>10, <1>11, <1>12 DEF Next, Advance
-----------------------------------------------------------------------------
(* Every step of the cache is a step of the service, or none.              *)
LEMMA AnswerIsCorrect ==
    ASSUME TypeOK, AnswerInv, NEW t \in Thread, ArtifactOf(call[t].key, call[t].artifact)
    PROVE  AnswerOf([resolving |-> call[t].resolving, key |-> call[t].asked]) = call[t].key
BY CompilableResolves DEF AnswerInv, KeyOK, ArtifactOf, AnswerOf

LEMMA ReplyMaps ==
    ASSUME TypeOK, AnswerInv, NEW t \in Thread, UNCHANGED call, pc[t] # "idle",
           NEW from, NEW outcome, NEW source, Return(t, from, outcome, source),
           \/ /\ outcome = Failure
              /\ AnswerOf([resolving |-> call[t].resolving, key |-> call[t].asked]) = Failure
           \/ /\ outcome \in Artifact
              /\ outcome.key = AnswerOf([resolving |-> call[t].resolving, key |-> call[t].asked])
    PROVE  Service!Reply(t)
<1> DEFINE shown(r) == IF r.outcome \in {None, Failure} THEN r.outcome ELSE r.outcome.key
           asked == [resolving |-> call[t].resolving, key |-> call[t].asked]
<1>1. reply[t].outcome = None /\ reply' = [reply EXCEPT ![t] = [outcome |-> outcome, source |-> source]]
  BY DEF AnswerInv, Return
<1>2. reply \in [Thread -> Reply]
  BY DEF TypeOK
<1>3. shown(reply[t]) = None
  BY <1>1
<1>4. shown(reply'[t]) = AnswerOf(asked)
  BY <1>1, <1>2, OptionAssumption
<1>5. [u \in Thread |-> shown(reply'[u])] = [[u \in Thread |-> shown(reply[u])] EXCEPT ![t] = AnswerOf(asked)]
  BY <1>1, <1>2, <1>4
<1> QED BY <1>3, <1>5 DEF Service!Reply

(* Steps that answer nobody.                                               *)
LEMMA QuietMaps ==
    ASSUME UNCHANGED reply,
           \A t \in Thread : call'[t].resolving = call[t].resolving /\ call'[t].asked = call[t].asked
    PROVE  UNCHANGED Service!serviceVars
BY DEF Service!serviceVars

LEMMA StepMaps ==
    ASSUME TypeOK, AnswerInv, [Next]_vars
    PROVE  [Service!Next]_(Service!serviceVars)
<1> DEFINE wanted == [t \in Thread |-> [resolving |-> call[t].resolving, key |-> call[t].asked]]
<1>1. ASSUME NEW t \in Thread, NEW r \in Request, Ask(t, r)
      PROVE  Service!Ask(t, r)
  <2>1. reply' = [reply EXCEPT ![t] = [outcome |-> None, source |-> "error"]]
    BY <1>1 DEF Ask
  <2>2. r = [resolving |-> r.resolving, key |-> r.key]
    BY CacheAssumption
  <2>3. /\ \A u \in Thread \ {t} : call'[u] = call[u]
        /\ call'[t].resolving = r.resolving /\ call'[t].asked = r.key
    BY <1>1 DEF Ask, TypeOK
  <2>4. wanted' = [wanted EXCEPT ![t] = r]
    BY <2>2, <2>3
  <2> QED BY <2>1, <2>4 DEF Service!Ask, TypeOK
<1>2. ASSUME NEW t \in Thread, MemoryGet(t) PROVE Service!Reply(t) \/ UNCHANGED Service!serviceVars
  <2> DEFINE a == entries[ProcessOf[t]][call[t].key]
  <2>1. CASE a # None /\ Return(t, "memory", a, "memory")
    <3>1. ProcessOf[t] \in Process /\ call[t].key \in Key
      BY CacheAssumption DEF TypeOK, Call
    <3>2. a \in Artifact /\ a.key = call[t].key /\ call[t].key \in Compilable
      BY <2>1, <3>1 DEF TypeOK, AnswerInv, OnlyCanonicalRetained, Retained
    <3>3. a.key = AnswerOf([resolving |-> call[t].resolving, key |-> call[t].asked])
      BY <3>2, CompilableResolves DEF AnswerInv, KeyOK, AnswerOf
    <3>4. pc[t] # "idle" /\ UNCHANGED call
      BY <1>2, <2>1 DEF MemoryGet, Return, Step
    <3> QED BY <2>1, <3>2, <3>3, <3>4, ReplyMaps
  <2>2. CASE UNCHANGED <<reply, call>>
    BY <2>2, QuietMaps
  <2> QED BY <1>2, <2>1, <2>2 DEF MemoryGet
<1>3. ASSUME NEW t \in Thread, ResolveEntryPoint(t) PROVE Service!Reply(t) \/ UNCHANGED Service!serviceVars
  <2> DEFINE k == Resolve(call[t].asked)
  <2>1. CASE k = Failure /\ Return(t, "resolve", Failure, "error") /\ UNCHANGED call
    <3>1. call[t].resolving /\ pc[t] # "idle"
      BY <2>1 DEF Return, Step, AnswerInv, ResolvedOK
    <3>2. AnswerOf([resolving |-> call[t].resolving, key |-> call[t].asked]) = Failure
      BY <2>1, <3>1, CacheAssumption, OptionAssumption DEF AnswerOf
    <3> QED BY <2>1, <3>1, <3>2, ReplyMaps
  <2>2. CASE UNCHANGED reply /\ call' = [call EXCEPT ![t].key = k, ![t].resolved = TRUE]
    <3>1. call'[t] = [call[t] EXCEPT !.key = k, !.resolved = TRUE] /\ call[t] \in Call
          /\ \A u \in Thread \ {t} : call'[u] = call[u]
      BY <2>2 DEF TypeOK
    <3>2. call'[t].resolving = call[t].resolving /\ call'[t].asked = call[t].asked
      BY <3>1 DEF Call
    <3> QED BY <2>2, <3>1, <3>2, QuietMaps
  <2> QED BY <1>3, <2>1, <2>2 DEF ResolveEntryPoint
<1>4. ASSUME NEW t \in Thread, Compile(t) PROVE Service!Reply(t) \/ UNCHANGED Service!serviceVars
  <2> DEFINE k == call[t].key
             a == Allocate(t, k)
  <2>1. CASE k \notin Compilable /\ Return(t, "compile", Failure, "error") /\ UNCHANGED call
    <3>1. pc[t] = "compile"
      BY <2>1 DEF Return, Step
    <3>2. AnswerOf([resolving |-> call[t].resolving, key |-> call[t].asked]) = Failure
      BY <2>1, <3>1 DEF AnswerOf, AnswerInv, KeyOK, ResolvedOK
    <3> QED BY <2>1, <3>1, <3>2, ReplyMaps
  <2>2. CASE UNCHANGED reply /\ call' = [call EXCEPT ![t].artifact = a, ![t].source = "compiled"]
    <3> HIDE DEF a
    <3>1. call'[t] = [call[t] EXCEPT !.artifact = a, !.source = "compiled"] /\ call[t] \in Call
          /\ \A u \in Thread \ {t} : call'[u] = call[u]
      BY <2>2 DEF TypeOK
    <3>2. call'[t].resolving = call[t].resolving /\ call'[t].asked = call[t].asked
      BY <3>1 DEF Call
    <3> QED BY <2>2, <3>1, <3>2, QuietMaps
  <2> QED BY <1>4, <2>1, <2>2 DEF Compile
<1>5. ASSUME NEW t \in Thread, SkipInsert(t) \/ Unlock(t) PROVE Service!Reply(t)
  <2>1. PICK from : Return(t, from, call[t].artifact, call[t].source) /\ from \in {"insert", "evict"}
    BY <1>5 DEF SkipInsert, Unlock
  <2>2. pc[t] \in Compiled /\ pc[t] # "idle" /\ UNCHANGED call
    BY <1>5, <2>1 DEF Return, Step, Compiled, SkipInsert, Unlock
  <2>3. ArtifactOf(call[t].key, call[t].artifact)
    BY <2>2 DEF AnswerInv
  <2>4. call[t].artifact \in Artifact
        /\ call[t].artifact.key = AnswerOf([resolving |-> call[t].resolving, key |-> call[t].asked])
    BY <2>3, AnswerIsCorrect DEF ArtifactOf, TypeOK, Call
  <2> QED BY <2>1, <2>2, <2>4, ReplyMaps
<1>6. ASSUME NEW t \in Thread, Read(t) PROVE UNCHANGED Service!serviceVars
  <2> DEFINE a == Allocate(t, Decoded(entry[call[t].key]))
  <2>1. UNCHANGED reply
    BY <1>6 DEF Read
  <2>2. CASE UNCHANGED call
    BY <2>1, <2>2, QuietMaps
  <2>3. CASE call' = [call EXCEPT ![t].artifact = a, ![t].source = "persistent"]
    <3> HIDE DEF a
    <3>1. call'[t] = [call[t] EXCEPT !.artifact = a, !.source = "persistent"] /\ call[t] \in Call
          /\ \A u \in Thread \ {t} : call'[u] = call[u]
      BY <2>3 DEF TypeOK
    <3>2. call'[t].resolving = call[t].resolving /\ call'[t].asked = call[t].asked
      BY <3>1 DEF Call
    <3> QED BY <2>1, <3>1, <3>2, QuietMaps
  <2> QED BY <1>6, <2>2, <2>3 DEF Read
<1>7. ASSUME NEW t \in Thread, Insert(t) PROVE UNCHANGED Service!serviceVars
  <2> DEFINE a == entries[ProcessOf[t]][call[t].key]
  <2>1. UNCHANGED reply
    BY <1>7 DEF Insert
  <2>2. CASE UNCHANGED call
    BY <2>1, <2>2, QuietMaps
  <2>3. CASE call' = [call EXCEPT ![t].artifact = a]
    <3> HIDE DEF a
    <3>1. call'[t] = [call[t] EXCEPT !.artifact = a] /\ call[t] \in Call
          /\ \A u \in Thread \ {t} : call'[u] = call[u]
      BY <2>3 DEF TypeOK
    <3>2. call'[t].resolving = call[t].resolving /\ call'[t].asked = call[t].asked
      BY <3>1 DEF Call
    <3> QED BY <2>1, <3>1, <3>2, QuietMaps
  <2> QED BY <1>7, <2>2, <2>3, Zenon DEF Insert
<1>8. ASSUME NEW t \in Thread, Create(t) \/ IoFailure(t) PROVE UNCHANGED Service!serviceVars
  <2>1. UNCHANGED reply /\ (UNCHANGED call \/ NextSequence(t))
    BY <1>8 DEF Create, IoFailure
  <2>2. CASE UNCHANGED call
    BY <2>1, <2>2, QuietMaps
  <2>3. CASE NextSequence(t)
    <3> DEFINE n == sequence[ProcessOf[t]]
    <3>1. call'[t] = [call[t] EXCEPT !.sequence = n] /\ call[t] \in Call
          /\ \A u \in Thread \ {t} : call'[u] = call[u]
      BY <2>3 DEF NextSequence, TypeOK
    <3>2. call'[t].resolving = call[t].resolving /\ call'[t].asked = call[t].asked
      BY <3>1 DEF Call
    <3> QED BY <2>1, <3>1, <3>2, QuietMaps
  <2> QED BY <2>1, <2>2, <2>3
<1>9. ASSUME \/ \E t \in Thread : \/ Metadata(t) \/ Discard(t) \/ Check(t) \/ Write(t) \/ Rename(t)
                                  \/ Cleanup(t) \/ Evict(t) \/ UnlinkFailure(t)
             \/ \E k \in Key : Damage(k)
             \/ \E p \in Process : Crash(p)
             \/ UNCHANGED vars
      PROVE  UNCHANGED Service!serviceVars
  <2>1. UNCHANGED <<reply, call>>
    BY <1>9 DEF Metadata, Discard, Check, Write, Rename, Cleanup, Evict, UnlinkFailure, Damage, Crash,
                threadVars, vars
  <2> QED BY <2>1, QuietMaps
<1> QED BY <1>1, <1>2, <1>3, <1>4, <1>5, <1>6, <1>7, <1>8, <1>9 DEF Next, Advance, Service!Next

LEMMA InitMaps == Init => Service!Init
<1> SUFFICES ASSUME Init PROVE Service!Init
  OBVIOUS
<1> DEFINE r == CHOOSE r \in Request : TRUE
           first == [resolving |-> r.resolving, asked |-> r.key, key |-> r.key,
                     resolved |-> FALSE, artifact |-> None, source |-> "error",
                     sequence |-> 0, request |-> 0]
<1>1. r \in Request /\ r = [resolving |-> r.resolving, key |-> r.key]
  BY CacheAssumption
<1>2. call = [t \in Thread |-> first]
  BY DEF Init
<1> HIDE DEF r
<1>3. \A t \in Thread : [resolving |-> call[t].resolving, key |-> call[t].asked] \in Request
  BY <1>1, <1>2
<1>4. \A t \in Thread : reply[t].outcome = None
  BY DEF Init
<1> QED BY <1>3, <1>4 DEF Service!Init

-----------------------------------------------------------------------------
(* Memory holds only artifacts under the key they were compiled for, never *)
(* under an alias: memory_insert and both lookups, whatever the persistent *)
(* directory contained and whatever becomes of it.                         *)
THEOREM CanonicalIsRetained == Spec => []OnlyCanonicalRetained
<1>1. Init => TypeOK /\ ScratchInv /\ AnswerInv
  BY TypeInit, ScratchInit, AnswerInit
<1>2. TypeOK /\ ScratchInv /\ AnswerInv /\ [Next]_vars => (TypeOK /\ ScratchInv /\ AnswerInv)'
  BY TypeNext, ScratchNext, AnswerNext
<1>3. AnswerInv => OnlyCanonicalRetained
  BY DEF AnswerInv
<1> QED BY <1>1, <1>2, <1>3, PTL DEF Spec

(* The cache implements the service without a cache: every answer of       *)
(* compile_wgsl_with_telemetry and of its resolving variant is what        *)
(* compiling the request gives, or its error, from whichever tier it comes *)
(* and whatever fails, is damaged or dies meanwhile.                       *)
THEOREM CacheImplementsService == Spec => ServiceSpec
<1>1. Init => TypeOK /\ ScratchInv /\ AnswerInv /\ Service!Init
  BY TypeInit, ScratchInit, AnswerInit, InitMaps
<1>2. TypeOK /\ ScratchInv /\ AnswerInv /\ [Next]_vars => (TypeOK /\ ScratchInv /\ AnswerInv)'
  BY TypeNext, ScratchNext, AnswerNext
<1>3. TypeOK /\ AnswerInv /\ [Next]_vars => [Service!Next]_(Service!serviceVars)
  BY StepMaps
<1> QED BY <1>1, <1>2, <1>3, PTL DEF Spec, ServiceSpec, Service!Spec

-----------------------------------------------------------------------------
(* The queue of least recently used keys.                                  *)

Newest(s) == s[Len(s)]

LEMMA WithoutKey ==
    ASSUME NEW s \in Seq(Key), IsInjective(s), NEW k \in Key
    PROVE  /\ Without(s, k) \in Seq(Key)
           /\ IsInjective(Without(s, k))
           /\ Range(Without(s, k)) = Range(s) \ {k}
<1>1. CASE k \notin Range(s)
  BY <1>1 DEF Without
<1>2. CASE k \in Range(s)
  <2> DEFINE i == CHOOSE i \in DOMAIN s : s[i] = k
             n == Len(s)
             left == SubSeq(s, 1, i - 1)
             right == SubSeq(s, i + 1, n)
             rest == left \o right
  <2>1. i \in DOMAIN s /\ s[i] = k
    BY <1>2 DEF Range
  <2>2. n \in Nat /\ DOMAIN s = 1 .. n /\ i \in 1 .. n /\ \A j \in 1 .. n : s[j] \in Key
    BY <2>1, LenProperties, ElementOfSeq
  <2>3. Without(s, k) = rest
    BY <1>2 DEF Without, RemoveAt
  <2> HIDE DEF i
  <2>4. left \in Seq(Key) /\ Len(left) = i - 1 /\ \A j \in 1 .. i - 1 : left[j] = s[j]
    BY <2>2, SubSeqProperties
  <2>5. right \in Seq(Key) /\ Len(right) = n - i /\ \A j \in 1 .. n - i : right[j] = s[i + j]
    <3>1. i \in Int /\ i + 1 \in Int /\ n \in Int /\ i <= n /\ \A j \in i + 1 .. n : s[j] \in Key
      BY <2>2
    <3>2. /\ right \in Seq(Key) /\ Len(right) = IF i + 1 <= n THEN n - (i + 1) + 1 ELSE 0
          /\ \A j \in 1 .. n - (i + 1) + 1 : right[j] = s[i + 1 + j - 1]
      BY <3>1, SubSeqProperties
    <3>3. n - (i + 1) + 1 = n - i /\ \A j \in 1 .. n - i : i + 1 + j - 1 = i + j
      BY <3>1
    <3> HIDE DEF right
    <3>4. Len(right) = n - i
      BY <3>1, <3>2
    <3> QED BY <3>2, <3>3, <3>4
  <2> HIDE DEF left, right
  <2>6. /\ rest \in Seq(Key) /\ Len(rest) = n - 1
        /\ \A j \in 1 .. n - 1 : rest[j] = IF j <= i - 1 THEN left[j] ELSE right[j - (i - 1)]
    <3>1. /\ rest \in Seq(Key) /\ Len(rest) = Len(left) + Len(right)
          /\ \A j \in 1 .. Len(left) + Len(right) :
                rest[j] = IF j <= Len(left) THEN left[j] ELSE right[j - Len(left)]
      BY <2>4, <2>5, ConcatProperties
    <3>2. Len(left) + Len(right) = n - 1
      BY <2>2, <2>4, <2>5
    <3> HIDE DEF rest
    <3> QED BY <2>4, <3>1, <3>2
  <2>7. DOMAIN rest = 1 .. n - 1 /\ \A j \in 1 .. n - 1 : rest[j] = s[IF j < i THEN j ELSE j + 1]
    <3>1. DOMAIN rest = 1 .. n - 1
      BY <2>6, LenProperties
    <3>2. \A j \in 1 .. n - 1 : j < i => rest[j] = s[j]
      BY <2>2, <2>4, <2>6
    <3>3. ASSUME NEW j \in 1 .. n - 1, ~(j < i) PROVE rest[j] = s[j + 1]
      <4>1. j - (i - 1) \in 1 .. n - i /\ i + (j - (i - 1)) = j + 1
        BY <2>2, <3>3
      <4>2. rest[j] = right[j - (i - 1)]
        BY <2>2, <2>6, <3>3
      <4> QED BY <2>5, <4>1, <4>2
    <3> QED BY <3>1, <3>2, <3>3
  <2> HIDE DEF rest, n
  <2>8. IsInjective(rest)
    <3> SUFFICES ASSUME NEW j \in 1 .. n - 1, NEW l \in 1 .. n - 1, rest[j] = rest[l] PROVE j = l
      BY <2>7 DEF IsInjective
    <3> DEFINE at(m) == IF m < i THEN m ELSE m + 1
    <3>1. at(j) \in 1 .. n /\ at(l) \in 1 .. n
      BY <2>2
    <3>2. s[at(j)] = s[at(l)]
      BY <2>7
    <3>3. at(j) = at(l)
      BY <2>2, <3>1, <3>2 DEF IsInjective
    <3> QED BY <2>2, <3>3
  <2>9. Range(rest) = Range(s) \ {k}
    <3>1. ASSUME NEW j \in 1 .. n - 1 PROVE rest[j] \in Range(s) \ {k}
      <4> DEFINE l == IF j < i THEN j ELSE j + 1
      <4>1. l \in 1 .. n /\ l # i /\ rest[j] = s[l]
        BY <2>2, <2>7
      <4> HIDE DEF l
      <4> QED BY <2>1, <2>2, <4>1 DEF IsInjective, Range
    <3>2. ASSUME NEW l \in 1 .. n, s[l] # k PROVE s[l] \in Range(rest)
      <4> DEFINE j == IF l < i THEN l ELSE l - 1
      <4>1. l # i
        BY <2>1, <3>2
      <4>2. j \in 1 .. n - 1 /\ rest[j] = s[l]
        BY <2>2, <2>7, <4>1
      <4> HIDE DEF j
      <4> QED BY <2>7, <4>2 DEF Range
    <3>3. Range(rest) \subseteq Range(s) \ {k}
      BY <2>7, <3>1 DEF Range
    <3>4. Range(s) \ {k} \subseteq Range(rest)
      BY <2>2, <3>2 DEF Range
    <3> QED BY <3>3, <3>4
  <2> QED BY <2>3, <2>6, <2>8, <2>9
<1> QED BY <1>1, <1>2

(* touch puts a key at the end of the queue and loses none.                *)
LEMMA TouchedKey ==
    ASSUME NEW s \in Seq(Key), IsInjective(s), NEW k \in Key
    PROVE  /\ Touch(s, k) \in Seq(Key) /\ Touch(s, k) # << >>
           /\ IsInjective(Touch(s, k))
           /\ Range(Touch(s, k)) = Range(s) \cup {k}
           /\ Newest(Touch(s, k)) = k
<1> DEFINE rest == Without(s, k)
           n == Len(rest)
           u == Append(rest, k)
<1>1. rest \in Seq(Key) /\ IsInjective(rest) /\ Range(rest) = Range(s) \ {k}
  BY WithoutKey
<1>2. Touch(s, k) = u
  BY DEF Touch
<1> HIDE DEF rest
<1>3. n \in Nat /\ DOMAIN rest = 1 .. n
  BY <1>1, LenProperties
<1>4. /\ u \in Seq(Key) /\ u # << >> /\ Len(u) = n + 1
      /\ \A i \in 1 .. n : u[i] = rest[i]
      /\ u[n + 1] = k
  BY <1>1, AppendProperties
<1> HIDE DEF u
<1>5. DOMAIN u = 1 .. n + 1
  BY <1>3, <1>4, LenProperties
<1> HIDE DEF n
<1>6. \A i \in 1 .. n : u[i] \in Range(s) \ {k}
  BY <1>1, <1>3, <1>4 DEF Range
<1>7. IsInjective(u)
  BY <1>1, <1>3, <1>4, <1>5, <1>6 DEF IsInjective
<1>8. Range(u) = Range(s) \cup {k}
  <2>1. Range(u) \subseteq Range(s) \cup {k}
    BY <1>3, <1>4, <1>5, <1>6 DEF Range
  <2>2. k \in Range(u)
    BY <1>3, <1>4, <1>5 DEF Range
  <2>3. Range(rest) \subseteq Range(u)
    BY <1>3, <1>4, <1>5 DEF Range
  <2> QED BY <1>1, <2>1, <2>2, <2>3
<1> QED BY <1>2, <1>4, <1>7, <1>8 DEF Newest

(* Removing the least recently used key.                                   *)
LEMMA TailKeys ==
    ASSUME NEW s \in Seq(Key), IsInjective(s), s # << >>
    PROVE  /\ Tail(s) \in Seq(Key) /\ IsInjective(Tail(s))
           /\ Head(s) \in Range(s) /\ Range(Tail(s)) = Range(s) \ {Head(s)}
           /\ Newest(s) \in Range(s)
           /\ Head(s) # Newest(s) => Tail(s) # << >> /\ Newest(Tail(s)) = Newest(s)
           /\ Head(s) = Newest(s) => Range(s) = {Newest(s)}
<1> DEFINE n == Len(s)
           u == Tail(s)
<1>1. n \in Nat \ {0} /\ DOMAIN s = 1 .. n /\ Head(s) = s[1]
  BY EmptySeq, LenProperties DEF Head
<1>2. u \in Seq(Key) /\ Len(u) = n - 1 /\ \A i \in 1 .. n - 1 : u[i] = s[i + 1]
  BY HeadTailProperties
<1> HIDE DEF u
<1>3. DOMAIN u = 1 .. n - 1
  BY <1>2, LenProperties
<1>4. u = << >> => n = 1
  <2>1. u = << >> => Len(u) = 0
    BY EmptySeq
  <2>2. Len(u) = n - 1 /\ n \in Nat
    BY <1>1, <1>2
  <2> HIDE DEF n
  <2> QED BY <2>1, <2>2
<1>5. \A i, j \in 1 .. n : s[i] = s[j] => i = j
  BY <1>1 DEF IsInjective
<1>9. Newest(s) = s[n] /\ Newest(u) = u[n - 1]
  BY <1>2 DEF Newest
<1> HIDE DEF n
<1>6. IsInjective(u)
  BY <1>1, <1>2, <1>3, <1>5 DEF IsInjective
<1>7. Range(u) = Range(s) \ {Head(s)}
  <2>1. Range(u) \subseteq Range(s) \ {Head(s)}
    <3>1. ASSUME NEW i \in 1 .. n - 1 PROVE s[i + 1] \in Range(s) /\ s[i + 1] # s[1]
      <4>1. i + 1 \in 1 .. n /\ 1 \in 1 .. n /\ i + 1 # 1
        BY <1>1
      <4> QED BY <1>1, <1>5, <4>1 DEF Range
    <3> QED BY <1>1, <1>2, <1>3, <3>1 DEF Range
  <2>2. ASSUME NEW i \in 1 .. n, i # 1 PROVE s[i] \in Range(u)
    <3>1. i - 1 \in 1 .. n - 1 /\ u[i - 1] = s[i]
      BY <1>1, <1>2, <2>2
    <3> QED BY <1>3, <3>1 DEF Range
  <2>3. Range(s) \ {Head(s)} \subseteq Range(u)
    BY <1>1, <2>2 DEF Range
  <2> QED BY <2>1, <2>3
<1>8. Head(s) \in Range(s) /\ Newest(s) \in Range(s)
  BY <1>1, <1>9 DEF Range
<1>10. Head(s) # Newest(s) => u # << >> /\ Newest(u) = Newest(s)
  <2> SUFFICES ASSUME Head(s) # Newest(s) PROVE u # << >> /\ Newest(u) = Newest(s)
    OBVIOUS
  <2>1. n # 1
    BY <1>1, <1>9
  <2> QED BY <2>1, <1>1, <1>2, <1>4, <1>9
<1>11. Head(s) = Newest(s) => Range(s) = {Newest(s)}
  <2> SUFFICES ASSUME Head(s) = Newest(s) PROVE Range(s) = {Newest(s)}
    OBVIOUS
  <2>1. n = 1
    BY <1>1, <1>5, <1>9
  <2> QED BY <2>1, <1>1, <1>9 DEF Range
<1> QED BY <1>2, <1>6, <1>7, <1>8, <1>10, <1>11 DEF u

-----------------------------------------------------------------------------
(* Why the limits hold and eviction stops in time: a thread inside         *)
(* memory_insert holds the mutex, so nobody else touches the queue, whose  *)
(* last key is the one it has inserted.  By the time that key is the only  *)
(* one left the cache is within both limits, since an artifact larger than *)
(* the byte limit is never inserted.                                       *)
Accounted(p) ==
    /\ IsInjective(order[p]) /\ Range(order[p]) = Retained(p)
    /\ retained[p] = SumFunctionOnSet(Size, Retained(p))

Inserted(t) ==
    LET p == ProcessOf[t]
        k == call[t].key
    IN  /\ mutex[p] = t /\ Cacheable(k)
        /\ order[p] # << >> /\ Newest(order[p]) = k
        /\ ~KeepsOwn(t) => entries[p][k] = call[t].artifact

MemoryInv ==
    /\ \A p \in Process : Accounted(p)
    /\ WithinLimits
    /\ \A t \in Thread : pc[t] = "evict" => Inserted(t)

LEMMA RetainedIsFinite ==
    ASSUME TypeOK, NEW p \in Process, Accounted(p)
    PROVE  /\ IsFiniteSet(Retained(p)) /\ Cardinality(Retained(p)) \in Nat
           /\ Retained(p) \subseteq Key /\ \A k \in Retained(p) : Size[k] \in Nat
<1> DEFINE s == order[p]
           n == Len(s)
<1>1. s \in Seq(Key) /\ Range(s) = Retained(p)
  BY DEF TypeOK, Accounted
<1>2. n \in Nat /\ DOMAIN s = 1 .. n /\ s \in [1 .. n -> Key]
  BY <1>1, LenProperties
<1>3. IsFiniteSet(1 .. n)
  BY <1>2, FS_Interval
<1>4. s \in Surjection(1 .. n, Range(s))
  BY <1>2 DEF Surjection, Range
<1>5. IsFiniteSet(Range(s))
  BY <1>3, <1>4, FS_Surjection
<1>6. Retained(p) \subseteq Key
  BY DEF Retained
<1> QED BY <1>1, <1>5, <1>6, FS_CardinalityType, CacheAssumption

LEMMA MemoryInit == Init => MemoryInv
<1> SUFFICES ASSUME Init PROVE MemoryInv
  OBVIOUS
<1>1. ASSUME NEW p \in Process PROVE Accounted(p) /\ Retained(p) = {} /\ retained[p] = 0
  <2>1. Retained(p) = {} /\ order[p] = << >> /\ retained[p] = 0
    BY DEF Init, Retained
  <2>2. IsInjective(<< >>) /\ Range(<< >>) = {}
    BY DEF IsInjective, Range
  <2> QED BY <2>1, <2>2, SumOfNone DEF Accounted
<1>2. WithinLimits
  <2>1. Cardinality({}) <= MaxEntries /\ 0 <= MaxBytes
    BY FS_EmptySet, CacheAssumption
  <2>2. \A p \in Process : Cardinality(Retained(p)) <= MaxEntries /\ retained[p] <= MaxBytes
    BY <1>1, <2>1
  <2> QED BY <2>2 DEF WithinLimits
<1>3. \A t \in Thread : pc[t] # "evict"
  BY DEF Init
<1> QED BY <1>1, <1>2, <1>3 DEF MemoryInv

(* Steps outside the critical sections.                                    *)
LEMMA MemoryQuiet ==
    ASSUME MemoryInv, UNCHANGED memoryVars,
           \A t \in Thread : pc'[t] = "evict" => pc[t] = "evict" /\ call'[t] = call[t]
    PROVE  MemoryInv'
BY DEF MemoryInv, memoryVars, Accounted, WithinLimits, Retained, Inserted, KeepsOwn

(* Critical sections of one process do not show in the others.             *)
LEMMA MemoryOwn ==
    ASSUME TypeOK, MemoryInv, NEW p \in Process,
           \A q \in Process \ {p} : /\ entries'[q] = entries[q] /\ order'[q] = order[q]
                                    /\ retained'[q] = retained[q] /\ mutex'[q] = mutex[q],
           Accounted(p)',
           mutex'[p] = None => Cardinality(Retained(p)') <= MaxEntries /\ retained'[p] <= MaxBytes,
           \A t \in Thread : pc'[t] = "evict" =>
                IF ProcessOf[t] = p THEN Inserted(t)' ELSE pc[t] = "evict" /\ call'[t] = call[t]
    PROVE  MemoryInv'
<1>1. \A q \in Process \ {p} : Accounted(q)' /\ Retained(q)' = Retained(q)
  BY DEF MemoryInv, Accounted, Retained
<1>2. WithinLimits'
  BY <1>1 DEF MemoryInv, WithinLimits
<1>3. ASSUME NEW t \in Thread, pc'[t] = "evict" PROVE Inserted(t)'
  BY <1>3, CacheAssumption DEF MemoryInv, Inserted, KeepsOwn
<1> QED BY <1>1, <1>2, <1>3 DEF MemoryInv

LEMMA MemoryGetKeeps ==
    ASSUME TypeOK, MemoryInv, NEW t \in Thread, MemoryGet(t)
    PROVE  MemoryInv'
<1> DEFINE p == ProcessOf[t]
           k == call[t].key
<1>1. p \in Process /\ k \in Key /\ mutex[p] = None /\ UNCHANGED <<entries, retained, mutex, call>>
  BY CacheAssumption DEF MemoryGet, TypeOK, Call
<1>2. \A u \in Thread : pc'[u] = "evict" => pc[u] = "evict"
  BY DEF MemoryGet, Return, Step, AfterMiss, TypeOK
<1>3. \A u \in Thread : pc'[u] = "evict" => ProcessOf[u] # p
  BY <1>1, <1>2, OptionAssumption DEF MemoryInv, Inserted
<1>4. CASE UNCHANGED order
  BY <1>1, <1>2, <1>4, MemoryQuiet DEF memoryVars
<1>5. CASE entries[p][k] # None /\ order' = [order EXCEPT ![p] = Touch(order[p], k)]
  <2>1. Retained(p)' = Retained(p) /\ k \in Retained(p)
    BY <1>1, <1>5 DEF Retained
  <2>2. order[p] \in Seq(Key) /\ IsInjective(order[p]) /\ Range(order[p]) = Retained(p)
    BY <1>1 DEF MemoryInv, Accounted, TypeOK
  <2>3. order'[p] = Touch(order[p], k) /\ \A q \in Process \ {p} : order'[q] = order[q]
    BY <1>1, <1>5 DEF TypeOK
  <2>4. IsInjective(order'[p]) /\ Range(order'[p]) = Retained(p)
    <3>1. /\ IsInjective(Touch(order[p], k))
          /\ Range(Touch(order[p], k)) = Range(order[p]) \cup {k}
      BY <1>1, <2>2, TouchedKey
    <3> QED BY <2>1, <2>2, <2>3, <3>1
  <2>5. Accounted(p)'
    BY <1>1, <2>1, <2>4 DEF MemoryInv, Accounted
  <2>6. mutex'[p] = None => Cardinality(Retained(p)') <= MaxEntries /\ retained'[p] <= MaxBytes
    BY <1>1, <2>1 DEF MemoryInv, WithinLimits
  <2> QED BY <1>1, <1>2, <1>3, <2>3, <2>5, <2>6, MemoryOwn
<1> QED BY <1>4, <1>5 DEF MemoryGet

LEMMA InsertKeeps ==
    ASSUME TypeOK, AnswerInv, MemoryInv, NEW t \in Thread, Insert(t)
    PROVE  MemoryInv'
<1> DEFINE p == ProcessOf[t]
           k == call[t].key
<1>1. /\ p \in Process /\ k \in Key /\ mutex[p] = None /\ Cacheable(k)
      /\ mutex' = [mutex EXCEPT ![p] = t]
      /\ order' = [order EXCEPT ![p] = Touch(order[p], k)]
  BY CacheAssumption DEF Insert, TypeOK, Call
<1>2. pc[t] = "insert" /\ pc'[t] = "evict" /\ \A u \in Thread \ {t} : pc'[u] = pc[u]
  BY DEF Insert, Step, TypeOK
<1>3. call'[t].key = k /\ \A u \in Thread \ {t} : call'[u] = call[u]
  BY DEF Insert, TypeOK, Call
<1>4. \A u \in Thread \ {t} : pc'[u] = "evict" => ProcessOf[u] # p
  BY <1>1, <1>2, OptionAssumption DEF MemoryInv, Inserted
<1>5. order[p] \in Seq(Key) /\ IsInjective(order[p]) /\ Range(order[p]) = Retained(p)
  BY <1>1 DEF MemoryInv, Accounted, TypeOK
<1>6. /\ order'[p] = Touch(order[p], k) /\ mutex'[p] = t
      /\ \A q \in Process \ {p} : order'[q] = order[q] /\ mutex'[q] = mutex[q]
  BY <1>1 DEF TypeOK
<1>7. /\ IsInjective(order'[p]) /\ Range(order'[p]) = Retained(p) \cup {k}
      /\ order'[p] # << >> /\ Newest(order'[p]) = k
  <2> DEFINE s == Touch(order[p], k)
  <2>1. IsInjective(s) /\ Range(s) = Range(order[p]) \cup {k} /\ s # << >> /\ Newest(s) = k
    BY <1>1, <1>5, TouchedKey
  <2> HIDE DEF s
  <2>2. order'[p] = s
    BY <1>6 DEF s
  <2> QED BY <1>5, <2>1, <2>2
<1>8. call[t].artifact # None
  BY <1>2 DEF AnswerInv, Compiled, ArtifactOf
<1>9. /\ Retained(p)' = Retained(p) \cup {k}
      /\ retained'[p] = SumFunctionOnSet(Size, Retained(p) \cup {k})
      /\ ~KeepsOwn(t)' => entries'[p][k] = call'[t].artifact
      /\ \A q \in Process \ {p} : entries'[q] = entries[q] /\ retained'[q] = retained[q]
  <2>1. CASE entries[p][k] # None
    <3>1. UNCHANGED <<entries, retained>> /\ k \in Retained(p)
      BY <1>1, <2>1 DEF Insert, Retained
    <3>2. Retained(p)' = Retained(p) /\ Retained(p) = Retained(p) \cup {k}
      BY <3>1 DEF Retained
    <3>3. ~KeepsOwn(t)' => ~KeepsOwn(t)
      BY DEF Insert, KeepsOwn, TypeOK, Call
    <3>4. ~KeepsOwn(t) => call'[t].artifact = entries[p][k]
      BY <2>1 DEF Insert, TypeOK, Call
    <3> QED BY <1>1, <3>1, <3>2, <3>3, <3>4 DEF MemoryInv, Accounted
  <2>2. CASE entries[p][k] = None
    <3>1. /\ entries' = [entries EXCEPT ![p][k] = call[t].artifact]
          /\ retained' = [retained EXCEPT ![p] = @ + Size[k]] /\ UNCHANGED call
      BY <2>2 DEF Insert
    <3>2. /\ \A l \in Key : entries'[p][l] = IF l = k THEN call[t].artifact ELSE entries[p][l]
          /\ \A q \in Process \ {p} : entries'[q] = entries[q]
      BY <1>1, <3>1 DEF TypeOK
    <3>3. Retained(p)' = Retained(p) \cup {k} /\ k \notin Retained(p)
      BY <1>1, <1>8, <2>2, <3>2 DEF Retained
    <3>4. retained'[p] = retained[p] + Size[k] /\ \A q \in Process \ {p} : retained'[q] = retained[q]
      BY <1>1, <3>1 DEF TypeOK
    <3>5. IsFiniteSet(Retained(p)) /\ \A l \in Retained(p) \cup {k} : Size[l] \in Nat
      BY <1>1, RetainedIsFinite, CacheAssumption DEF MemoryInv
    <3>6. retained'[p] = SumFunctionOnSet(Size, Retained(p) \cup {k})
      BY <1>1, <3>3, <3>4, <3>5, SumWithOneMore DEF MemoryInv, Accounted
    <3> QED BY <1>1, <3>1, <3>2, <3>3, <3>4, <3>6
  <2> QED BY <2>1, <2>2
<1>10. Accounted(p)'
  BY <1>7, <1>9 DEF Accounted
<1>11. Inserted(t)'
  BY <1>1, <1>3, <1>6, <1>7, <1>9 DEF Inserted, Cacheable
<1>12. t # None
  BY OptionAssumption
<1> QED BY <1>1, <1>2, <1>3, <1>4, <1>6, <1>9, <1>10, <1>11, <1>12, MemoryOwn

(* A cache that holds one artifact it would accept is within its limits.   *)
LEMMA OneFits ==
    ASSUME TypeOK, NEW p \in Process, NEW k \in Key, Cacheable(k),
           retained[p] = SumFunctionOnSet(Size, Retained(p)), Retained(p) = {k}
    PROVE  ~OverLimit(p)
<1>1. Size[k] \in Nat /\ MaxEntries \in Nat \ {0} /\ MaxBytes \in Nat /\ Size[k] <= MaxBytes
  BY CacheAssumption DEF Cacheable
<1>2. Cardinality({k}) = 1
  BY FS_Singleton
<1>3. SumFunctionOnSet(Size, {} \cup {k}) = SumFunctionOnSet(Size, {}) + Size[k]
  BY <1>1, FS_EmptySet, SumWithOneMore
<1>4. SumFunctionOnSet(Size, {k}) = Size[k]
  BY <1>1, <1>3, SumOfNone
<1> QED BY <1>1, <1>2, <1>4 DEF OverLimit

LEMMA EvictKeeps ==
    ASSUME TypeOK, MemoryInv, NEW t \in Thread, Evict(t)
    PROVE  MemoryInv'
<1> DEFINE p == ProcessOf[t]
           k == Head(order[p])
           kept == call[t].key
           R == Retained(p)
<1>1. /\ p \in Process /\ kept \in Key /\ pc[t] = "evict" /\ OverLimit(p) /\ order[p] # << >>
      /\ UNCHANGED <<mutex, pc, call>> /\ order' = [order EXCEPT ![p] = Tail(@)]
  BY CacheAssumption DEF Evict, TypeOK, Call, threadVars
<1>2. /\ mutex[p] = t /\ Cacheable(kept) /\ Newest(order[p]) = kept
      /\ ~KeepsOwn(t) => entries[p][kept] = call[t].artifact
  BY <1>1 DEF MemoryInv, Inserted
<1>3. Accounted(p) /\ order[p] \in Seq(Key) /\ IsInjective(order[p]) /\ Range(order[p]) = R
  BY <1>1 DEF MemoryInv, Accounted, TypeOK
<1>4. /\ IsInjective(Tail(order[p])) /\ k \in R /\ Range(Tail(order[p])) = R \ {k}
      /\ k # kept => Tail(order[p]) # << >> /\ Newest(Tail(order[p])) = kept
      /\ k = kept => R = {kept}
  BY <1>1, <1>2, <1>3, TailKeys
<1>5. k # kept
  BY <1>1, <1>2, <1>3, <1>4, OneFits DEF Accounted
<1>6. order'[p] = Tail(order[p]) /\ \A q \in Process \ {p} : order'[q] = order[q]
  BY <1>1 DEF TypeOK
<1>7. k \in Key /\ entries[p][k] # None
  BY <1>4 DEF Retained
<1>8. /\ entries' = [entries EXCEPT ![p][k] = None]
      /\ retained' = [retained EXCEPT ![p] = SaturatingSub(@, Size[k])]
  BY <1>7 DEF Evict
<1>9. /\ \A l \in Key : entries'[p][l] = IF l = k THEN None ELSE entries[p][l]
      /\ \A q \in Process \ {p} : entries'[q] = entries[q]
  BY <1>1, <1>7, <1>8 DEF TypeOK
<1>10. Retained(p)' = R \ {k}
  BY <1>1, <1>9 DEF Retained
<1>11. /\ retained'[p] = SumFunctionOnSet(Size, R \ {k})
       /\ \A q \in Process \ {p} : retained'[q] = retained[q]
  <2>1. IsFiniteSet(R) /\ \A l \in R : Size[l] \in Nat
    BY <1>1, <1>3, RetainedIsFinite
  <2>2. retained[p] = Size[k] + SumFunctionOnSet(Size, R \ {k})
    <3>1. \A l \in R : SumFunctionOnSet(Size, R) = Size[l] + SumFunctionOnSet(Size, R \ {l})
      BY <2>1, SumOfNaturals
    <3> HIDE DEF k
    <3> QED BY <1>3, <1>4, <3>1 DEF Accounted
  <2>3. SumFunctionOnSet(Size, R \ {k}) \in Nat
    BY <2>1, SumOfNaturals, FS_RemoveElement
  <2>4. SaturatingSub(retained[p], Size[k]) = SumFunctionOnSet(Size, R \ {k})
    BY <1>4, <2>1, <2>2, <2>3 DEF SaturatingSub
  <2>5. /\ retained'[p] = SaturatingSub(retained[p], Size[k])
        /\ \A q \in Process \ {p} : retained'[q] = retained[q]
    BY <1>1, <1>8 DEF TypeOK
  <2> QED BY <2>4, <2>5
<1>12. Accounted(p)'
  BY <1>4, <1>6, <1>10, <1>11 DEF Accounted
<1>13. Inserted(t)'
  BY <1>1, <1>2, <1>4, <1>5, <1>6, <1>9 DEF Inserted, KeepsOwn, Cacheable
<1>14. \A u \in Thread : pc'[u] = "evict" /\ ProcessOf[u] = p => u = t
  BY <1>1, <1>2 DEF MemoryInv, Inserted
<1>15. mutex'[p] # None
  BY <1>1, <1>2, OptionAssumption
<1> QED BY <1>1, <1>6, <1>9, <1>11, <1>12, <1>13, <1>14, <1>15, MemoryOwn

LEMMA UnlockKeeps ==
    ASSUME TypeOK, MemoryInv, NEW t \in Thread, Unlock(t)
    PROVE  MemoryInv'
<1> DEFINE p == ProcessOf[t]
<1>1. /\ p \in Process /\ pc[t] = "evict" /\ UNCHANGED <<entries, order, retained, call>>
      /\ mutex' = [mutex EXCEPT ![p] = None] /\ \A u \in Thread : pc'[u] = IF u = t THEN "idle" ELSE pc[u]
  BY CacheAssumption DEF Unlock, Return, Step, TypeOK
<1>2. mutex[p] = t /\ order[p] # << >>
  BY <1>1 DEF MemoryInv, Inserted
<1>3. ~OverLimit(p)
  BY <1>2 DEF Unlock
<1>4. Retained(p)' = Retained(p)
  BY <1>1 DEF Retained
<1>5. Cardinality(Retained(p)) \in Nat /\ retained[p] \in Nat /\ MaxEntries \in Nat /\ MaxBytes \in Nat
  BY <1>1, RetainedIsFinite, CacheAssumption DEF MemoryInv, TypeOK
<1>6. Cardinality(Retained(p)') <= MaxEntries /\ retained'[p] <= MaxBytes
  BY <1>1, <1>3, <1>4, <1>5 DEF OverLimit
<1>7. Accounted(p)'
  BY <1>1, <1>4 DEF MemoryInv, Accounted
<1>8. \A u \in Thread : pc'[u] = "evict" => pc[u] = "evict" /\ ProcessOf[u] # p
  BY <1>1, <1>2 DEF MemoryInv, Inserted
<1>9. \A q \in Process \ {p} : mutex'[q] = mutex[q]
  BY <1>1 DEF TypeOK
<1> QED BY <1>1, <1>6, <1>7, <1>8, <1>9, MemoryOwn

LEMMA CrashKeeps ==
    ASSUME TypeOK, MemoryInv, NEW p \in Process, Crash(p)
    PROVE  MemoryInv'
<1>1. /\ entries'[p] = [k \in Key |-> None] /\ order'[p] = << >> /\ retained'[p] = 0
      /\ UNCHANGED call
      /\ \A t \in Thread : pc'[t] = IF ProcessOf[t] = p THEN "idle" ELSE pc[t]
      /\ \A q \in Process \ {p} : /\ entries'[q] = entries[q] /\ order'[q] = order[q]
                                   /\ retained'[q] = retained[q] /\ mutex'[q] = mutex[q]
  BY DEF Crash, TypeOK
<1>2. Retained(p)' = {}
  BY <1>1 DEF Retained
<1>3. IsInjective(<< >>) /\ Range(<< >>) = {}
  BY DEF IsInjective, Range
<1>4. Accounted(p)'
  BY <1>1, <1>2, <1>3, SumOfNone DEF Accounted
<1>5. Cardinality(Retained(p)') <= MaxEntries /\ retained'[p] <= MaxBytes
  BY <1>1, <1>2, FS_EmptySet, CacheAssumption
<1>6. \A t \in Thread : pc'[t] = "evict" => pc[t] = "evict" /\ ProcessOf[t] # p
  BY <1>1
<1> QED BY <1>1, <1>4, <1>5, <1>6, MemoryOwn

LEMMA MemoryNext == TypeOK /\ AnswerInv /\ MemoryInv /\ [Next]_vars => MemoryInv'
<1> SUFFICES ASSUME TypeOK, AnswerInv, MemoryInv, [Next]_vars PROVE MemoryInv'
  OBVIOUS
<1> DEFINE Quiet == /\ UNCHANGED memoryVars
                    /\ \A u \in Thread : pc'[u] = "evict" => pc[u] = "evict" /\ call'[u] = call[u]
<1>1. ASSUME NEW t \in Thread, NEW r \in Request, Ask(t, r) PROVE Quiet
  BY <1>1 DEF Ask, Step, TypeOK
<1>2. ASSUME NEW t \in Thread, \/ Metadata(t) \/ Read(t) \/ Discard(t) \/ ResolveEntryPoint(t)
                               \/ Compile(t) \/ Check(t)
      PROVE  Quiet
  BY <1>2 DEF Metadata, Read, Discard, ResolveEntryPoint, Compile, Check, Return, Step, AfterMiss, TypeOK
<1>3. ASSUME NEW t \in Thread, \/ Create(t) \/ Write(t) \/ Rename(t) \/ Cleanup(t) \/ SkipInsert(t)
                               \/ UnlinkFailure(t)
      PROVE  Quiet
  BY <1>3 DEF Create, NextSequence, Write, Rename, Cleanup, SkipInsert, UnlinkFailure, Return, Step, AfterMiss,
              TypeOK
<1>4. ASSUME NEW t \in Thread, IoFailure(t) PROVE Quiet
  BY <1>4 DEF IoFailure, NextSequence, OnError, AfterMiss, Step, TypeOK
<1>5. ASSUME NEW k \in Key, Damage(k) PROVE Quiet
  BY <1>5 DEF Damage, threadVars
<1>6. ASSUME UNCHANGED vars PROVE Quiet
  BY <1>6 DEF vars, memoryVars
<1>7. Quiet => MemoryInv'
  BY MemoryQuiet
<1> HIDE DEF Quiet
<1> QED BY <1>1, <1>2, <1>3, <1>4, <1>5, <1>6, <1>7, MemoryGetKeeps, InsertKeeps, EvictKeeps, UnlockKeeps,
           CrashKeeps DEF Next, Advance

LEMMA MemoryHolds == Spec => [](TypeOK /\ MemoryInv)
<1> DEFINE Inv == TypeOK /\ ScratchInv /\ AnswerInv /\ MemoryInv
<1>1. Init => Inv
  BY TypeInit, ScratchInit, AnswerInit, MemoryInit
<1>2. Inv /\ [Next]_vars => Inv'
  BY TypeNext, ScratchNext, AnswerNext, MemoryNext
<1> QED BY <1>1, <1>2, PTL DEF Spec

-----------------------------------------------------------------------------
(* The least-recently-used queue names the retained keys, each once, and   *)
(* the byte counter is the sum of their sizes (memory_get, memory_insert,  *)
(* touch): neither drifts, however hits, insertions, evictions and crashes *)
(* of sharing threads interleave.                                          *)
THEOREM MemoryIsConsistent == Spec => []MemoryConsistent
<1>1. \A p \in Process : Accounted(p) =>
        /\ IsInjective(order[p]) /\ Range(order[p]) = Retained(p)
        /\ retained[p] = MapThenSumSet(LAMBDA k : Size[k], Retained(p))
  BY DEF Accounted, MapThenSumSet, SumFunctionOnSet, FoldFunctionOnSet
<1>2. MemoryInv => MemoryConsistent
  BY <1>1 DEF MemoryInv, MemoryConsistent
<1> QED BY <1>2, MemoryHolds, PTL

(* Between two critical sections a cache is within both of its limits: the *)
(* eviction loop of memory_insert never gives up over them.                *)
THEOREM LimitsAreKept == Spec => []WithinLimits
<1>1. MemoryInv => WithinLimits
  BY DEF MemoryInv
<1> QED BY <1>1, MemoryHolds, PTL

(* The entry memory_insert makes room for is never evicted by it, and the  *)
(* allocation handed out is the one that the cache retains.                *)
THEOREM InsertedStays == Spec => []InsertedIsRetained
<1>1. TypeOK /\ MemoryInv => InsertedIsRetained
  <2> SUFFICES ASSUME TypeOK, MemoryInv, NEW t \in Thread, pc[t] = "evict"
               PROVE  /\ entries[ProcessOf[t]][call[t].key] # None
                      /\ ~KeepsOwn(t) => entries[ProcessOf[t]][call[t].key] = call[t].artifact
    BY DEF InsertedIsRetained
  <2>1. ProcessOf[t] \in Process /\ Inserted(t)
    BY CacheAssumption DEF MemoryInv
  <2>2. call[t].key \in Range(order[ProcessOf[t]])
    BY <2>1, TailKeys DEF MemoryInv, Accounted, Inserted, TypeOK
  <2> QED BY <2>1, <2>2 DEF MemoryInv, Accounted, Inserted, Retained
<1> QED BY <1>1, MemoryHolds, PTL

-----------------------------------------------------------------------------
OwnDirectory == Environment \cap {"found", "damage"} = {}

(* Nobody has found a file to remove.                                      *)
DirectoryInv == NoTornEntry /\ \A t \in Thread : pc[t] # "remove"

(* A final file is what it was, or has just been renamed into place.       *)
Placed == entry' = entry \/ \E k \in Key : entry' = [entry EXCEPT ![k] = Whole(k)]

LEMMA DirectoryStep ==
    ASSUME OwnDirectory, TypeOK, ScratchInv, DirectoryInv, [Next]_vars
    PROVE  Placed /\ \A t \in Thread : pc'[t] # "remove"
<1> DEFINE Stays == entry' = entry
           NoRemoval == \A t \in Thread : pc'[t] # "remove"
<1>1. ASSUME NEW t \in Thread, NEW r \in Request, Ask(t, r) PROVE Stays /\ NoRemoval
  BY <1>1 DEF Ask, Step, TypeOK, DirectoryInv, directoryVars
<1>2. ASSUME NEW t \in Thread, \/ MemoryGet(t) \/ ResolveEntryPoint(t) \/ Compile(t) \/ Check(t) \/ Create(t)
                               \/ Write(t) \/ Cleanup(t) \/ SkipInsert(t) \/ Insert(t) \/ Unlock(t)
      PROVE  Stays /\ NoRemoval
  <2>1. Stays
    BY <1>2 DEF MemoryGet, ResolveEntryPoint, Compile, Check, Create, Write, Cleanup, SkipInsert, Insert,
                Unlock, directoryVars
  <2>2. NoRemoval
    BY <1>2 DEF MemoryGet, ResolveEntryPoint, Compile, Check, Create, Write, Cleanup, SkipInsert, Insert,
                Unlock, Return, Step, AfterMiss, TypeOK, DirectoryInv
  <2> QED BY <2>1, <2>2
<1>3. ASSUME NEW t \in Thread, Metadata(t) \/ Read(t) PROVE Stays /\ NoRemoval
  <2>1. call[t].key \in Key
    BY DEF TypeOK, Call
  <2>2. entry[call[t].key] \in {None, Whole(call[t].key)}
    BY <2>1 DEF DirectoryInv, NoTornEntry
  <2>3. entry[call[t].key] # None => /\ entry[call[t].key].form = "whole"
                                     /\ Decodes(entry[call[t].key], call[t].key)
    BY <2>2 DEF Whole, Decodes
  <2> QED BY <1>3, <2>3 DEF Metadata, Read, Step, AfterMiss, TypeOK, DirectoryInv, directoryVars
<1>4. ASSUME NEW t \in Thread, Discard(t) \/ UnlinkFailure(t) PROVE Stays /\ NoRemoval
  BY <1>4 DEF Discard, UnlinkFailure, Step, TypeOK, DirectoryInv, directoryVars
<1>5. ASSUME NEW t \in Thread, Rename(t) PROVE Placed /\ NoRemoval
  <2>1. call[t].key \in Key /\ scratch[ScratchOf(t)] = Whole(call[t].key)
    BY <1>5 DEF Rename, Step, ScratchInv, TypeOK, Call
  <2> QED BY <1>5, <2>1 DEF Rename, Step, TypeOK, DirectoryInv, Placed
<1>6. ASSUME NEW t \in Thread, Evict(t) PROVE Stays /\ NoRemoval
  BY <1>6 DEF Evict, DirectoryInv, directoryVars, threadVars
<1>7. ASSUME NEW t \in Thread, IoFailure(t) PROVE Stays /\ NoRemoval
  BY <1>7 DEF IoFailure, OnError, AfterMiss, Step, TypeOK, DirectoryInv, directoryVars
<1>8. ASSUME NEW k \in Key, Damage(k) PROVE Stays /\ NoRemoval
  BY <1>8 DEF Damage, Strike, OwnDirectory
<1>9. ASSUME NEW p \in Process, Crash(p) PROVE Stays /\ NoRemoval
  BY <1>9 DEF Crash, DirectoryInv, directoryVars
<1>10. CASE UNCHANGED vars
  BY <1>10 DEF vars, DirectoryInv, Placed
<1> QED BY <1>1, <1>2, <1>3, <1>4, <1>5, <1>6, <1>7, <1>8, <1>9, <1>10 DEF Next, Advance, Placed

LEMMA DirectoryInitial ==
    ASSUME OwnDirectory, Init
    PROVE  DirectoryInv
BY DEF Init, OwnDirectory, DirectoryInv, NoTornEntry

LEMMA DirectoryNext ==
    ASSUME OwnDirectory, TypeOK, ScratchInv, DirectoryInv, [Next]_vars
    PROVE  DirectoryInv'
BY DirectoryStep DEF DirectoryInv, NoTornEntry, Placed, TypeOK

-----------------------------------------------------------------------------
(* "Atomic rename still prevents readers from observing a partially        *)
(* written final entry": a final file is complete and filed under its own  *)
(* key, through failing calls and crashes at any point of                  *)
(* persistent_insert.                                                      *)
THEOREM NoEntryIsTorn ==
    ASSUME OwnDirectory
    PROVE  Spec => []NoTornEntry
<1>1. Init => TypeOK /\ ScratchInv /\ DirectoryInv
  BY TypeInit, ScratchInit, DirectoryInitial
<1>2. TypeOK /\ ScratchInv /\ DirectoryInv /\ [Next]_vars => (TypeOK /\ ScratchInv /\ DirectoryInv)'
  BY TypeNext, ScratchNext, DirectoryNext
<1>3. DirectoryInv => NoTornEntry
  BY DEF DirectoryInv
<1> QED BY <1>1, <1>2, <1>3, PTL DEF Spec

(* Nor does any request ever remove or spoil a final file: persistent_get  *)
(* deletes only what does not decode, and a rename puts the same artifact  *)
(* in the place of what is there.                                          *)
THEOREM EntriesStay ==
    ASSUME OwnDirectory
    PROVE  Spec => EntryStays
<1>1. Init => TypeOK /\ ScratchInv /\ DirectoryInv
  BY TypeInit, ScratchInit, DirectoryInitial
<1>2. TypeOK /\ ScratchInv /\ DirectoryInv /\ [Next]_vars => (TypeOK /\ ScratchInv /\ DirectoryInv)'
  BY TypeNext, ScratchNext, DirectoryNext
<1>3. TypeOK /\ ScratchInv /\ DirectoryInv /\ [Next]_vars
         => [\A k \in Key : entry[k] = Whole(k) => entry'[k] = Whole(k)]_vars
  BY DirectoryStep DEF Placed, TypeOK
<1> QED BY <1>1, <1>2, <1>3, PTL DEF Spec, EntryStays

-----------------------------------------------------------------------------
(* How a key that was compiled gets its file back, as long as nothing has  *)
(* gone wrong since the start: no request is past its miss while a file    *)
(* that does not decode is in place (it has removed it, or found none), so *)
(* whoever then finds a file finds a valid one; and every temporary name   *)
(* is fresh, so that whoever finds none puts one there.                    *)
Missed == Restoring \ {"remove"}

Restored(t) == \/ entry[call[t].key] = Whole(call[t].key)
               \/ \E u \in Thread : pc[u] \in Restoring /\ call[u].key = call[t].key

Delivered(t) == /\ pc[t] \in {"insert", "evict"} /\ call[t].source = "compiled"
                /\ call[t].key \in Storable

RegenerationInv ==
    /\ \A f \in DOMAIN scratch : \A p \in Process : pid[p] = f.pid => f.sequence < sequence[p]
    /\ \A t \in Thread : pc[t] # "cleanup" /\ (pc[t] = "resolve" => ~call[t].resolved)
    /\ \A t \in Thread : pc[t] \in Missed => entry[call[t].key] \in {None, Whole(call[t].key)}
    /\ \A t \in Thread : Delivered(t) => Restored(t)

Unharmed == Persistent /\ SumFunction(hazards) = 0

LEMMA HazardsAdd ==
    ASSUME NEW f \in [Hazard -> Nat]
    PROVE  /\ SumFunction(f) = 0 => \A h \in Hazard : f[h] = 0
           /\ (\A h \in Hazard : f[h] = 0) => SumFunction(f) = 0
<1>1. IsFiniteSet(Hazard)
  <2>1. \A S, x : IsFiniteSet(S) => IsFiniteSet(S \cup {x})
    BY FS_AddElement
  <2>2. IsFiniteSet({"found"} \cup {"damage"} \cup {"io"})
    BY <2>1, FS_Singleton
  <2>3. Hazard = ({"found"} \cup {"damage"} \cup {"io"}) \cup {"unlink"} \cup {"crash"}
    BY DEF Hazard
  <2> QED BY <2>1, <2>2, <2>3
<1>2. DOMAIN f = Hazard /\ SumFunction(f) = SumFunctionOnSet(f, Hazard)
  BY DEF SumFunction
<1>3. SumFunction(f) = 0 => \A h \in Hazard : f[h] = 0
  BY <1>1, <1>2, SumIsZero
<1>4. (\A h \in Hazard : f[h] = 0) => SumFunction(f) = 0
  BY <1>1, <1>2, SumOfZeros
<1> QED BY <1>3, <1>4

LEMMA StrikeShows ==
    ASSUME TypeOK, NEW h, Strike(h)
    PROVE  SumFunction(hazards') # 0
<1>1. h \in Hazard /\ hazards' \in [Hazard -> Nat]
  BY StrikeType, CacheAssumption DEF Strike
<1>2. hazards'[h] # 0
  BY <1>1 DEF Strike, TypeOK
<1> QED BY <1>1, <1>2, HazardsAdd

LEMMA RegenerationOwn ==
    ASSUME TypeOK, AnswerInv, RegenerationInv, NEW t \in Thread,
           \A u \in Thread \ {t} : pc'[u] = pc[u] /\ call'[u] = call[u],
           \A f \in DOMAIN scratch' : \A p \in Process : pid'[p] = f.pid => f.sequence < sequence'[p],
           pc'[t] # "cleanup", pc'[t] = "resolve" => ~call'[t].resolved,
           pc'[t] \in Missed => entry'[call'[t].key] \in {None, Whole(call'[t].key)},
           Delivered(t)' => Restored(t)',
           \A k \in Key : entry'[k] \in {entry[k], None, Whole(k)},
           \A k \in Key : entry[k] = Whole(k) /\ entry'[k] # Whole(k)
                            => pc'[t] \in Restoring /\ call'[t].key = k,
           pc[t] \in Restoring /\ call[t].key \in Compilable \cap Storable
              => \/ entry'[call[t].key] = Whole(call[t].key)
                 \/ pc'[t] \in Restoring /\ call'[t].key = call[t].key
    PROVE  RegenerationInv'
<1>1. ASSUME NEW u \in Thread \ {t}, pc'[u] \in Missed
      PROVE  entry'[call'[u].key] \in {None, Whole(call'[u].key)}
  <2>1. call[u].key \in Key /\ entry[call[u].key] \in {None, Whole(call[u].key)}
    BY <1>1 DEF RegenerationInv, TypeOK, Call
  <2> QED BY <1>1, <2>1
<1>2. ASSUME NEW u \in Thread \ {t}, Delivered(u)' PROVE Restored(u)'
  <2> DEFINE k == call[u].key
  <2>1. Delivered(u) /\ call'[u].key = k
    BY <1>2 DEF Delivered
  <2>2. k \in Key /\ k \in Compilable \cap Storable
    BY <2>1 DEF Delivered, AnswerInv, Compiled, ArtifactOf, TypeOK, Call
  <2>3. CASE entry[k] = Whole(k)
    BY <2>1, <2>2, <2>3 DEF Restored
  <2>4. CASE \E v \in Thread : pc[v] \in Restoring /\ call[v].key = k
    <3>1. PICK v \in Thread : pc[v] \in Restoring /\ call[v].key = k
      BY <2>4
    <3>2. CASE v = t
      BY <2>1, <2>2, <3>1, <3>2 DEF Restored
    <3>3. CASE v # t
      BY <2>1, <3>1, <3>3 DEF Restored
    <3> QED BY <3>2, <3>3
  <2> QED BY <2>1, <2>3, <2>4 DEF RegenerationInv, Restored
<1> QED BY <1>1, <1>2 DEF RegenerationInv

LEMMA RegenerationNext ==
    ASSUME TypeOK, ScratchInv, AnswerInv, RegenerationInv, Unharmed', [Next]_vars
    PROVE  RegenerationInv'
<1> DEFINE Others(t) == \A u \in Thread \ {t} : pc'[u] = pc[u] /\ call'[u] = call[u]
           SameNames == UNCHANGED <<scratch, pid, sequence>>
           SameFiles == UNCHANGED entry
<1> USE DEF Unharmed
<1>1. ASSUME NEW t \in Thread, NEW r \in Request, Ask(t, r) PROVE RegenerationInv'
  <2>1. SameNames /\ SameFiles /\ Others(t) /\ pc[t] = "idle" /\ pc'[t] = "memory"
    BY <1>1 DEF Ask, Step, TypeOK, directoryVars, processVars
  <2> QED BY <2>1, RegenerationOwn DEF RegenerationInv, Restoring, Missed, Delivered
<1>2. ASSUME NEW t \in Thread, MemoryGet(t) \/ SkipInsert(t) \/ Unlock(t) PROVE RegenerationInv'
  <2>1. /\ SameNames /\ SameFiles /\ Others(t)
        /\ pc[t] \in {"memory", "insert", "evict"} /\ pc'[t] \in {"metadata", "idle"}
    BY <1>2 DEF MemoryGet, SkipInsert, Unlock, Return, Step, TypeOK, directoryVars, processVars
  <2> QED BY <2>1, RegenerationOwn DEF RegenerationInv, Restoring, Missed, Delivered
<1>3. ASSUME NEW t \in Thread, Metadata(t) PROVE RegenerationInv'
  <2>1. /\ SameNames /\ SameFiles /\ Others(t) /\ UNCHANGED call /\ pc[t] = "metadata"
        /\ \/ pc'[t] \in {"remove", "read"}
           \/ entry[call[t].key] = None /\ pc'[t] = AfterMiss(t)
    BY <1>3 DEF Metadata, Step, TypeOK, directoryVars, processVars
  <2> QED BY <2>1, RegenerationOwn DEF RegenerationInv, Restoring, Missed, Delivered, AfterMiss
<1>4. ASSUME NEW t \in Thread, Read(t) PROVE RegenerationInv'
  <2>1. /\ SameNames /\ SameFiles /\ Others(t) /\ pc[t] = "read"
        /\ \/ pc'[t] = "insert" /\ call'[t].source = "persistent"
           \/ UNCHANGED call /\ pc'[t] = "remove"
           \/ UNCHANGED call /\ entry[call[t].key] = None /\ pc'[t] = AfterMiss(t)
    BY <1>4 DEF Read, Step, TypeOK, Call, directoryVars, processVars
  <2> QED BY <2>1, RegenerationOwn DEF RegenerationInv, Restoring, Missed, Delivered, AfterMiss
<1>5. ASSUME NEW t \in Thread, Discard(t) PROVE RegenerationInv'
  <2>1. /\ SameNames /\ Others(t) /\ UNCHANGED call /\ call[t].key \in Key
        /\ pc[t] = "remove" /\ pc'[t] = AfterMiss(t)
        /\ \A k \in Key : entry'[k] = IF k = call[t].key THEN None ELSE entry[k]
    BY <1>5 DEF Discard, Step, TypeOK, Call, processVars
  <2> QED BY <2>1, RegenerationOwn DEF RegenerationInv, Restoring, Missed, Delivered, AfterMiss
<1>6. ASSUME NEW t \in Thread, ResolveEntryPoint(t) PROVE RegenerationInv'
  <2> DEFINE k == Resolve(call[t].asked)
  <2>1. SameNames /\ SameFiles /\ Others(t) /\ pc[t] = "resolve" /\ call[t].key = call[t].asked
    BY <1>6 DEF ResolveEntryPoint, Return, Step, TypeOK, directoryVars, processVars, RegenerationInv,
                AnswerInv, KeyOK
  <2>2. \/ k = Failure /\ pc'[t] = "idle" /\ UNCHANGED call
        \/ k # Failure /\ k # call[t].asked /\ pc'[t] = "memory"
        \/ k = call[t].asked /\ pc'[t] = "compile" /\ call'[t].key = call[t].key
    BY <1>6, <2>1 DEF ResolveEntryPoint, Return, Step, TypeOK, Call
  <2>3. call[t].key \in Compilable => k = call[t].key /\ k # Failure
    BY <2>1, CompilableResolves, OptionAssumption
  <2>4. call[t].key \in Key /\ entry[call[t].key] \in {None, Whole(call[t].key)}
    BY <2>1 DEF RegenerationInv, Missed, Restoring, TypeOK, Call
  <2> HIDE DEF k
  <2> QED BY <2>1, <2>2, <2>3, <2>4, RegenerationOwn DEF RegenerationInv, Restoring, Missed, Delivered
<1>7. ASSUME NEW t \in Thread, Compile(t) PROVE RegenerationInv'
  <2>1. /\ SameNames /\ SameFiles /\ Others(t) /\ pc[t] = "compile"
        /\ \/ call[t].key \notin Compilable /\ pc'[t] = "idle"
           \/ pc'[t] = "check" /\ call'[t].key = call[t].key
    BY <1>7 DEF Compile, Return, Step, TypeOK, Call, directoryVars, processVars
  <2> QED BY <2>1, RegenerationOwn DEF RegenerationInv, Restoring, Missed, Delivered
<1>8. ASSUME NEW t \in Thread, Check(t) PROVE RegenerationInv'
  <2> DEFINE k == call[t].key
  <2>1. /\ SameNames /\ SameFiles /\ Others(t) /\ UNCHANGED call /\ pc[t] = "check"
        /\ pc'[t] = IF k \in Storable /\ entry[k] = None THEN "create" ELSE "insert"
    BY <1>8 DEF Check, Step, TypeOK, directoryVars, processVars
  <2>2. entry[k] \in {None, Whole(k)}
    BY <2>1 DEF RegenerationInv, Missed, Restoring
  <2> QED BY <2>1, <2>2, RegenerationOwn DEF RegenerationInv, Restoring, Missed, Delivered, Restored
<1>9. ASSUME NEW t \in Thread, Create(t) PROVE RegenerationInv'
  <2> DEFINE p == ProcessOf[t]
             file == [ScratchOf(t) EXCEPT !.sequence = sequence[p]]
  <2>1. /\ p \in Process /\ sequence[p] \in Nat /\ SameFiles /\ UNCHANGED pid /\ Others(t)
        /\ pc[t] = "create" /\ call'[t].key = call[t].key
        /\ \A q \in Process : sequence'[q] = IF q = p THEN sequence[p] + 1 ELSE sequence[q]
    <3>1. p \in Process /\ sequence[p] \in Nat
      BY CacheAssumption DEF TypeOK
    <3>2. /\ sequence' = [sequence EXCEPT ![p] = sequence[p] + 1]
          /\ call' = [call EXCEPT ![t].sequence = sequence[p]]
      BY <1>9 DEF Create, NextSequence
    <3>3. call'[t].key = call[t].key /\ \A u \in Thread \ {t} : call'[u] = call[u]
      BY <3>2 DEF TypeOK, Call
    <3>4. SameFiles /\ UNCHANGED pid /\ pc[t] = "create" /\ \A u \in Thread \ {t} : pc'[u] = pc[u]
      BY <1>9 DEF Create, Step, TypeOK
    <3> QED BY <3>1, <3>2, <3>3, <3>4 DEF TypeOK
  <2>2. file.pid = pid[p] /\ file.sequence = sequence[p]
    BY DEF ScratchOf
  <2>3. file \notin DOMAIN scratch
    <3> HIDE DEF file
    <3> QED BY <2>1, <2>2 DEF RegenerationInv
  <2>4. pc'[t] = "write" /\ DOMAIN scratch' = DOMAIN scratch \cup {file}
    BY <1>9, <2>3 DEF Create, Step, TypeOK
  <2> HIDE DEF file
  <2>5. ASSUME NEW f \in DOMAIN scratch', NEW q \in Process, pid[q] = f.pid
        PROVE  f.sequence < sequence'[q]
    <3>1. CASE f = file
      <4>1. q = p
        BY <2>1, <2>2, <2>5, <3>1 DEF ScratchInv
      <4> QED BY <2>1, <2>2, <3>1, <4>1
    <3>2. CASE f \in DOMAIN scratch
      <4>1. f.sequence < sequence[q] /\ f.sequence \in Nat /\ sequence[q] \in Nat
        BY <2>5, <3>2 DEF RegenerationInv, TypeOK, ScratchName
      <4> QED BY <2>1, <4>1
    <3> QED BY <2>4, <3>1, <3>2
  <2> QED BY <2>1, <2>4, <2>5, RegenerationOwn DEF RegenerationInv, Restoring, Missed, Delivered
<1>10. ASSUME NEW t \in Thread, Write(t) PROVE RegenerationInv'
  <2>1. /\ SameFiles /\ UNCHANGED <<pid, sequence, call>> /\ DOMAIN scratch' = DOMAIN scratch
        /\ Others(t) /\ pc[t] = "write" /\ pc'[t] = "rename"
    BY <1>10 DEF Write, Step, TypeOK, processVars
  <2> QED BY <2>1, RegenerationOwn DEF RegenerationInv, Restoring, Missed, Delivered
<1>11. ASSUME NEW t \in Thread, Rename(t) PROVE RegenerationInv'
  <2>1. /\ UNCHANGED <<pid, sequence, call>> /\ DOMAIN scratch' \subseteq DOMAIN scratch
        /\ Others(t) /\ pc[t] = "rename" /\ pc'[t] = "insert" /\ call[t].key \in Key
    BY <1>11 DEF Rename, Step, TypeOK, Call, Restrict, processVars
  <2>2. \A k \in Key : entry'[k] = IF k = call[t].key THEN Whole(k) ELSE entry[k]
    BY <1>11, <2>1 DEF Rename, ScratchInv, TypeOK
  <2> QED BY <2>1, <2>2, RegenerationOwn DEF RegenerationInv, Restoring, Missed, Delivered, Restored
<1>12. ASSUME NEW t \in Thread, Cleanup(t) PROVE RegenerationInv'
  BY <1>12 DEF Cleanup, Step, RegenerationInv
<1>13. ASSUME NEW t \in Thread, Insert(t) PROVE RegenerationInv'
  <2>1. /\ SameNames /\ SameFiles /\ Others(t) /\ pc[t] = "insert" /\ pc'[t] = "evict"
        /\ call'[t].key = call[t].key /\ call'[t].source = call[t].source
    BY <1>13 DEF Insert, Step, TypeOK, Call, directoryVars, processVars
  <2>2. Delivered(t)' => Restored(t)'
    <3> SUFFICES ASSUME Delivered(t)' PROVE Restored(t)'
      OBVIOUS
    <3>1. Delivered(t)
      BY <2>1 DEF Delivered
    <3>2. Restored(t)
      BY <3>1 DEF RegenerationInv
    <3>3. \A u \in Thread : pc[u] \in Restoring => u # t
      BY <2>1 DEF Restoring
    <3> QED BY <2>1, <3>2, <3>3 DEF Restored
  <2> QED BY <2>1, <2>2, RegenerationOwn DEF RegenerationInv, Restoring, Missed
<1>14. ASSUME NEW t \in Thread, Evict(t) PROVE RegenerationInv'
  BY <1>14 DEF Evict, directoryVars, processVars, threadVars, RegenerationInv, Delivered, Restored
<1>15. ASSUME NEW t \in Thread, IoFailure(t) \/ UnlinkFailure(t) PROVE RegenerationInv'
  BY <1>15, StrikeShows DEF IoFailure, UnlinkFailure
<1>16. ASSUME NEW k \in Key, Damage(k) PROVE RegenerationInv'
  BY <1>16, StrikeShows DEF Damage
<1>17. ASSUME NEW p \in Process, Crash(p) PROVE RegenerationInv'
  BY <1>17, StrikeShows DEF Crash
<1>18. CASE UNCHANGED vars
  BY <1>18 DEF vars, RegenerationInv, Delivered, Restored
<1> QED BY <1>1, <1>2, <1>3, <1>4, <1>5, <1>6, <1>7, <1>8, <1>9, <1>10, <1>11, <1>12, <1>13, <1>14, <1>15,
           <1>16, <1>17, <1>18 DEF Next, Advance

(* Corrupt or stale files found at the start are regenerated, however the  *)
(* requests that remove them and the requests that store them interleave:  *)
(* a request that has compiled a key leaves a valid file, or another one   *)
(* that has still to store it.                                             *)
THEOREM FilesAreRegenerated == Spec => []Regenerated
<1> DEFINE Inv == TypeOK /\ ScratchInv /\ AnswerInv /\ (Unharmed => RegenerationInv)
<1>1. Init => Inv
  BY TypeInit, ScratchInit, AnswerInit DEF Init, RegenerationInv, Delivered, Restoring, Missed
<1>2. ASSUME Inv, [Next]_vars PROVE Inv'
  <2>1. TypeOK' /\ ScratchInv' /\ AnswerInv'
    BY <1>2, TypeNext, ScratchNext, AnswerNext
  <2>2. Unharmed' => Unharmed
    <3>1. ASSUME NEW h, Strike(h), Unharmed' PROVE FALSE
      BY <1>2, <3>1, StrikeShows DEF Unharmed
    <3>2. (\E h : Strike(h)) \/ UNCHANGED hazards
      BY <1>2 DEF Next, Advance, vars, Ask, MemoryGet, Metadata, Read, Discard, ResolveEntryPoint, Compile,
                  Check, Create, Write, Rename, Cleanup, SkipInsert, Insert, Evict, Unlock, IoFailure,
                  UnlinkFailure, Damage, Crash
    <3> QED BY <3>1, <3>2 DEF Unharmed
  <2> QED BY <1>2, <2>1, <2>2, RegenerationNext
<1>3. Inv => Regenerated
  BY DEF Regenerated, Unharmed, RegenerationInv, Delivered, Restored
<1> QED BY <1>1, <1>2, <1>3, PTL DEF Spec

-----------------------------------------------------------------------------
(* Temporary files nobody will rename or remove.                           *)
Leftover == { f \in DOMAIN scratch : \A t \in Thread : pc[t] \in Writing => ScratchOf(t) # f }

LeftoverInv ==
    IsFiniteSet(Leftover) /\ Cardinality(Leftover) <= hazards["crash"] + hazards["unlink"]

OneThreadEach == \A t, u \in Thread : ProcessOf[t] = ProcessOf[u] => t = u

LEMMA LeftoverPaid ==
    ASSUME TypeOK, LeftoverInv, NEW x,
           \/ Leftover' \subseteq Leftover /\ UNCHANGED hazards
           \/ Leftover' \subseteq Leftover /\ \E h \in Hazard : Strike(h)
           \/ Leftover' \subseteq Leftover \cup {x} /\ \E h \in {"crash", "unlink"} : Strike(h)
    PROVE  LeftoverInv'
<1> DEFINE L == Leftover
           K == Leftover'
           M == L \cup {x}
           paid == hazards["crash"] + hazards["unlink"]
           paid2 == hazards'["crash"] + hazards'["unlink"]
<1>1. /\ IsFiniteSet(L) /\ Cardinality(L) \in Nat /\ Cardinality(L) <= paid
      /\ IsFiniteSet(M) /\ Cardinality(M) \in Nat /\ Cardinality(M) <= Cardinality(L) + 1
  <2>1. IsFiniteSet(L) /\ Cardinality(L) <= paid
    BY DEF LeftoverInv
  <2>2. Cardinality(L) \in Nat
    BY <2>1, FS_CardinalityType
  <2>3. IsFiniteSet(M) /\ Cardinality(M) = IF x \in L THEN Cardinality(L) ELSE Cardinality(L) + 1
    BY <2>1, FS_AddElement
  <2> HIDE DEF L, M, paid
  <2> QED BY <2>1, <2>2, <2>3
<1>2. hazards["crash"] \in Nat /\ hazards["unlink"] \in Nat
  BY DEF TypeOK, Hazard
<1>3. \/ K \subseteq L /\ paid2 \in Nat /\ paid2 >= paid
      \/ K \subseteq M /\ paid2 = paid + 1
  <2>1. ASSUME NEW h \in Hazard, Strike(h)
        PROVE  /\ paid2 \in Nat /\ paid2 >= paid
               /\ h \in {"crash", "unlink"} => paid2 = paid + 1
    <3>1. hazards' = [hazards EXCEPT ![h] = hazards[h] + 1] /\ DOMAIN hazards = Hazard
      BY <2>1 DEF Strike, TypeOK
    <3>2. \A g \in Hazard : hazards'[g] = IF g = h THEN hazards[g] + 1 ELSE hazards[g]
      BY <3>1
    <3>3. "crash" \in Hazard /\ "unlink" \in Hazard
      BY DEF Hazard
    <3> QED BY <1>2, <3>2, <3>3
  <2>2. {"crash", "unlink"} \subseteq Hazard
    BY DEF Hazard
  <2> QED BY <1>2, <2>1, <2>2
<1>4. IsFiniteSet(K) /\ Cardinality(K) \in Nat
      /\ (K \subseteq L => Cardinality(K) <= Cardinality(L)) /\ (K \subseteq M => Cardinality(K) <= Cardinality(M))
  <2> HIDE DEF K, L, M
  <2>1. L \subseteq M
    BY DEF M
  <2>2. K \subseteq M /\ (K \subseteq L \/ K \subseteq M)
    BY <1>3, <2>1
  <2> QED BY <1>1, <2>2, FS_Subset, FS_CardinalityType
<1>5. paid \in Nat /\ paid2 \in Int
  BY <1>2, <1>3
<1> HIDE DEF K, L, M, paid, paid2
<1>6. Cardinality(K) <= paid2
  BY <1>1, <1>3, <1>4, <1>5
<1> QED BY <1>4, <1>6 DEF LeftoverInv, K, paid2

LEMMA LeftoverNext ==
    ASSUME OneThreadEach, TypeOK, LeftoverInv, [Next]_vars
    PROVE  LeftoverInv'
<1> DEFINE Fewer == Leftover' \subseteq Leftover
           Owns(t) == pc[t] \in Writing
           Others(t) == \A u \in Thread \ {t} : pc'[u] = pc[u] /\ (ScratchOf(u))' = ScratchOf(u)
           Struck == \E h \in Hazard : Strike(h)
<1>1. ASSUME UNCHANGED <<scratch, pid>>,
             \A u \in Thread : call'[u] = call[u] \/ ~Owns(u),
             \A u \in Thread : Owns(u) => pc'[u] \in Writing
      PROVE  Fewer
  <2>1. \A u \in Thread : Owns(u) => pc'[u] \in Writing /\ (ScratchOf(u))' = ScratchOf(u)
    BY <1>1 DEF ScratchOf
  <2> QED BY <1>1, <2>1 DEF Leftover
<1>2. ASSUME NEW t \in Thread, NEW r \in Request, Ask(t, r) PROVE Fewer /\ UNCHANGED hazards
  <2>1. UNCHANGED <<scratch, pid, hazards>> /\ ~Owns(t)
    BY <1>2 DEF Ask, Step, Writing, directoryVars, processVars
  <2>2. \A u \in Thread \ {t} : pc'[u] = pc[u] /\ call'[u] = call[u]
    BY <1>2 DEF Ask, Step, TypeOK
  <2> QED BY <1>1, <2>1, <2>2
<1>3. ASSUME NEW t \in Thread,
             \/ MemoryGet(t) \/ Metadata(t) \/ Read(t) \/ Discard(t) \/ ResolveEntryPoint(t) \/ Compile(t)
             \/ Check(t) \/ SkipInsert(t) \/ Insert(t) \/ Evict(t) \/ Unlock(t)
      PROVE  Fewer /\ UNCHANGED hazards
  <2>1. UNCHANGED <<scratch, pid, hazards>> /\ ~Owns(t)
    BY <1>3 DEF MemoryGet, Metadata, Read, Discard, ResolveEntryPoint, Compile, Check, SkipInsert, Insert,
                Evict, Unlock, Return, Step, Writing, directoryVars, processVars
  <2>2. \A u \in Thread \ {t} : pc'[u] = pc[u]
    BY <1>3 DEF MemoryGet, Metadata, Read, Discard, ResolveEntryPoint, Compile, Check, SkipInsert, Insert,
                Evict, Unlock, Return, Step, TypeOK, threadVars
  <2>3. \A u \in Thread \ {t} : call'[u] = call[u]
    BY <1>3 DEF MemoryGet, Metadata, Read, Discard, ResolveEntryPoint, Compile, Check, SkipInsert, Insert,
                Evict, Unlock, TypeOK, threadVars
  <2> QED BY <1>1, <2>1, <2>2, <2>3
<1>4. ASSUME NEW t \in Thread, Create(t) PROVE Fewer /\ UNCHANGED hazards
  <2> DEFINE file == [ScratchOf(t) EXCEPT !.sequence = sequence[ProcessOf[t]]]
  <2>1. /\ pc[t] = "create" /\ pc'[t] \in Writing /\ UNCHANGED <<pid, hazards>>
        /\ call' = [call EXCEPT ![t].sequence = sequence[ProcessOf[t]]]
        /\ \A u \in Thread \ {t} : pc'[u] = pc[u]
    BY <1>4 DEF Create, NextSequence, Step, TypeOK, Writing
  <2>2. (ScratchOf(t))' = file
    <3>1. call'[t].key = call[t].key /\ call'[t].sequence = sequence[ProcessOf[t]]
      BY <2>1 DEF TypeOK, Call
    <3> QED BY <2>1, <3>1 DEF ScratchOf
  <2>3. \A u \in Thread \ {t} : (ScratchOf(u))' = ScratchOf(u)
    BY <2>1 DEF ScratchOf, TypeOK
  <2>4. DOMAIN scratch' \subseteq DOMAIN scratch \cup {file}
    BY <1>4 DEF Create
  <2> HIDE DEF file
  <2>5. \A u \in Thread : pc[u] \in Writing =>
            pc'[u] \in Writing /\ (ScratchOf(u))' = ScratchOf(u)
    BY <2>1, <2>3 DEF Writing
  <2> QED BY <2>1, <2>2, <2>4, <2>5 DEF Leftover
<1>5. ASSUME NEW t \in Thread, Write(t) \/ Rename(t) \/ Cleanup(t) PROVE Fewer /\ UNCHANGED hazards
  <2>1. /\ UNCHANGED <<pid, call, hazards>> /\ \A u \in Thread \ {t} : pc'[u] = pc[u]
        /\ DOMAIN scratch' \subseteq DOMAIN scratch
        /\ pc'[t] \in Writing \/ ScratchOf(t) \notin DOMAIN scratch'
    BY <1>5 DEF Write, Rename, Cleanup, Restrict, Step, TypeOK, Writing, processVars
  <2>2. \A u \in Thread : (ScratchOf(u))' = ScratchOf(u)
    BY <2>1 DEF ScratchOf
  <2> QED BY <2>1, <2>2 DEF Leftover
<1>6. ASSUME NEW t \in Thread, IoFailure(t) PROVE Fewer /\ Struck
  <2>1. /\ UNCHANGED <<scratch, pid>> /\ \A u \in Thread \ {t} : pc'[u] = pc[u] /\ call'[u] = call[u]
        /\ UNCHANGED call \/ pc[t] = "create"
        /\ pc'[t] = OnError(t) /\ pc[t] # "cleanup"
    BY <1>6 DEF IoFailure, NextSequence, Step, TypeOK, directoryVars
  <2>2. Owns(t) => pc'[t] \in Writing /\ UNCHANGED call
    BY <2>1 DEF OnError, Writing
  <2>3. Struck
    BY <1>6 DEF IoFailure, Hazard
  <2> QED BY <1>1, <2>1, <2>2, <2>3
<1>7. ASSUME NEW t \in Thread, UnlinkFailure(t)
      PROVE  Leftover' \subseteq Leftover \cup {ScratchOf(t)} /\ Strike("unlink")
  <2>1. UNCHANGED <<scratch, pid, call>> /\ \A u \in Thread \ {t} : pc'[u] = pc[u]
    BY <1>7 DEF UnlinkFailure, Step, TypeOK, directoryVars, processVars
  <2>2. \A u \in Thread : (ScratchOf(u))' = ScratchOf(u)
    BY <2>1 DEF ScratchOf
  <2>3. Strike("unlink")
    BY <1>7 DEF UnlinkFailure
  <2> QED BY <2>1, <2>2, <2>3 DEF Leftover
<1>8. ASSUME NEW k \in Key, Damage(k) PROVE Fewer /\ Struck
  <2>1. Struck
    BY <1>8 DEF Damage, Hazard
  <2>2. UNCHANGED <<scratch, pid, pc, call>>
    BY <1>8 DEF Damage, processVars, threadVars
  <2> QED BY <1>1, <2>1, <2>2
<1>9. ASSUME NEW p \in Process, Crash(p) PROVE LeftoverInv'
  <2>1. /\ UNCHANGED <<scratch, call>> /\ Strike("crash")
        /\ \A q \in Process \ {p} : pid'[q] = pid[q]
        /\ \A t \in Thread : pc'[t] = IF ProcessOf[t] = p THEN "idle" ELSE pc[t]
    BY <1>9 DEF Crash, TypeOK, directoryVars
  <2>2. \A t \in Thread : ProcessOf[t] # p => pc'[t] = pc[t] /\ (ScratchOf(t))' = ScratchOf(t)
    BY <2>1, CacheAssumption DEF ScratchOf
  <2>3. CASE \E t \in Thread : ProcessOf[t] = p
    <3>1. PICK t \in Thread : ProcessOf[t] = p
      BY <2>3
    <3>2. \A u \in Thread \ {t} : ProcessOf[u] # p
      BY <3>1 DEF OneThreadEach
    <3>3. Leftover' \subseteq Leftover \cup {ScratchOf(t)}
      BY <2>1, <2>2, <3>2 DEF Leftover
    <3> QED BY <2>1, <3>3, LeftoverPaid
  <2>4. CASE \A t \in Thread : ProcessOf[t] # p
    <3>1. Fewer
      BY <2>1, <2>2, <2>4 DEF Leftover
    <3> QED BY <2>1, <3>1, LeftoverPaid DEF Hazard
  <2> QED BY <2>3, <2>4
<1>10. ASSUME UNCHANGED vars PROVE Fewer /\ UNCHANGED hazards
  BY <1>1, <1>10 DEF vars
<1>11. ASSUME Fewer, Struck \/ UNCHANGED hazards PROVE LeftoverInv'
  BY <1>11, LeftoverPaid
<1>12. ASSUME NEW t \in Thread, UnlinkFailure(t) PROVE LeftoverInv'
  BY <1>7, <1>12, LeftoverPaid
<1> HIDE DEF Fewer, Struck
<1> QED BY <1>2, <1>3, <1>4, <1>5, <1>6, <1>8, <1>9, <1>10, <1>11, <1>12 DEF Next, Advance

(* With one thread in each process, a temporary file is left behind only   *)
(* by a crash or by a removal that failed, one file by each.               *)
THEOREM LeftoversArePaidFor ==
    ASSUME OneThreadEach
    PROVE  Spec => []LeftoversPaidFor
<1> DEFINE Inv == TypeOK /\ ScratchInv /\ LeftoverInv
<1>1. Init => Inv
  <2> SUFFICES ASSUME Init PROVE LeftoverInv
    BY TypeInit, ScratchInit
  <2>1. Leftover = {}
    BY DEF Init, Leftover
  <2>2. hazards["crash"] + hazards["unlink"] = 0
    BY DEF Init, Hazard
  <2> QED BY <2>1, <2>2, FS_EmptySet DEF LeftoverInv
<1>2. Inv /\ [Next]_vars => Inv'
  BY TypeNext, ScratchNext, LeftoverNext
<1>3. Inv => LeftoversPaidFor
  BY DEF LeftoverInv, Leftover, LeftoversPaidFor, Writing
<1> QED BY <1>1, <1>2, <1>3, PTL DEF Spec
=============================================================================
