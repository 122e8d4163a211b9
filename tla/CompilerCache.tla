---------------------------- MODULE CompilerCache ---------------------------
(***************************************************************************)
(* crates/deko-shader-compiler/src/cache.rs: the two-tier artifact cache.  *)
(*                                                                         *)
(* Each process holds one CompilerCache (a CacheState behind a mutex) that *)
(* its threads share through clones; all processes share one persistent    *)
(* directory.  One action is one critical section of the mutex, one file   *)
(* system call, or one call into the compiler.                             *)
(***************************************************************************)
EXTENDS Naturals, SequencesExt

CONSTANTS
    Thread, Process, ProcessOf,    \* callers, and the process each runs in
    Source, Name, EntryPoints,     \* WGSL texts, entry-point names, and the
                                   \* entry points a text defines for a stage
    Compilable,                    \* the keys Compiler::compile_wgsl accepts
    Size,                          \* artifact_size of a key's artifact
    MaxEntries, MaxBytes,          \* memory limits
    Persistent,                    \* is a persistent directory configured?
    Storable,                      \* the keys whose DKSH image is within
                                   \* MAX_PERSISTENT_ARTIFACT_SIZE
    Pid,                           \* process identifiers, reused after exits
    Request,                       \* the requests callers make
    None, Failure, Garbage,        \* Option::None, Err(...), stray bytes
    Environment,                   \* what may go wrong, see Hazard
    MaxRequests, MaxHazards        \* bounds of the exploration

Key == [source : Source, entry : Name]

(* "found": the directory holds files from earlier runs at the start;      *)
(* "damage": a file is overwritten or deleted behind the cache's back;     *)
(* "io": a file system call fails; "unlink": a remove_file fails;          *)
(* "crash": a process dies and restarts.                                   *)
Hazard == {"found", "damage", "io", "unlink", "crash"}

ASSUME CacheAssumption ==
    /\ ProcessOf \in [Thread -> Process]
    /\ EntryPoints \in [Source -> SUBSET Name]
    /\ Compilable \subseteq { k \in Key : k.entry \in EntryPoints[k.source] }
    /\ Storable \subseteq Key
    /\ Size \in [Key -> Nat]
    /\ MaxEntries \in Nat /\ MaxBytes \in Nat
    /\ Persistent \in BOOLEAN
    /\ Request # {} /\ Request \subseteq [resolving : BOOLEAN, key : Key]
    /\ Environment \subseteq Hazard
    /\ MaxRequests \in Nat /\ MaxHazards \in Nat

(* An Arc<Artifact>: the key whose compilation it holds (Garbage when it   *)
(* is no compiler's output), and the request that allocated it, so that    *)
(* Arc::ptr_eq is equality.                                                *)
Artifact == [key : Key \cup {Garbage}, thread : Thread, request : Nat]

(* The bytes of a cache file, as far as decode_persistent_entry can tell:  *)
(* a complete envelope written for a key, a prefix of one, bytes that fail *)
(* the magic, length, checksum or DKSH checks, or an over-long file.       *)
Content == [form : {"whole", "prefix", "corrupt", "huge"}, key : Key]

ScratchName == [key : Key, pid : Pid, sequence : Nat]

ReplySource == {"memory", "persistent", "compiled", "error"}

Point == {"idle", "memory", "metadata", "read", "remove", "resolve", "compile",
          "check", "create", "write", "rename", "cleanup", "insert", "evict"}

(* The locals of a request.                                                *)
Call == [resolving : BOOLEAN,      \* which of the two entry functions
         asked : Key,              \* requested_key
         key : Key,                \* the key being looked up or compiled
         resolved : BOOLEAN,       \* is the entry point resolved already?
         artifact : Artifact \cup {None},
         source : ReplySource,
         sequence : Nat,           \* of the temporary file
         request : Nat]            \* how many requests t has made

Reply == [outcome : Artifact \cup {None, Failure}, source : ReplySource]

ASSUME OptionAssumption ==
    /\ None \notin Artifact \cup Content \cup Thread
    /\ Failure \notin Artifact \cup Key \cup {None}
    /\ Garbage \notin Key

VARIABLES
    entries,       \* entries[p][k]: CacheState::entries, None when absent
    order,         \* order[p]: CacheState::least_recently_used
    retained,      \* retained[p]: CacheState::retained_bytes
    mutex,         \* mutex[p]: the thread inside memory_insert, or None
    entry,         \* entry[k]: the file <hex(k)>.dksc, None when absent
    scratch,       \* the temporary files present, by name
    pid,           \* pid[p]: std::process::id()
    sequence,      \* sequence[p]: TEMP_FILE_SEQUENCE
    pc,            \* pc[t]: where t is in its request
    call,          \* call[t]: the locals of the request
    reply,         \* reply[t]: what the last request of t returned
    hazards        \* hazards[h]: how often hazard h has struck

memoryVars == <<entries, order, retained, mutex>>
directoryVars == <<entry, scratch>>
processVars == <<pid, sequence>>
threadVars == <<pc, call, reply>>
vars == <<entries, order, retained, mutex, entry, scratch, pid, sequence,
          pc, call, reply, hazards>>

-----------------------------------------------------------------------------
(* resolve_module_entry_point: an exact name wins, then a sole candidate.  *)
Resolve(k) ==
    LET defined == EntryPoints[k.source] IN
    IF k.entry \in defined THEN k
    ELSE IF \E n \in defined : defined = {n}
         THEN [k EXCEPT !.entry = CHOOSE n \in defined : TRUE]
         ELSE Failure

Whole(k) == [form |-> "whole", key |-> k]

(* decode_persistent_entry: the header and checksum test, and the artifact *)
(* that the bytes hold when it passes.                                     *)
DecodesAnyKey(content, k) == content.form = "whole"
DecodesUnchecked(content, k) == content.key = k
Decodes(content, k) == content.form = "whole" /\ content.key = k

Decoded(content) == IF content.form = "whole" THEN content.key ELSE Garbage

(* Caches store only what compiled, so every complete envelope anywhere is *)
(* of such a key.                                                          *)
Stored == { Whole(l) : l \in Compilable \cap Storable }

(* What a file may hold after something other than the cache wrote it.     *)
Foreign(k) == {None} \cup (Stored \ {Whole(k)})
                     \cup [form : {"prefix", "corrupt", "huge"}, key : {k}]

Without(s, k) == IF k \in Range(s) THEN RemoveAt(s, CHOOSE i \in DOMAIN s : s[i] = k) ELSE s

TouchAppendOnly(s, k) == Append(s, k)
TouchFront(s, k) == <<k>> \o Without(s, k)
Touch(s, k) == Append(Without(s, k), k)

Retained(p) == { k \in Key : entries[p][k] # None }

OverEntryLimit(p) == Cardinality(Retained(p)) > MaxEntries
OverLimit(p) == Cardinality(Retained(p)) > MaxEntries \/ retained[p] > MaxBytes

SaturatingSub(a, b) == IF a >= b THEN a - b ELSE 0

ScratchWithoutPid(t) == [key |-> call[t].key, pid |-> CHOOSE n \in Pid : TRUE,
                         sequence |-> call[t].sequence]
ScratchOf(t) == [key |-> call[t].key, pid |-> pid[ProcessOf[t]],
                 sequence |-> call[t].sequence]

Allocate(t, k) == [key |-> k, thread |-> t, request |-> call[t].request]

AfterMiss(t) ==
    IF call[t].resolving /\ ~call[t].resolved THEN "resolve" ELSE "compile"

Step(t, from, to) == pc[t] = from /\ pc' = [pc EXCEPT ![t] = to]

Return(t, from, outcome, source) ==
    /\ Step(t, from, "idle")
    /\ reply' = [reply EXCEPT ![t] = [outcome |-> outcome, source |-> source]]

-----------------------------------------------------------------------------
Init == /\ entries = [p \in Process |-> [k \in Key |-> None]]
        /\ order = [p \in Process |-> << >>]
        /\ retained = [p \in Process |-> 0]
        /\ mutex = [p \in Process |-> None]
        /\ entry \in [Key -> Content \cup {None}]
        /\ \A k \in Key : entry[k] \in IF "found" \in Environment
                                       THEN Foreign(k) \cup Stored ELSE {None}
        /\ scratch = << >>
        /\ pid \in [Process -> Pid] /\ IsInjective(pid)
        /\ sequence = [p \in Process |-> 0]
        /\ pc = [t \in Thread |-> "idle"]
        /\ LET r == CHOOSE r \in Request : TRUE IN
           call = [t \in Thread |->
                    [resolving |-> r.resolving, asked |-> r.key, key |-> r.key,
                     resolved |-> FALSE, artifact |-> None, source |-> "error",
                     sequence |-> 0, request |-> 0]]
        /\ reply = [t \in Thread |-> [outcome |-> None, source |-> "error"]]
        /\ hazards = [h \in Hazard |-> 0]

(* compile_wgsl_with_telemetry or the resolving variant is called.         *)
Ask(t, r) ==
    /\ call[t].request < MaxRequests
    /\ Step(t, "idle", "memory")
    /\ call' = [call EXCEPT ![t] =
                  [resolving |-> r.resolving, asked |-> r.key, key |-> r.key,
                   resolved |-> FALSE, artifact |-> None, source |-> "error",
                   sequence |-> 0, request |-> call[t].request + 1]]
    /\ reply' = [reply EXCEPT ![t] = [outcome |-> None, source |-> "error"]]
    /\ UNCHANGED <<memoryVars, directoryVars, processVars, hazards>>

(* memory_get, one critical section.                                       *)
MemoryGet(t) ==
    LET p == ProcessOf[t]
        k == call[t].key
    IN  /\ mutex[p] = None
        /\ \/ /\ entries[p][k] # None
              /\ order' = [order EXCEPT ![p] = Touch(order[p], k)]
              /\ Return(t, "memory", entries[p][k], "memory")
           \/ /\ entries[p][k] = None
              /\ Step(t, "memory", IF Persistent THEN "metadata" ELSE AfterMiss(t))
              /\ UNCHANGED <<order, reply>>
        /\ UNCHANGED <<entries, retained, mutex, directoryVars, processVars, call, hazards>>

(* persistent_get: the size test, the read and decode, and the removal of  *)
(* what did not decode are three system calls.                             *)
Metadata(t) ==
    LET file == entry[call[t].key] IN
    /\ Step(t, "metadata", IF file = None THEN AfterMiss(t)
                           ELSE IF file.form = "huge" THEN "remove" ELSE "read")
    /\ UNCHANGED <<memoryVars, directoryVars, processVars, call, reply, hazards>>

Read(t) ==
    LET k == call[t].key
        file == entry[k]
    IN  /\ \/ /\ file = None
              /\ Step(t, "read", AfterMiss(t))
              /\ UNCHANGED call
           \/ /\ file # None /\ Decodes(file, k)
              /\ Step(t, "read", "insert")
              /\ call' = [call EXCEPT ![t].artifact = Allocate(t, Decoded(file)),
                                      ![t].source = "persistent"]
           \/ /\ file # None /\ ~Decodes(file, k)
              /\ Step(t, "read", "remove")
              /\ UNCHANGED call
        /\ UNCHANGED <<memoryVars, directoryVars, processVars, reply, hazards>>

DiscardNothing(t) ==
    /\ Step(t, "remove", AfterMiss(t))
    /\ UNCHANGED <<memoryVars, directoryVars, processVars, call, reply, hazards>>
Discard(t) ==
    /\ Step(t, "remove", AfterMiss(t))
    /\ entry' = [entry EXCEPT ![call[t].key] = None]
    /\ UNCHANGED <<memoryVars, scratch, processVars, call, reply, hazards>>

(* parse_wgsl and resolve_module_entry_point, then a second lookup when    *)
(* the resolved key differs from the requested one.                        *)
ResolveEntryPoint(t) ==
    LET k == Resolve(call[t].asked) IN
    /\ \/ /\ k = Failure
          /\ Return(t, "resolve", Failure, "error")
          /\ UNCHANGED call
       \/ /\ k # Failure
          /\ Step(t, "resolve", IF k # call[t].asked THEN "memory" ELSE "compile")
          /\ call' = [call EXCEPT ![t].key = k, ![t].resolved = TRUE]
          /\ UNCHANGED reply
    /\ UNCHANGED <<memoryVars, directoryVars, processVars, hazards>>

Compile(t) ==
    LET k == call[t].key IN
    /\ \/ /\ k \notin Compilable
          /\ Return(t, "compile", Failure, "error")
          /\ UNCHANGED call
       \/ /\ k \in Compilable
          /\ Step(t, "compile", IF Persistent THEN "check" ELSE "insert")
          /\ call' = [call EXCEPT ![t].artifact = Allocate(t, k),
                                  ![t].source = "compiled"]
          /\ UNCHANGED reply
    /\ UNCHANGED <<memoryVars, directoryVars, processVars, hazards>>

(* persistent_insert: is_file, then create_new on a fresh name, write_all, *)
(* rename; whatever fails, the temporary name is removed.                  *)
Check(t) ==
    LET k == call[t].key IN
    /\ Step(t, "check", IF k \in Storable /\ entry[k] = None THEN "create" ELSE "insert")
    /\ UNCHANGED <<memoryVars, directoryVars, processVars, call, reply, hazards>>

NextSequence(t) ==
    LET p == ProcessOf[t] IN
    /\ sequence' = [sequence EXCEPT ![p] = @ + 1]
    /\ call' = [call EXCEPT ![t].sequence = sequence[p]]

Create(t) ==
    LET file == [ScratchOf(t) EXCEPT !.sequence = sequence[ProcessOf[t]]] IN
    /\ NextSequence(t)
    /\ \/ /\ file \in DOMAIN scratch
          /\ Step(t, "create", "cleanup")
          /\ UNCHANGED scratch
       \/ /\ file \notin DOMAIN scratch
          /\ Step(t, "create", "write")
          /\ scratch' = [f \in DOMAIN scratch \cup {file} |->
                           IF f = file THEN [form |-> "prefix", key |-> call[t].key]
                                       ELSE scratch[f]]
    /\ UNCHANGED <<memoryVars, entry, pid, reply, hazards>>

Write(t) ==
    /\ Step(t, "write", "rename")
    /\ scratch' = [scratch EXCEPT ![ScratchOf(t)] = Whole(call[t].key)]
    /\ UNCHANGED <<memoryVars, entry, processVars, call, reply, hazards>>

Rename(t) ==
    /\ Step(t, "rename", "insert")
    /\ entry' = [entry EXCEPT ![call[t].key] = scratch[ScratchOf(t)]]
    /\ scratch' = Restrict(scratch, DOMAIN scratch \ {ScratchOf(t)})
    /\ UNCHANGED <<memoryVars, processVars, call, reply, hazards>>

CleanupDestination(t) ==
    /\ Step(t, "cleanup", "insert")
    /\ entry' = [entry EXCEPT ![call[t].key] = None]
    /\ UNCHANGED <<memoryVars, scratch, processVars, call, reply, hazards>>
Cleanup(t) ==
    /\ Step(t, "cleanup", "insert")
    /\ scratch' = Restrict(scratch, DOMAIN scratch \ {ScratchOf(t)})
    /\ UNCHANGED <<memoryVars, entry, processVars, call, reply, hazards>>

(* memory_insert.  The artifact of an entry already present wins, except   *)
(* that compile_wgsl_with_telemetry drops memory_insert's result after a   *)
(* persistent hit.  Eviction runs under the same lock.                     *)
KeepsOwn(t) == ~call[t].resolving /\ call[t].source = "persistent"

Cacheable(k) == MaxEntries # 0 /\ MaxBytes # 0 /\ Size[k] <= MaxBytes

SkipInsert(t) ==
    /\ ~Cacheable(call[t].key)
    /\ Return(t, "insert", call[t].artifact, call[t].source)
    /\ UNCHANGED <<memoryVars, directoryVars, processVars, call, hazards>>

Insert(t) ==
    LET p == ProcessOf[t]
        k == call[t].key
        present == entries[p][k] # None
    IN  /\ Cacheable(k)
        /\ mutex[p] = None
        /\ mutex' = [mutex EXCEPT ![p] = t]
        /\ Step(t, "insert", "evict")
        /\ IF present
           THEN UNCHANGED <<entries, retained>>
           ELSE /\ entries' = [entries EXCEPT ![p][k] = call[t].artifact]
                /\ retained' = [retained EXCEPT ![p] = @ + Size[k]]
        /\ call' = IF present /\ ~KeepsOwn(t)
                   THEN [call EXCEPT ![t].artifact = entries[p][k]] ELSE call
        /\ order' = [order EXCEPT ![p] = Touch(order[p], k)]
        /\ UNCHANGED <<directoryVars, processVars, reply, hazards>>

Evict(t) ==
    LET p == ProcessOf[t]
        k == Head(order[p])
    IN  /\ pc[t] = "evict"
        /\ OverLimit(p) /\ order[p] # << >>
        /\ order' = [order EXCEPT ![p] = Tail(@)]
        /\ IF entries[p][k] = None
           THEN UNCHANGED <<entries, retained>>
           ELSE /\ entries' = [entries EXCEPT ![p][k] = None]
                /\ retained' = [retained EXCEPT ![p] = SaturatingSub(@, Size[k])]
        /\ UNCHANGED <<mutex, directoryVars, processVars, threadVars, hazards>>

UnlockForgotten(t) ==
    /\ ~OverLimit(ProcessOf[t])
    /\ Return(t, "evict", call[t].artifact, call[t].source)
    /\ UNCHANGED <<memoryVars, directoryVars, processVars, call, hazards>>
Unlock(t) ==
    LET p == ProcessOf[t] IN
    /\ ~OverLimit(p) \/ order[p] = << >>
    /\ mutex' = [mutex EXCEPT ![p] = None]
    /\ Return(t, "evict", call[t].artifact, call[t].source)
    /\ UNCHANGED <<entries, order, retained, directoryVars, processVars, call, hazards>>

-----------------------------------------------------------------------------
(* The environment.                                                        *)
Strike(h) == /\ h \in Environment
             /\ SumFunction(hazards) < MaxHazards
             /\ hazards' = [hazards EXCEPT ![h] = @ + 1]

(* Where the code carries on when a file system call of t fails: as on a   *)
(* miss, or past what is left of persistent_insert.                        *)
OnErrorKeepWriting(t) ==
    CASE pc[t] \in {"metadata", "read"} -> AfterMiss(t)
      [] pc[t] = "check" -> "insert"
      [] pc[t] = "write" -> "rename"
      [] OTHER -> "cleanup"
OnError(t) ==
    CASE pc[t] \in {"metadata", "read"} -> AfterMiss(t)
      [] pc[t] = "check" -> "insert"
      [] OTHER -> "cleanup"

IoFailure(t) ==
    /\ Strike("io")
    /\ \E from \in {"metadata", "read", "check", "create", "write", "rename"} :
           Step(t, from, OnError(t))
    /\ IF pc[t] = "create" THEN NextSequence(t) ELSE UNCHANGED <<call, sequence>>
    /\ UNCHANGED <<memoryVars, directoryVars, pid, reply>>

UnlinkFailure(t) ==
    /\ Strike("unlink")
    /\ Step(t, "remove", AfterMiss(t)) \/ Step(t, "cleanup", "insert")
    /\ UNCHANGED <<memoryVars, directoryVars, processVars, call, reply>>

Damage(k) ==
    /\ Strike("damage")
    /\ \E content \in Foreign(k) \ {entry[k]} : entry' = [entry EXCEPT ![k] = content]
    /\ UNCHANGED <<memoryVars, scratch, processVars, threadVars>>

(* The process dies where it stands and starts again with empty memory, a  *)
(* fresh TEMP_FILE_SEQUENCE and a process id no live process has.          *)
Crash(p) ==
    /\ Strike("crash")
    /\ \E new \in Pid \ { pid[q] : q \in Process \ {p} } : pid' = [pid EXCEPT ![p] = new]
    /\ sequence' = [sequence EXCEPT ![p] = 0]
    /\ entries' = [entries EXCEPT ![p] = [k \in Key |-> None]]
    /\ order' = [order EXCEPT ![p] = << >>]
    /\ retained' = [retained EXCEPT ![p] = 0]
    /\ mutex' = [mutex EXCEPT ![p] = None]
    /\ pc' = [t \in Thread |-> IF ProcessOf[t] = p THEN "idle" ELSE pc[t]]
    /\ UNCHANGED <<directoryVars, call, reply>>

-----------------------------------------------------------------------------
Advance(t) ==
    \/ MemoryGet(t) \/ Metadata(t) \/ Read(t) \/ Discard(t)
    \/ ResolveEntryPoint(t) \/ Compile(t)
    \/ Check(t) \/ Create(t) \/ Write(t) \/ Rename(t) \/ Cleanup(t)
    \/ SkipInsert(t) \/ Insert(t) \/ Evict(t) \/ Unlock(t)

Next == \/ \E t \in Thread : Advance(t) \/ IoFailure(t) \/ UnlinkFailure(t) \/ \E r \in Request : Ask(t, r)
        \/ \E k \in Key : Damage(k)
        \/ \E p \in Process : Crash(p)

Spec == Init /\ [][Next]_vars

(* The scheduler runs every thread that can run, and a mutex is granted to *)
(* a thread that waits for it (each is held for finitely many steps).      *)
FairSpec == Spec /\ \A t \in Thread : WF_vars(Advance(t))

-----------------------------------------------------------------------------
(* Properties.                                                             *)

TypeOK ==
    /\ entries \in [Process -> [Key -> Artifact \cup {None}]]
    /\ order \in [Process -> Seq(Key)]
    /\ retained \in [Process -> Nat]
    /\ mutex \in [Process -> Thread \cup {None}]
    /\ entry \in [Key -> Content \cup {None}]
    /\ DOMAIN scratch \subseteq ScratchName
    /\ \A f \in DOMAIN scratch : scratch[f] \in Content
    /\ pid \in [Process -> Pid]
    /\ sequence \in [Process -> Nat]
    /\ pc \in [Thread -> Point]
    /\ call \in [Thread -> Call]
    /\ reply \in [Thread -> Reply]
    /\ hazards \in [Hazard -> Nat]

(* The least-recently-used queue names exactly the retained keys, each     *)
(* once, and the byte counter is the sum of the retained sizes, after any  *)
(* interleaving of hits, insertions and evictions by the sharing threads   *)
(* (memory_get, memory_insert, touch).                                     *)
MemoryConsistent ==
    \A p \in Process :
        /\ IsInjective(order[p]) /\ Range(order[p]) = Retained(p)
        /\ retained[p] = MapThenSumSet(LAMBDA k : Size[k], Retained(p))

(* Whenever the mutex is free the cache is within both of its limits.      *)
WithinLimits ==
    \A p \in Process : mutex[p] = None =>
        Cardinality(Retained(p)) <= MaxEntries /\ retained[p] <= MaxBytes

(* Eviction never reaches the entry it makes room for, and what            *)
(* memory_insert hands out is the allocation the cache retains, so that    *)
(* concurrent compilations of one key end with one shared Arc.             *)
InsertedIsRetained ==
    \A t \in Thread : pc[t] = "evict" =>
        LET kept == entries[ProcessOf[t]][call[t].key] IN
        /\ kept # None
        /\ ~KeepsOwn(t) => kept = call[t].artifact

(* Memory holds only artifacts under the key they were compiled for, and   *)
(* never under a requested name the source does not define.                *)
OnlyCanonicalRetained ==
    \A p \in Process : \A k \in Retained(p) : k \in Compilable /\ entries[p][k].key = k

(* Two threads never write under one temporary name, and a file about to   *)
(* be renamed is complete: create_new, the process id and                  *)
(* TEMP_FILE_SEQUENCE together, although ids come back after a crash.      *)
ScratchExclusive ==
    \A t \in Thread : pc[t] \in {"write", "rename"} =>
        /\ ScratchOf(t) \in DOMAIN scratch
        /\ pc[t] = "rename" => scratch[ScratchOf(t)] = Whole(call[t].key)
        /\ \A u \in Thread \ {t} :
              pc[u] \in {"write", "rename", "cleanup"} => ScratchOf(u) # ScratchOf(t)

(* A temporary file no live request will rename or remove was left behind  *)
(* by a crash or by a failed removal, one file for each (with one thread   *)
(* per process): the error paths of persistent_insert leak nothing.        *)
LeftoversPaidFor ==
    LET leftover == { f \in DOMAIN scratch :
                        \A t \in Thread : pc[t] \in {"write", "rename", "cleanup"} => ScratchOf(t) # f }
    IN  Cardinality(leftover) <= hazards["crash"] + hazards["unlink"]

(* "Atomic rename still prevents readers from observing a partially        *)
(* written final entry": when only the caches write the directory, every   *)
(* final file is complete and filed under its own key, through crashes and *)
(* failing calls.                                                          *)
NoTornEntry == \A k \in Key : entry[k] \in {None, Whole(k)}

(* When only the caches write the directory, no cache ever removes or      *)
(* spoils a final file: persistent_get deletes only what does not decode.  *)
EntryStays == [][\A k \in Key : entry[k] = Whole(k) => entry'[k] = Whole(k)]_vars

(* Corrupt or stale files found at the start are regenerated: once a       *)
(* request has compiled a key and stored it, a valid file is in place, or  *)
(* another request that is still to store one has just removed it.  So it  *)
(* is until something goes wrong with the directory again.                 *)
Restoring == {"remove", "resolve", "compile", "check", "create", "write", "rename"}

Regenerated ==
    Persistent /\ SumFunction(hazards) = 0 => \A t \in Thread :
        LET k == call[t].key IN
        (pc[t] \in {"insert", "evict"} /\ call[t].source = "compiled" /\ k \in Storable) =>
            \/ entry[k] = Whole(k)
            \/ \E u \in Thread : pc[u] \in Restoring /\ call[u].key = k

(* Every answer is what compiling the request from scratch gives: a hit in *)
(* either tier, however damaged the directory and whatever fails, returns  *)
(* the artifact of the resolved key, and only a compile error is an error. *)
AnswerOf(r) ==
    LET k == IF r.resolving THEN Resolve(r.key) ELSE r.key IN
    IF k \in Compilable THEN k ELSE Failure

Service == INSTANCE CompileService WITH
    Answer <- AnswerOf,
    NoAnswer <- None,
    wanted <- [t \in Thread |-> [resolving |-> call[t].resolving, key |-> call[t].asked]],
    answer <- [t \in Thread |-> IF reply[t].outcome \in {None, Failure} THEN reply[t].outcome
                                ELSE reply[t].outcome.key]

ServiceSpec == Service!Spec

(* Every request ends, by an answer or by the death of its process: the    *)
(* eviction loop terminates and nobody waits for the mutex for ever.       *)
Answered == \A t \in Thread : pc[t] # "idle" ~> pc[t] = "idle"
=============================================================================
