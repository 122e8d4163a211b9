--------------------------- MODULE MCCompilerCache --------------------------
(* Instances of CompilerCache for TLC.                                     *)
EXTENDS CompilerCache

CONSTANTS p1, p2, t1, t2, a, b, c, main, other

(* Sources a and b define "main" only; c defines both names.               *)
MCEntryPoints == [s \in Source |-> Name \cap (IF s = c THEN {main, other} ELSE {main})]

MCOneProcess == [t \in Thread |-> p1]
MCTwoProcesses == [t \in Thread |-> IF t = t2 THEN p2 ELSE p1]

K(s, n) == [source |-> s, entry |-> n]
Exact(s, n) == [resolving |-> FALSE, key |-> K(s, n)]
Resolving(s, n) == [resolving |-> TRUE, key |-> K(s, n)]

MCCompilable == { k \in Key : k.entry \in EntryPoints[k.source] }

(* c is twice as large as the others.                                      *)
MCSize == [k \in Key |-> IF k.source = c THEN 2 ELSE 1]

MemoryRequests == { Exact(s, main) : s \in Source }
AliasRequests == {Exact(a, other), Resolving(a, main), Resolving(a, other)}
=============================================================================
