\* Everything that may go wrong, against what callers are promised.
SPECIFICATION Spec
CONSTANTS
    p1 = p1  p2 = p2  t1 = t1  t2 = t2
    a = a  b = b  c = c  main = main  other = other
    None = None
    Failure = Failure
    Garbage = Garbage
    Process = {p1, p2}
    Thread = {t1, t2}
    ProcessOf <- MCTwoProcesses
    Source = {a}
    Name = {main, other}
    EntryPoints <- MCEntryPoints
    Compilable <- MCCompilable
    Storable <- MCCompilable
    Size <- MCSize
    MaxEntries = 1
    MaxBytes = 2
    Persistent = TRUE
    Pid = {1, 2}
    Request <- AliasRequests
    Environment = {"found", "damage", "io", "unlink", "crash"}
    MaxRequests = 2
    MaxHazards = 1
INVARIANTS
    Regenerated
    OnlyCanonicalRetained
PROPERTIES
    ServiceSpec
CHECK_DEADLOCK FALSE
