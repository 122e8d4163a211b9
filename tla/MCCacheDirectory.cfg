\* Two processes share a directory that only they write; calls fail, processes die.
SPECIFICATION Spec
CONSTANTS
    p1 = p1  p2 = p2  t1 = t1  t2 = t2
    a = a  b = b  c = c  main = main  other = other
    None = None
    Failure = Failure
    Garbage = Garbage
    Process = {p1, p2}
    Thread = {t1, t2}
    ProcessOf <- MCTwoProcesses
    Source = {a}
    Name = {main}
    EntryPoints <- MCEntryPoints
    Compilable <- MCCompilable
    Storable <- MCCompilable
    Size <- MCSize
    MaxEntries = 0
    MaxBytes = 2
    Persistent = TRUE
    Pid = {1, 2, 3}
    Request <- MemoryRequests
    Environment = {"io", "unlink", "crash"}
    MaxRequests = 2
    MaxHazards = 3
INVARIANTS
    ScratchExclusive
    LeftoversPaidFor
    NoTornEntry
PROPERTIES
    EntryStays
CHECK_DEADLOCK FALSE
