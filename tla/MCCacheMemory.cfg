\* Two threads share one in-memory cache that holds two of three artifacts.
SPECIFICATION FairSpec
CONSTANTS
    p1 = p1  p2 = p2  t1 = t1  t2 = t2
    a = a  b = b  c = c  main = main  other = other
    None = None
    Failure = Failure
    Garbage = Garbage
    Process = {p1}
    Thread = {t1, t2}
    ProcessOf <- MCOneProcess
    Source = {a, b, c}
    Name = {main}
    EntryPoints <- MCEntryPoints
    Compilable <- MCCompilable
    Storable <- MCCompilable
    Size <- MCSize
    MaxEntries = 2
    MaxBytes = 2
    Persistent = FALSE
    Pid = {1}
    Request <- MemoryRequests
    Environment = {}
    MaxRequests = 3
    MaxHazards = 0
INVARIANTS
    MemoryConsistent
    WithinLimits
    InsertedIsRetained
PROPERTIES
    Answered
CHECK_DEADLOCK FALSE
