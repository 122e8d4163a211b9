CONSTANTS
    a = a
    b = b
    p = p
    Registers = {a, b, p}
    Predicates = {p}
    NumBars = 2
    Instructions <- MCInstructions
    Layouts <- MCLayouts
    MaxInstrs = 5
    MaxIssues = 6
SPECIFICATION Spec
INVARIANTS
    OperandsInPlace
    WritesInOrder
    BarrierExclusive
    DelaysSuffice
PROPERTY ScheduleKeepsOrder
CHECK_DEADLOCK FALSE
