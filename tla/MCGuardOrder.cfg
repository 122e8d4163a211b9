\* Conditional stores, whose predicate register is used again.
SPECIFICATION Spec
CONSTANTS
    a = a
    b = b
    p = p
    Registers = {a, b, p}
    Predicates = {p}
    NumBars = 6
    Instructions <- ConditionalStores
    Layouts <- MCLayouts
    MaxInstrs = 5
    MaxIssues = 6
PROPERTY GuardsKeepOrder
CHECK_DEADLOCK FALSE
