CONSTANTS
    lane1 = lane1  lane2 = lane2
    zero = zero  written = written
    one = one  two = two  three = three
    x = x
    Lanes = {lane1, lane2}
    Locals = {x}
    Values = {zero, written}
    Zero = zero
    Selectors = {one, two, three}
    Default = Default
    Argument = Argument
    NoPointer = NoPointer
    NoValue = NoValue
    Operands <- MCOperands
    Conditions <- MCConditions
    Selections <- MCSelections
    Switches <- NoSwitches
    StoreAfterReturn = TRUE
    ReturnAfterBreak = FALSE
    MaxStatements = 5
    MaxDepth = 5
SPECIFICATION Spec
INVARIANT WritesArePreserved
SYMMETRY LaneSymmetry
CHECK_DEADLOCK FALSE
