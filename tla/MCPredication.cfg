CONSTANTS
    lane1 = lane1  lane2 = lane2
    zero = zero  written = written
    one = one  two = two  three = three
    x = x
    Lanes = {lane1, lane2}
    Locals = {x}
    Values = {zero, written}
    Zero = zero
    Selectors = {one, two, three}
    Default = Default
    Argument = Argument
    NoPointer = NoPointer
    NoValue = NoValue
    Operands <- MCOperands
    Conditions <- MCConditions
    Selections <- MCSelections
    Switches <- MCSwitches
    StoreAfterReturn = FALSE
    ReturnAfterBreak = FALSE
    MaxStatements = 7
    MaxDepth = 4
SPECIFICATION Spec
INVARIANTS MaskIsLive LocalsAreOwn EffectsAreOwn ValueIsOwn WritesArePreserved
SYMMETRY LaneSymmetry
CHECK_DEADLOCK FALSE
