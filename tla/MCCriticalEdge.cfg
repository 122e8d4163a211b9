SPECIFICATION Spec
CONSTANTS
    Files = {"GPR", "Pred", "Mem"}
    FileOrder <- MCFileOrder
    Effects = {"store", "bra", "regout"}
    Shaders <- ReturningShaders
    MinGprs <- MCSixteen
    ExtraGprs = {0}
    TotalRegs = 8192
    WarpsPerSm = 64
    Granule = 2
    SignBit = 4
    TargetFree = 1
INVARIANTS
    OperandsInPlace
