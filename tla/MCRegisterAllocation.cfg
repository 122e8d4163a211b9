SPECIFICATION FairSpec
CONSTANTS
    Files = {"GPR", "Pred", "Mem"}
    FileOrder <- MCFileOrder
    Effects = {"store", "bra", "regout"}
    Shaders <- MCShaders
    MinGprs <- MCMinGprs
    ExtraGprs = {0}
    TotalRegs = 8192
    WarpsPerSm = 64
    Granule = 2
    SignBit = 4
    TargetFree = 1
INVARIANTS
    OnlyDeadRemoved
    StructureIsReal
    LivenessIsReal
    PhisAreConventional
    SpillingFits
    SsaIsRepaired
    NeverStuck
    OperandsInPlace
    WebsAreConnected
PROPERTIES
    SourcesKeepMeaning
    Analysed
