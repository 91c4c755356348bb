CONSTANTS
    U64Max = 7
    Ops <- RivalOps
    GenesisOp = "genesis"
    Cells <- MCCells
    Definer <- MCDefiner
    Spends <- RivalSpends
    Ancestors <- RivalAncestors
    Wids <- RivalWids
    Carries <- RivalCarries
    SrcSeals <- MCSrcSeals
    CallerSeals <- MCCallerSeals
    Reported <- RivalReported
    MaxChanged = 2
SPECIFICATION Spec
INVARIANTS
    HistoriesConsistent
    ReportedStateValid
PROPERTIES
    OnlyLostWitnessDrops
    ConsumedApplied
