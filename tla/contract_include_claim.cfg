CONSTANTS
    U64Max = 7
    Ops <- BundleOps
    GenesisOp = "genesis"
    Cells <- BundleCells
    Definer <- BundleDefiner
    Spends <- BundleSpends
    Ancestors <- BundleAncestors
    Wids <- BundleWids
    Carries <- BundleCarries
    SrcSeals <- MCSrcSeals
    CallerSeals <- MCCallerSeals
    Reported <- BundleReported
    MaxChanged = 1
SPECIFICATION Spec
PROPERTIES
    IncludeEntersState
