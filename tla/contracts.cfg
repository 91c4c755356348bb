CONSTANTS
    contract1 = contract1
    contract2 = contract2
    foreign1 = foreign1
    U64Max = 7
    Ids <- MCIds
    Foreign <- MCForeign
    Purgeable <- MCIds
    Mismatched <- MCMismatched
    Reported <- MCReported
SPECIFICATION Spec
INVARIANTS
    TypeOK
    CacheBacked
PROPERTIES
    SyncReachesDisk
    OnlyPurgeLoses
