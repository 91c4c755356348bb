CONSTANTS
    U32Max = 4
    MAX_CONSIGNMENT_OPS = 2
    MaxBlocks = 4
SPECIFICATION FairSpec
INVARIANTS
    TypeOK
    AcceptedWhole
    StoredInOrder
PROPERTIES
    ImplementsSource
    GoodAccepted
