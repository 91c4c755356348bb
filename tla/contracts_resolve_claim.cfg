CONSTANTS
    contract1 = contract1
    contract2 = contract2
    foreign1 = foreign1
    U64Max = 7
    Ids <- MCOwn
    Foreign <- MCNone
    Purgeable <- MCOwn
    Mismatched <- MCNone
    Reported <- MCReported
SPECIFICATION Spec
PROPERTIES
    ConsumeResolves
