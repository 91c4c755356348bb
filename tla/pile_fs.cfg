CONSTANTS
    op1 = op1
    op2 = op2
    tx1 = tx1
    tx2 = tx2
    cell1 = cell1
    U64Max = 7
    Ops <- MCOps
    Wids <- MCWids
    Cells <- MCCells
    Reported <- MCReported
SPECIFICATION Spec
INVARIANTS
    TypeOK
    WriteOrder
PROPERTIES
    ImplementsPile
