CONSTANTS
    op1 = op1
    op2 = op2
    U64Max = 7
    Op <- MCOp
    History <- MCHistory
    Reported <- MCReported
SPECIFICATION Spec
CHECK_DEADLOCK FALSE
INVARIANTS
    TypeOK
    FoldMeetsFormula
    ArchivedIffDeadAncestor
