SPECIFICATION Spec
CONSTANTS
    U64Max = 3
    Initial <- InitialDef
    Utxos <- UtxosDef
    Wouts = {"w"}
    AuthTokens = {"t"}
    Scripts <- ScriptsDef
    PayeeKnows = {"A"}
    MaxTx = 2
    MaxRequests = 2
    MaxUsed = 2
INVARIANTS
    TypeOK
    Conserved
    LeftOnlyOverflow
    MadeToPass
    Accounted
PROPERTIES
    ImplementsPurse
CHECK_DEADLOCK FALSE
