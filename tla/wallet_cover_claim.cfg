CONSTANTS
    Initial <- MCInitial
    Incoming <- MCIncoming
    Utxos <- MCUtxos
    MaxTx = 2
    MaxRequests = 1
    MaxWritten = 1
SPECIFICATION Spec
CHECK_DEADLOCK FALSE
PROPERTIES
    BundleCovers
