CONSTANTS
    t1 = t1
    t2 = t2
    d1 = d1
    d2 = d2
    Transactions <- MCTransactions
    Documents <- MCDocuments
    Kinds <- MCKinds
    EnvironmentIds <- MCIds
    Limits <- MCLimits
SPECIFICATION Spec
INVARIANTS
    DocumentLocksNeverCycle
    DocumentFirstNeverDeadlocks
    LiveStockWithinLimit
SYMMETRY LockSymmetry
PROPERTIES
    ImplementsSerialReleases
