\* Batches of two slots with errors, stale slots and the signal; the server
\* keeps sending, as the two temporal properties need.
SPECIFICATION TrafficSpec
CONSTANTS
    Modulus = 3
    BufSize = 1
    Lens <- TwoLens
    RcvBuf = 1
    VLen = 2
    ReportEvery = 2
INVARIANTS
    TypeOK
    Accounting
    ReportsAddUp
    NothingLostInBatch
PROPERTIES
    ImplementsMeter
    
    ReportsGoOn
CHECK_DEADLOCK FALSE
