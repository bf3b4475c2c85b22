\* Every interleaving of the loop, its signals and arriving datagrams.
SPECIFICATION Spec
CONSTANTS
    Modulus = 3
    BufSize = 2
    Lens <- AllLens
    RcvBuf = 1
INVARIANTS
    TypeOK
    Accounting
    ReportsAddUp
PROPERTY
    ImplementsMeter
CHECK_DEADLOCK FALSE
