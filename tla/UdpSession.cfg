\* Two sessions over a network that loses anything and keeps the order.
SPECIFICATION USpec
CONSTANTS
    a = a
    b = b
    nobody = nobody
    Modulus = 5
    Peers <- Readers
    Nobody = nobody
    Requests <- TwoRequests
    MaxDatagram = 2
    HeapBuffers = 4
    SockQueue = 2
    Faults = FALSE
    RequestOf <- OneEach
    Network <- Lossy
    NetQueue = 2
    RcvBuf = 2
    MaxSends = 4
    Alarms = TRUE
INVARIANTS
    UTypeOK
    RefusedOnlyIfGone
    RefusedReaderNotServed
    
    DropsAreLosses
CHECK_DEADLOCK FALSE
