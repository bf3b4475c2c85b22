\* Sessions without bound over a lossy network.
SPECIFICATION UFairSpec
CONSTANTS
    a = a
    b = b
    nobody = nobody
    Modulus = 2
    Peers <- Readers
    Nobody = nobody
    Requests <- TwoRequests
    MaxDatagram = 2
    HeapBuffers = 4
    SockQueue = 2
    Faults = FALSE
    RequestOf <- OneEach
    Network <- Lossy
    NetQueue = 1
    RcvBuf = 1
    MaxSends = 2
    Alarms = FALSE
PROPERTIES
    GoneReaderIsLeft
    
CHECK_DEADLOCK FALSE
