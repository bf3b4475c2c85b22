\* A network that loses nothing but delivers out of order.
SPECIFICATION USpec
CONSTANTS
    a = a
    b = b
    nobody = nobody
    Modulus = 3
    Peers <- Readers
    Nobody = nobody
    Requests <- TwoRequests
    MaxDatagram = 2
    HeapBuffers = 4
    SockQueue = 2
    Faults = FALSE
    RequestOf <- OneEach
    Network <- Unordered
    NetQueue = 2
    RcvBuf = 1
    MaxSends = 3
    Alarms = FALSE
INVARIANT
    DropsAreLosses
CHECK_DEADLOCK FALSE
