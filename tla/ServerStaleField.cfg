\* A request shorter than the structure after one that fills it.
SPECIFICATION SSpec
CONSTANTS
    a = a
    b = b
    nobody = nobody
    Modulus = 3
    Peers <- TwoPeers
    Nobody = nobody
    Requests <- ShortAndLong
    MaxDatagram = 1
    HeapBuffers = 2
    SockQueue = 1
    Faults = FALSE
INVARIANT
    WaitsAsRequested
