\* Every interleaving of the server with requests, ICMP errors, alarms and
\* failing system calls.
SPECIFICATION SFairSpec
CONSTANTS
    a = a
    b = b
    nobody = nobody
    Modulus = 3
    Peers <- TwoPeers
    Nobody = nobody
    Requests <- AllRequests
    MaxDatagram = 1
    HeapBuffers = 2
    SockQueue = 1
    Faults = TRUE
INVARIANTS
    STypeOK
    NotKilledByOwnTimer
    LinesAddUp
PROPERTIES
    ImplementsIterative
    GivesUpRefused
