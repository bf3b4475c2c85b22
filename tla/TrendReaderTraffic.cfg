\* The server keeps sending, so readn always returns in the end.
SPECIFICATION TrafficSpec
CONSTANTS
    Modulus = 2
    BufSize = 1
    Lens <- AllLens
    RcvBuf = 1
PROPERTY
    AlarmAnswered
CHECK_DEADLOCK FALSE
