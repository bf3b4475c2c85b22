\* Nothing is assumed of the server: it may fall silent.
SPECIFICATION FairSpec
CONSTANTS
    Modulus = 2
    BufSize = 1
    Lens <- AllLens
    RcvBuf = 1
PROPERTY
    AlarmAnswered
CHECK_DEADLOCK FALSE
