\* One run for the parts with no loop of their own; each of them ends.
SPECIFICATION StartupSpec
CONSTANTS
    Modulus = 32
    Narrow = 16
    Texts <- SomeTexts
    Intervals <- SomeIntervals
    Seconds <- SomeSeconds
    Micros = 4
    MinBuf = 4
    MaxBuf = 6
    DefaultBuf = 7
    Fds = {0, 1}
    Timeouts = {0, 1}
    Waits <- SomeWaits
    MaxTime = 5
INVARIANTS
    
    BufferAsAsked
    
    TimeoutKept
    DescriptorsAccounted
    NeverEarly
CHECK_DEADLOCK FALSE
