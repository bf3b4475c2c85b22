\* One run for the two clients; a client ends, so a behaviour may.
SPECIFICATION ClientsSpec
CONSTANTS
    Modulus = 32
    Narrow = 16
    NumLen = 5
    Octet = 2
    MaxDatagram = 7
    Maxes <- SomeMaxes
    PauseTimes <- SomeTimes
    QueueLen = 2
    MaxLost = 1
    MaxRaw = 2
    NHosts = 3
    ReadSizes <- SomeSizes
    Lengths = {1, 2}
    Room = 1
    CountValues = 3
INVARIANTS CTypeOK  PausesRight ETypeOK NoStaleEvent ServersCounted 
PROPERTIES AlarmPauses EndsIfNothingLost HostsServed
CHECK_DEADLOCK FALSE
