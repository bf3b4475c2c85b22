------------------------------ MODULE MCStartup ------------------------------
(***************************************************************************)
(* Start-up, the TCP helpers and the busy waits in one run: a behaviour is *)
(* of one of them, and the others are over before it begins.               *)
(***************************************************************************)
EXTENDS Startup, TcpHelpers, Pacing

\* Without digits, 0, small ones, and one that is out of range; no suffix and
\* two multipliers.
Factors == [num : {NoDigits, 0, 1, 3, 20, 32}, mult : {NoSuffix, 2, 4},
            junk : BOOLEAN]
Plain   == [num : {0, 1, 3, 5}, mult : {NoSuffix, 2}, junk : {FALSE}]

SomeTexts == BoundedSeq(Factors, 2) \cup [1 .. 3 -> Plain]

\* Negative, cut to nothing, half a microsecond too much, and more than a
\* second of 4 microseconds.
SomeIntervals == {-9, -1, 0, 1, 5, 13}

\* -I.
SomeSeconds == {-1, 0, 2}

\* A wait may be negative.
SomeWaits == {-1, 0, 3}

StIdle == /\ prog = "mmsg" /\ rtext = <<>> /\ period = 0 /\ step = "failed"
          /\ so_buf = -1 /\ sockfd = NewSocket /\ handled = {}
          /\ itimer = 0 /\ asked_server = FALSE /\ started = FALSE
HIdle == /\ hpc = "over" /\ fn = "none" /\ open = {} /\ held = {}
         /\ sndtimeo = [f \in Fds |-> 0] /\ mine = sndtimeo
         /\ connected = [f \in Fds |-> "no"] /\ cur = NoFd
         /\ timeout = 0 /\ orig = 0 /\ ret = 0 /\ stuck = {} /\ lost = {}
PIdle == /\ day = MaxTime /\ mono = MaxTime /\ clock = "mono" /\ wait = 0
         /\ target = 0 /\ wpc = "over" /\ began = 0 /\ set_ahead = 0

StartupSpec ==
    /\ \/ StInit /\ HIdle /\ PIdle
       \/ StIdle /\ HInit /\ PIdle
       \/ StIdle /\ HIdle /\ PInit
    /\ [][\/ StNext /\ UNCHANGED <<hvars, pvars>>
          \/ hpc # "over" /\ HNext /\ UNCHANGED <<svars, pvars>>
          \/ wpc # "over" /\ PNext /\ UNCHANGED <<svars, hvars>>
         ]_<<svars, hvars, pvars>>
=============================================================================
