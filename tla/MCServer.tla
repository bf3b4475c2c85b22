------------------------------ MODULE MCServer ------------------------------
(***************************************************************************)
(* Values for the constants of Server.  Requests as the programs send      *)
(* them: udp-read-trend's whole structure, udp-mmsg-trend's, which ends    *)
(* before bzsleep_nsec, and one longer than UDP carries.                   *)
(***************************************************************************)
EXTENDS Server

CONSTANTS a, b, nobody

TwoPeers == {a, b}

TrendRequest ==
    [bufsize |-> 1, sleep_usec |-> 0, bzsleep_usec |-> 0, bzsleep_nsec |-> 1]
MmsgRequest == [bufsize |-> 1, sleep_usec |-> 1, bzsleep_usec |-> 0]
LongRequest == [bufsize |-> 2, sleep_usec |-> 0, bzsleep_usec |-> 0]
EmptyRequest == [bufsize |-> 0, sleep_usec |-> 0, bzsleep_usec |-> 0]
NegativeRequest == [bufsize |-> -1, sleep_usec |-> 0, bzsleep_usec |-> 0]

AllRequests ==
    {TrendRequest, MmsgRequest, LongRequest, EmptyRequest, NegativeRequest}
ShortAndLong == {TrendRequest, MmsgRequest}
=============================================================================
