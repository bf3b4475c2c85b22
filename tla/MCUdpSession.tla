---------------------------- MODULE MCUdpSession ----------------------------
(***************************************************************************)
(* Values for the constants of UdpSession: two readers that ask for        *)
(* datagrams of different lengths.                                         *)
(***************************************************************************)
EXTENDS UdpSession, TLC

CONSTANTS a, b, nobody

Readers == {a, b}

Short == [bufsize |-> 1, sleep_usec |-> 0, bzsleep_usec |-> 0, bzsleep_nsec |-> 1]
Long  == [bufsize |-> 2, sleep_usec |-> 0, bzsleep_usec |-> 1]

TwoRequests == {Short, Long}
OneEach == (a :> Short) @@ (b :> Long)

Lossy    == {"loss"}
Unordered == {"reorder"}
=============================================================================
