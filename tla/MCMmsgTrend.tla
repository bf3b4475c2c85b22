---------------------------- MODULE MCMmsgTrend ----------------------------
(***************************************************************************)
(* Values for the constants of MmsgTrend: two slots, so that a batch can   *)
(* be cut short and a slot can be stale, and a report every second batch.  *)
(***************************************************************************)
EXTENDS MmsgTrend

\* Empty, and longer than BufSize = 1: such a datagram is cut.
TwoLens == {0, 2}
=============================================================================
