----------------------------- MODULE DropMeter -----------------------------
(***************************************************************************)
(* What a reading program promises of its drop counter, whatever arrives   *)
(* and in whatever order: when it has counted a datagram, the number of    *)
(* dropped datagrams it shows is the number after the last one counted,    *)
(* less the number of datagrams it has counted, modulo the word size.      *)
(*                                                                         *)
(* The programs keep the counter by adding up differences between the      *)
(* number they find and the number they expect; this is the closed form of *)
(* that sum, and TrendReader is shown to implement it.                     *)
(***************************************************************************)
EXTENDS Words

VARIABLES
    expected,   \* number the next datagram should carry
    dropped,    \* datagrams reported as dropped so far
    counted,    \* datagrams counted so far
    running     \* the program has not ended

meterVars == <<expected, dropped, counted, running>>

MeterInit ==
    /\ expected = 0
    /\ dropped = 0
    /\ counted = 0
    /\ running = TRUE

\* One datagram numbered s is counted.
Count(s) ==
    /\ running
    /\ expected' = Succ(s)
    /\ counted' = Succ(counted)
    /\ dropped' = Minus(expected', counted')
    /\ UNCHANGED running

Stop ==
    /\ running
    /\ running' = FALSE
    /\ UNCHANGED <<expected, dropped, counted>>

MeterNext ==
    \/ \E s \in Word : Count(s)
    \/ Stop

MeterSpec == MeterInit /\ [][MeterNext]_meterVars
=============================================================================
