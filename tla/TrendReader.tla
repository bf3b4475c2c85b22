---------------------------- MODULE TrendReader ----------------------------
(***************************************************************************)
(* udp-read-trend: one process that asks a server for a stream, then reads *)
(* datagrams in a loop and counts bytes, datagrams and gaps in numbering.  *)
(*                                                                         *)
(* Two signal handlers interrupt the loop.  sig_alarm raises a flag that   *)
(* the loop tests once per turn; sig_int prints the totals and exits, at   *)
(* any instruction.  The totals are plain globals that the handler reads   *)
(* while the loop writes them, so the three stores of a turn may reach     *)
(* memory in any order the compiler likes: they are three separate steps.  *)
(*                                                                         *)
(* The socket's peer is the environment: any datagram may arrive at any    *)
(* time, in any order, and an ICMP error may.  Lengths are counted in      *)
(* words of 8 bytes, the size of the sequence number at the front.         *)
(***************************************************************************)
EXTENDS Words, Sequences, FiniteSets

CONSTANTS
    BufSize,    \* arg_to_server.bufsize, the length the reader asks for
    Lens,       \* lengths of the datagrams that arrive
    RcvBuf      \* datagrams the kernel queues on the socket

ASSUME ReaderAssumption ==
    /\ BufSize \in Word
    /\ Lens \subseteq Nat
    /\ RcvBuf \in Nat

VARIABLES
    pc,                      \* where the process is
    has_alarm,               \* raised by sig_alarm
    rcvq, so_error,          \* the socket: queued datagrams, pending error
    read_buf,                \* first word of read_buf
    nleft,                   \* readn's nleft
    gap,                     \* seq_num - total_read_counter, until stored
    pend,                    \* globals of this turn not stored yet
    total_read_bytes, total_drop_counter, total_read_counter,
    interval_read_bytes, interval_drop_counter, interval_read_counter,
    reported,                \* history: sums of the printed intervals
    counted                  \* history: turns of the loop that counted

socket    == <<rcvq, so_error>>
locals    == <<read_buf, nleft, gap, pend>>
totals    == <<total_read_bytes, total_drop_counter, total_read_counter>>
intervals == <<interval_read_bytes, interval_drop_counter,
               interval_read_counter>>
history   == <<reported, counted>>
vars      == <<pc, has_alarm, socket, locals, totals, intervals, history>>

Globals   == {"bytes", "drop", "counter"}
Datagrams == [seq : Word, len : Lens]
Ended     == {"summary", "failed"}

-----------------------------------------------------------------------------
Init ==
    /\ pc = "setup"
    /\ has_alarm = FALSE
    /\ rcvq = <<>>
    /\ so_error = FALSE
    /\ read_buf \in Word            \* never initialised
    /\ nleft = 0
    /\ gap = 0
    /\ pend = {}
    /\ total_read_bytes = 0
    /\ total_drop_counter = 0
    /\ total_read_counter = 0
    /\ interval_read_bytes = 0
    /\ interval_drop_counter = 0
    /\ interval_read_counter = 0
    /\ reported = [bytes |-> 0, drop |-> 0, count |-> 0]
    /\ counted = 0

\* Socket, connect, first packet, handlers and timer, in that order; any of
\* the calls may fail, and the program then gives up.
Setup ==
    /\ pc = "setup"
    /\ pc' \in {"top", "failed"}
    /\ UNCHANGED <<has_alarm, socket, locals, totals, intervals, history>>

-----------------------------------------------------------------------------
(***************************************************************************)
(* The loop.                                                               *)
(***************************************************************************)

\* Mistakes a report could make: the flag is not lowered; the drops are not set
\* back.
ReportKeepsAlarm ==
    /\ UNCHANGED <<has_alarm, reported, intervals>>

ReportKeepsDrops ==
    /\ has_alarm' = FALSE
    /\ reported' = [bytes |-> Plus(reported.bytes, interval_read_bytes),
                    drop  |-> Plus(reported.drop, interval_drop_counter),
                    count |-> Plus(reported.count, interval_read_counter)]
    /\ interval_read_bytes' = 0
    /\ interval_read_counter' = 0
    /\ UNCHANGED interval_drop_counter

\* One report line: the interval counters are printed and start again.
Report ==
    /\ has_alarm' = FALSE
    /\ reported' = [bytes |-> Plus(reported.bytes, interval_read_bytes),
                    drop  |-> Plus(reported.drop, interval_drop_counter),
                    count |-> Plus(reported.count, interval_read_counter)]
    /\ interval_read_bytes' = 0
    /\ interval_drop_counter' = 0
    /\ interval_read_counter' = 0

\* The top of a turn: report if an alarm came, then call readn.
StartTurn ==
    /\ pc = "top"
    /\ \/ has_alarm /\ Report
       \/ ~has_alarm /\ UNCHANGED <<has_alarm, reported, intervals>>
    /\ pc' = "readn"
    /\ nleft' = BufSize
    /\ UNCHANGED <<socket, read_buf, gap, pend, totals, counted>>

\* What readn returns.
n == BufSize - nleft

\* A mistake: a number behind the expected one is taken for no gap.
BeginCountAhead ==
    LET g == IF read_buf > total_read_counter
             THEN read_buf - total_read_counter ELSE 0 IN
    /\ pc' = "count"
    /\ pend' = Globals
    /\ gap' = g
    /\ interval_read_bytes' = Plus(interval_read_bytes, n)
    /\ interval_drop_counter' = Plus(interval_drop_counter, g)
    /\ interval_read_counter' = Succ(interval_read_counter)
    /\ counted' = Succ(counted)
    /\ UNCHANGED <<has_alarm, read_buf, nleft, totals, reported>>

\* readn has returned.  The interval counters are locals of the loop, so they
\* move at once; the globals are left to the stores that follow.  When the
\* number is the expected one gap is 0 and the drop counters stay.
BeginCount ==
    LET g == Minus(read_buf, total_read_counter) IN
    /\ pc' = "count"
    /\ pend' = Globals
    /\ gap' = g
    /\ interval_read_bytes' = Plus(interval_read_bytes, n)
    /\ interval_drop_counter' = Plus(interval_drop_counter, g)
    /\ interval_read_counter' = Succ(interval_read_counter)
    /\ counted' = Succ(counted)
    /\ UNCHANGED <<has_alarm, read_buf, nleft, totals, reported>>

\* A mistake: the whole length of a cut datagram is taken off nleft.
ReadDataUncut ==
    /\ pc = "readn" /\ nleft > 0
    /\ ~so_error /\ rcvq # <<>>
    /\ Head(rcvq).len > 0
    /\ read_buf' = IF nleft = BufSize THEN Head(rcvq).seq ELSE read_buf
    /\ nleft' = nleft - Head(rcvq).len
    /\ rcvq' = Tail(rcvq)
    /\ UNCHANGED <<pc, has_alarm, so_error, gap, pend, totals, intervals,
                   history>>

\* read() in readn: the kernel reports a pending error before it looks at the
\* queue, and a datagram longer than the room left is cut.
ReadData ==
    /\ pc = "readn" /\ nleft > 0
    /\ ~so_error /\ rcvq # <<>>
    /\ Head(rcvq).len > 0
    /\ read_buf' = IF nleft = BufSize THEN Head(rcvq).seq ELSE read_buf
    /\ nleft' = IF Head(rcvq).len < nleft THEN nleft - Head(rcvq).len ELSE 0
    /\ rcvq' = Tail(rcvq)
    /\ UNCHANGED <<pc, has_alarm, so_error, gap, pend, totals, intervals,
                   history>>

\* nread == 0 leaves readn's loop short; read_buf keeps what it held.
ReadNothing ==
    /\ pc = "readn" /\ nleft > 0
    /\ ~so_error /\ rcvq # <<>>
    /\ Head(rcvq).len = 0
    /\ rcvq' = Tail(rcvq)
    /\ BeginCount
    /\ UNCHANGED so_error

\* readn has filled its n bytes (none, if n is 0).
ReadFull ==
    /\ pc = "readn" /\ nleft = 0
    /\ BeginCount
    /\ UNCHANGED socket

\* A read error other than EINTR ends the program without a summary.
ReadError ==
    /\ pc = "readn" /\ nleft > 0
    /\ so_error
    /\ pc' = "failed"
    /\ UNCHANGED <<has_alarm, socket, locals, totals, intervals, history>>

-----------------------------------------------------------------------------
(***************************************************************************)
(* The stores to the globals.  The last one ends the turn.                 *)
(***************************************************************************)
Stored(x) ==
    /\ pc = "count" /\ x \in pend
    /\ pend' = pend \ {x}
    /\ pc' = IF pend = {x} THEN "top" ELSE "count"
    /\ UNCHANGED <<has_alarm, socket, read_buf, nleft, intervals, history>>

StoreBytes ==
    /\ Stored("bytes")
    /\ total_read_bytes' = Plus(total_read_bytes, n)
    /\ UNCHANGED <<gap, total_drop_counter, total_read_counter>>

StoreDrop ==
    /\ Stored("drop")
    /\ total_drop_counter' = Plus(total_drop_counter, gap)
    /\ gap' = 0                     \* the temporary is dead
    /\ UNCHANGED <<total_read_bytes, total_read_counter>>

\* A mistake: the counter is not moved to the number that was read.
StoreCounterBehind ==
    /\ Stored("counter")
    /\ total_read_counter' = Succ(total_read_counter)
    /\ UNCHANGED <<gap, total_read_bytes, total_drop_counter>>

StoreCounter ==
    /\ Stored("counter")
    /\ total_read_counter' = Succ(read_buf)
    /\ UNCHANGED <<gap, total_read_bytes, total_drop_counter>>

-----------------------------------------------------------------------------
(***************************************************************************)
(* Signals.                                                                *)
(***************************************************************************)

\* SIGALRM.  A read() it interrupts fails with EINTR and readn calls it
\* again, so readn is where it was.
SigAlarm ==
    /\ pc \notin Ended \cup {"setup"}
    /\ has_alarm' = TRUE
    /\ UNCHANGED <<pc, socket, locals, totals, intervals, history>>

\* SIGINT prints the totals as they are in memory and exits; before the
\* handler is installed it kills the program.
SigInt ==
    /\ pc \notin Ended
    /\ pc' = IF pc = "setup" THEN "failed" ELSE "summary"
    /\ UNCHANGED <<has_alarm, socket, locals, totals, intervals, history>>

-----------------------------------------------------------------------------
(***************************************************************************)
(* The environment.                                                        *)
(***************************************************************************)

\* A datagram reaches the socket; one that finds the buffer full is gone.
Arrive ==
    /\ pc \notin Ended \cup {"setup"}
    /\ Len(rcvq) < RcvBuf
    /\ \E d \in Datagrams : rcvq' = Append(rcvq, d)
    /\ UNCHANGED <<pc, has_alarm, so_error, locals, totals, intervals,
                   history>>

\* The request was answered with ICMP port unreachable.
Unreachable ==
    /\ pc \notin Ended \cup {"setup"}
    /\ so_error' = TRUE
    /\ UNCHANGED <<pc, has_alarm, rcvq, locals, totals, intervals, history>>

-----------------------------------------------------------------------------
Loop == \/ StartTurn \/ ReadData \/ ReadNothing \/ ReadFull \/ ReadError
        \/ StoreBytes \/ StoreDrop \/ StoreCounter

Next == Setup \/ Loop \/ SigAlarm \/ SigInt \/ Arrive \/ Unreachable

Spec == Init /\ [][Next]_vars

\* The operating system runs the process.
FairSpec == Spec /\ WF_vars(Loop)

\* The server keeps sending as well.
TrafficSpec == FairSpec /\ WF_vars(Arrive)

-----------------------------------------------------------------------------
(***************************************************************************)
(* Properties.                                                             *)
(***************************************************************************)
TypeOK ==
    /\ pc \in {"setup", "top", "readn", "count"} \cup Ended
    /\ has_alarm \in BOOLEAN
    /\ rcvq \in Seq(Datagrams)
    /\ so_error \in BOOLEAN
    /\ read_buf \in Word
    /\ nleft \in 0 .. BufSize
    /\ gap \in Word
    /\ pend \subseteq Globals
    /\ total_read_bytes \in Word
    /\ total_drop_counter \in Word
    /\ total_read_counter \in Word
    /\ interval_read_bytes \in Word
    /\ interval_drop_counter \in Word
    /\ interval_read_counter \in Word
    /\ reported \in [bytes : Word, drop : Word, count : Word]
    /\ counted \in Word

\* The totals once the stores of the turn have all reached memory.
SettledBytes ==
    IF "bytes" \in pend THEN Plus(total_read_bytes, n) ELSE total_read_bytes
SettledDrop ==
    IF "drop" \in pend THEN Plus(total_drop_counter, gap)
                       ELSE total_drop_counter
SettledCounter ==
    IF "counter" \in pend THEN Succ(read_buf) ELSE total_read_counter

\* However datagrams are lost, repeated or reordered, and wherever the
\* counters wrap, the drops and the datagrams counted add up to the number
\* after the last datagram counted.
Accounting == SettledDrop = Minus(SettledCounter, counted)

\* No datagram is in two report lines or in none: the lines printed so far
\* and the current interval add up to the totals, however alarms coincide
\* with the loop and however many of them share one report.
ReportsAddUp ==
    /\ Plus(reported.bytes, interval_read_bytes) = SettledBytes
    /\ Plus(reported.drop, interval_drop_counter) = SettledDrop
    /\ Plus(reported.count, interval_read_counter) = counted

\* The program with its signals and its stores in any order implements the
\* one-step meter.
Meter == INSTANCE DropMeter WITH
    expected <- SettledCounter,
    dropped  <- SettledDrop,
    running  <- pc \notin Ended

ImplementsMeter == Meter!MeterSpec

\* An alarm is followed by its report line (the README's line every second).
AlarmAnswered == has_alarm ~> (~has_alarm \/ pc \in Ended)
=============================================================================
