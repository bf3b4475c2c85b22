----------------------------- MODULE MmsgTrend -----------------------------
(***************************************************************************)
(* udp-mmsg-trend: the reader of TrendReader with one system call for many *)
(* datagrams.  recvmmsg fills up to VLen slots of msgvec and returns how   *)
(* many; the loop then counts slot after slot.  A report line is printed   *)
(* every ReportEvery batches, by counting calls: the timer is never set.   *)
(*                                                                         *)
(* The slots are cleared once and used again by every batch.  The kernel   *)
(* writes only the bytes of the datagram, so a slot that received an empty *)
(* one still holds the number of an earlier batch, and get_seq_num, which  *)
(* ignores the length, counts that number.                                 *)
(*                                                                         *)
(* The call has no time limit: it returns when all slots are filled, or    *)
(* when an error is found behind at least one datagram; the error is then  *)
(* kept for the next call.  Lengths are counted in words of 8 bytes.  What *)
(* a queued datagram holds is chosen when the kernel takes it off the      *)
(* queue, since anything may have arrived.                                 *)
(***************************************************************************)
EXTENDS Words

CONSTANTS
    BufSize,     \* arg_to_server.bufsize, the length of a slot
    Lens,        \* lengths of the datagrams that arrive
    RcvBuf,      \* datagrams the kernel queues on the socket
    VLen,        \* slots of msgvec (option -l)
    ReportEvery  \* batches between two report lines (1000)

ASSUME MmsgAssumption ==
    /\ BufSize \in Word
    /\ Lens \subseteq Nat
    /\ RcvBuf \in Nat
    /\ VLen \in Nat
    /\ ReportEvery \in Nat \ {0, 1}

VARIABLES
    pc,                      \* where the process is
    rcvq, so_error,          \* the socket: datagrams queued, pending error
    slot, msg_len,           \* msgvec: first word and length of each slot
    n,                       \* slots filled; in the end what recvmmsg returns
    i,                       \* the slot being counted
    gap,                     \* seq_num - total_read_counter, until stored
    pend,                    \* globals of slot i not stored yet
    recvmmsg_count,          \* modulo ReportEvery
    total_read_bytes, total_drop_counter, total_read_counter,
    interval_read_bytes, interval_drop_counter, interval_read_counter,
    reported,                \* history: sums of the printed intervals
    counted,                 \* history: turns of the inner loop
    owed                     \* history: arrived less counted

socket    == <<rcvq, so_error>>
msgvec    == <<slot, msg_len>>
locals    == <<gap, pend, i>>
totals    == <<total_read_bytes, total_drop_counter, total_read_counter>>
intervals == <<interval_read_bytes, interval_drop_counter,
               interval_read_counter>>
history   == <<reported, counted, owed>>
vars      == <<pc, socket, msgvec, n, locals, recvmmsg_count, totals,
               intervals, history>>

Slots   == 0 .. (VLen - 1)
Globals == {"bytes", "drop", "counter"}
Ended   == {"summary", "failed"}

-----------------------------------------------------------------------------
\* malloc and memset: the slots are cleared as far as they reach.
Init ==
    /\ pc = "setup"
    /\ rcvq = 0
    /\ so_error = FALSE
    /\ slot \in [Slots -> IF BufSize > 0 THEN {0} ELSE Word]
    /\ msg_len = [k \in Slots |-> 0]
    /\ n = 0
    /\ i = 0
    /\ gap = 0
    /\ pend = {}
    /\ recvmmsg_count = 1
    /\ total_read_bytes = 0
    /\ total_drop_counter = 0
    /\ total_read_counter = 0
    /\ interval_read_bytes = 0
    /\ interval_drop_counter = 0
    /\ interval_read_counter = 0
    /\ reported = [bytes |-> 0, drop |-> 0, count |-> 0]
    /\ counted = 0
    /\ owed = 0

\* Socket, connect, first packet, slots and handlers; a call that fails ends
\* the program.
Setup ==
    /\ pc = "setup"
    /\ pc' \in {"top", "failed"}
    /\ UNCHANGED <<socket, msgvec, n, locals, recvmmsg_count, totals,
                   intervals, history>>

-----------------------------------------------------------------------------
(***************************************************************************)
(* The loop.                                                               *)
(***************************************************************************)

\* A mistake: the interval's datagrams are not set back.
ReportKeepsCount ==
    /\ reported' = [bytes |-> Plus(reported.bytes, interval_read_bytes),
                    drop  |-> Plus(reported.drop, interval_drop_counter),
                    count |-> Plus(reported.count, interval_read_counter)]
    /\ interval_read_bytes' = 0
    /\ interval_drop_counter' = 0
    /\ UNCHANGED interval_read_counter

\* One report line: the interval counters are printed and start again.
Report ==
    /\ reported' = [bytes |-> Plus(reported.bytes, interval_read_bytes),
                    drop  |-> Plus(reported.drop, interval_drop_counter),
                    count |-> Plus(reported.count, interval_read_counter)]
    /\ interval_read_bytes' = 0
    /\ interval_drop_counter' = 0
    /\ interval_read_counter' = 0

\* The top of a turn: a report when the count of calls is a multiple of
\* ReportEvery, then recvmmsg.
StartTurn ==
    /\ pc = "top"
    /\ \/ recvmmsg_count = 0 /\ Report
       \/ recvmmsg_count # 0 /\ UNCHANGED <<reported, intervals>>
    /\ pc' = "recv"
    /\ n' = 0
    /\ UNCHANGED <<socket, msgvec, locals, recvmmsg_count, totals, counted,
                   owed>>

\* A mistake: a datagram longer than the slot is taken whole.
FillSlotUncut ==
    /\ pc = "recv" /\ n < VLen
    /\ ~so_error /\ rcvq > 0
    /\ \E seq \in Word, len \in Lens :
          /\ slot' = [slot EXCEPT ![n] =
                         IF len > 0 /\ BufSize > 0 THEN seq ELSE @]
          /\ msg_len' = [msg_len EXCEPT ![n] = len]
    /\ rcvq' = rcvq - 1
    /\ n' = n + 1
    /\ UNCHANGED <<pc, so_error, locals, recvmmsg_count, totals, intervals,
                   history>>

\* The kernel moves one datagram into the next slot and cuts what does not
\* fit.  An empty one leaves the slot as it was.
FillSlot ==
    /\ pc = "recv" /\ n < VLen
    /\ ~so_error /\ rcvq > 0
    /\ \E seq \in Word, len \in Lens :
          /\ slot' = [slot EXCEPT ![n] =
                         IF len > 0 /\ BufSize > 0 THEN seq ELSE @]
          /\ msg_len' = [msg_len EXCEPT ![n] =
                            IF len < BufSize THEN len ELSE BufSize]
    /\ rcvq' = rcvq - 1
    /\ n' = n + 1
    /\ UNCHANGED <<pc, so_error, locals, recvmmsg_count, totals, intervals,
                   history>>

\* A mistake: it waits for all slots even when an error is pending.
RecvWaits ==
    /\ pc = "recv"
    /\ n = VLen
    /\ n > 0 \/ ~so_error
    /\ pc' = "batch"
    /\ UNCHANGED <<socket, msgvec, n, locals, recvmmsg_count, totals,
                   intervals, history>>

\* recvmmsg returns what it has: all slots, or fewer when an error ends the
\* batch; the error stays pending.
RecvReturns ==
    /\ pc = "recv"
    /\ n = VLen \/ so_error
    /\ n > 0 \/ ~so_error
    /\ pc' = "batch"
    /\ UNCHANGED <<socket, msgvec, n, locals, recvmmsg_count, totals,
                   intervals, history>>

\* An error before the first datagram is returned: no summary is printed.
RecvFails ==
    /\ pc = "recv" /\ n = 0
    /\ so_error
    /\ pc' = "failed"
    /\ UNCHANGED <<socket, msgvec, n, locals, recvmmsg_count, totals,
                   intervals, history>>

\* A mistake: an empty datagram is taken to carry the expected number.
CountSlotByLength ==
    LET g == IF msg_len[i] = 0 THEN 0 ELSE Minus(slot[i], total_read_counter)
    IN
    /\ pc = "batch" /\ pend = {} /\ i < n
    /\ pend' = Globals
    /\ gap' = g
    /\ interval_read_bytes' = Plus(interval_read_bytes, msg_len[i])
    /\ interval_drop_counter' = Plus(interval_drop_counter, g)
    /\ interval_read_counter' = Succ(interval_read_counter)
    /\ counted' = Succ(counted)
    /\ owed' = owed - 1
    /\ UNCHANGED <<pc, socket, msgvec, n, i, recvmmsg_count, totals, reported>>

\* One turn of the inner loop begins: the interval counters are locals and
\* move at once, the globals are left to the stores that follow.
CountSlot ==
    LET g == Minus(slot[i], total_read_counter) IN
    /\ pc = "batch" /\ pend = {} /\ i < n
    /\ pend' = Globals
    /\ gap' = g
    /\ interval_read_bytes' = Plus(interval_read_bytes, msg_len[i])
    /\ interval_drop_counter' = Plus(interval_drop_counter, g)
    /\ interval_read_counter' = Succ(interval_read_counter)
    /\ counted' = Succ(counted)
    /\ owed' = owed - 1
    /\ UNCHANGED <<pc, socket, msgvec, n, i, recvmmsg_count, totals, reported>>

\* The stores to the globals; the last one ends the turn.
Stored(x) ==
    /\ pc = "batch" /\ x \in pend
    /\ pend' = pend \ {x}
    /\ i' = IF pend = {x} THEN i + 1 ELSE i
    /\ UNCHANGED <<pc, socket, msgvec, n, recvmmsg_count, intervals, history>>

StoreBytes ==
    /\ Stored("bytes")
    /\ total_read_bytes' = Plus(total_read_bytes, msg_len[i])
    /\ UNCHANGED <<gap, total_drop_counter, total_read_counter>>

StoreDrop ==
    /\ Stored("drop")
    /\ total_drop_counter' = Plus(total_drop_counter, gap)
    /\ gap' = 0                     \* the temporary is dead
    /\ UNCHANGED <<total_read_bytes, total_read_counter>>

\* A mistake: the counter is not moved to the number that was read.
StoreCounterBehind ==
    /\ Stored("counter")
    /\ total_read_counter' = Succ(total_read_counter)
    /\ UNCHANGED <<gap, total_read_bytes, total_drop_counter>>

StoreCounter ==
    /\ Stored("counter")
    /\ total_read_counter' = Succ(slot[i])
    /\ UNCHANGED <<gap, total_read_bytes, total_drop_counter>>

\* A mistake: the last slot of the batch is forgotten.
EndBatchEarly ==
    /\ pc = "batch" /\ pend = {} /\ i + 1 >= n
    /\ pc' = "top"
    /\ i' = 0                       \* out of scope
    /\ recvmmsg_count' = (recvmmsg_count + 1) % ReportEvery
    /\ UNCHANGED <<socket, msgvec, n, gap, pend, totals, intervals, history>>

EndBatch ==
    /\ pc = "batch" /\ pend = {} /\ i = n
    /\ pc' = "top"
    /\ i' = 0                       \* out of scope
    /\ recvmmsg_count' = (recvmmsg_count + 1) % ReportEvery
    /\ UNCHANGED <<socket, msgvec, n, gap, pend, totals, intervals, history>>

-----------------------------------------------------------------------------
\* SIGINT prints the totals as they are in memory and exits; before the
\* handler is installed it kills the program.
SigInt ==
    /\ pc \notin Ended
    /\ pc' = IF pc = "setup" THEN "failed" ELSE "summary"
    /\ UNCHANGED <<socket, msgvec, n, locals, recvmmsg_count, totals,
                   intervals, history>>

\* A datagram reaches the socket; one that finds the buffer full is gone.
Arrive ==
    /\ pc \notin Ended \cup {"setup"}
    /\ rcvq < RcvBuf
    /\ rcvq' = rcvq + 1
    /\ owed' = owed + 1
    /\ UNCHANGED <<pc, so_error, msgvec, n, locals, recvmmsg_count, totals,
                   intervals, reported, counted>>

\* An ICMP error for a packet of the reader's.
Unreachable ==
    /\ pc \notin Ended \cup {"setup"}
    /\ so_error' = TRUE
    /\ UNCHANGED <<pc, rcvq, msgvec, n, locals, recvmmsg_count, totals,
                   intervals, history>>

-----------------------------------------------------------------------------
Loop == \/ StartTurn \/ FillSlot \/ RecvReturns \/ RecvFails \/ CountSlot
        \/ StoreBytes \/ StoreDrop \/ StoreCounter \/ EndBatch

Next == Setup \/ Loop \/ SigInt \/ Arrive \/ Unreachable

Spec == Init /\ [][Next]_vars

\* The operating system runs the process and the server keeps sending.
TrafficSpec == Spec /\ WF_vars(Setup \/ Loop) /\ WF_vars(Arrive)

-----------------------------------------------------------------------------
(***************************************************************************)
(* Properties.                                                             *)
(***************************************************************************)

\* Every variable of udp-mmsg-trend keeps its type; i and n stay within the
\* slots of msgvec.
TypeOK ==
    /\ pc \in {"setup", "top", "recv", "batch"} \cup Ended
    /\ rcvq \in 0 .. RcvBuf
    /\ so_error \in BOOLEAN
    /\ slot \in [Slots -> Word]
    /\ msg_len \in [Slots -> 0 .. BufSize]
    /\ n \in 0 .. VLen
    /\ i \in 0 .. n
    /\ i > 0 => pc \in {"batch"} \cup Ended
    /\ gap \in Word
    /\ pend \subseteq Globals
    /\ pend # {} => pc \in {"batch"} \cup Ended /\ i < n
    /\ recvmmsg_count \in 0 .. (ReportEvery - 1)
    /\ total_read_bytes \in Word
    /\ total_drop_counter \in Word
    /\ total_read_counter \in Word
    /\ interval_read_bytes \in Word
    /\ interval_drop_counter \in Word
    /\ interval_read_counter \in Word
    /\ reported \in [bytes : Word, drop : Word, count : Word]
    /\ counted \in Word
    /\ owed \in Int

\* The totals once the stores of the turn have all reached memory.
SettledBytes ==
    IF "bytes" \in pend THEN Plus(total_read_bytes, msg_len[i])
                        ELSE total_read_bytes
SettledDrop ==
    IF "drop" \in pend THEN Plus(total_drop_counter, gap)
                       ELSE total_drop_counter
SettledCounter ==
    IF "counter" \in pend THEN Succ(slot[i]) ELSE total_read_counter

\* Batches, stale slots, losses and wrapping notwithstanding, the drops and
\* the datagrams counted add up to the number after the last one counted.
Accounting == SettledDrop = Minus(SettledCounter, counted)

\* The lines printed so far and the current interval add up to the totals.
ReportsAddUp ==
    /\ Plus(reported.bytes, interval_read_bytes) = SettledBytes
    /\ Plus(reported.drop, interval_drop_counter) = SettledDrop
    /\ Plus(reported.count, interval_read_counter) = counted

\* Datagrams taken off the queue and not counted yet.
Taken ==
    CASE pc = "recv"                -> n
      [] pc = "batch" /\ pend = {}  -> n - i
      [] pc = "batch" /\ pend # {}  -> n - i - 1
      [] OTHER                      -> 0

\* A datagram that reached the socket is queued, in a slot of the batch, or
\* counted: no batch cut short by an error loses one or counts one twice.
NothingLostInBatch == pc \notin Ended => owed = rcvq + Taken

\* The program with its batches implements the one-step meter.
Meter == INSTANCE DropMeter WITH
    expected <- SettledCounter,
    dropped  <- SettledDrop,
    running  <- pc \notin Ended

ImplementsMeter == Meter!MeterSpec

\* While the server keeps sending, a datagram the kernel has put into a slot
\* is counted in the end, although recvmmsg has no time limit.
BatchCounted == (pc = "recv" /\ n > 0) ~> (pc \in {"batch"} \cup Ended)

\* While the server keeps sending, report lines keep coming.
ReportsGoOn == []<>((pc = "top" /\ recvmmsg_count = 0) \/ pc \in Ended)
=============================================================================
