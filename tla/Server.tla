------------------------------- MODULE Server -------------------------------
(***************************************************************************)
(* server/server: an iterative UDP server.  Each turn of its outer loop    *)
(* opens and binds a socket, waits for one request, connects the socket to *)
(* the requester and writes numbered datagrams until a write fails; the    *)
(* failure it waits for is ECONNREFUSED, raised by the ICMP error that     *)
(* answers a datagram sent to a socket that is gone.                       *)
(*                                                                         *)
(* A one-second timer runs during a session.  Its handler is installed     *)
(* without SA_RESTART and recvfrom's errors, EINTR included, end the       *)
(* program, so the timer must be quiet whenever the server waits.          *)
(*                                                                         *)
(* The request is read into a global that is never cleared: a datagram     *)
(* shorter than the structure leaves the tail of the previous request.  A  *)
(* request is therefore a function on the fields the datagram covers.      *)
(*                                                                         *)
(* Arrivals and ICMP errors are the environment's; UdpSession replaces it  *)
(* by readers and a network.                                               *)
(***************************************************************************)
EXTENDS Words, Sequences, FiniteSets

CONSTANTS
    Peers, Nobody,  \* addresses requests come from; not an address
    Requests,       \* what their first datagrams carry
    MaxDatagram,    \* longest datagram UDP carries
    HeapBuffers,    \* write buffers that fit in memory
    SockQueue,      \* datagrams the kernel queues on the socket
    Faults          \* system calls may fail for reasons of their own

\* struct arg_to_server
Fields == {"bufsize", "sleep_usec", "bzsleep_usec", "bzsleep_nsec"}
Waits  == Fields \ {"bufsize"}

ASSUME ServerAssumption ==
    /\ Nobody \notin Peers
    /\ \A r \in Requests : \E F \in SUBSET Fields : r \in [F -> Int]
    /\ MaxDatagram \in Nat
    /\ HeapBuffers \in Nat
    /\ SockQueue \in Nat
    /\ Faults \in BOOLEAN

VARIABLES
    spc, cause,             \* where the process is; what ended it
    sk, sk_q, sk_err,       \* the socket: its state, its queue, its error
    cliaddr,                \* peer of the last request
    arg_to_server,          \* the global the requests are read into
    has_alarm, timer,       \* raised by sig_alarm; the timer is armed
    heap,                   \* write buffers allocated
    seq_num,                \* number of the next datagram
    interval_write_count,   \* writes since the last report
    written,                \* history: writes in the lines of this session
    request                 \* history: the request of this session

serverSocket == <<sk, sk_q, sk_err>>
session      == <<cliaddr, arg_to_server, request, heap>>
counters     == <<seq_num, interval_write_count, written>>
svars        == <<spc, cause, serverSocket, session, has_alarm, timer,
                  counters>>

Serving == sk = "connected"

\* What the socket queues.
Queued == [peer : Peers, req : Requests]

-----------------------------------------------------------------------------
SInit ==
    /\ spc = "open"
    /\ cause = "none"
    /\ sk = "none"
    /\ sk_q = <<>>
    /\ sk_err = FALSE
    /\ cliaddr = Nobody
    /\ arg_to_server = [k \in Fields |-> 0]
    /\ has_alarm = FALSE
    /\ timer = FALSE
    /\ heap = 0
    /\ seq_num = 0
    /\ interval_write_count = 0
    /\ written = 0
    /\ request = [k \in Fields |-> 0]

Exit(why) ==
    /\ spc' = "exited"
    /\ cause' = why
    /\ timer' = FALSE
    /\ sk' = "none"
    /\ sk_q' = <<>>
    /\ sk_err' = FALSE
    /\ UNCHANGED <<session, has_alarm, counters>>

\* udp_socket and my_bind.
OpenSocket ==
    /\ spc = "open"
    /\ spc' = "recvfrom"
    /\ sk' = "bound"
    /\ UNCHANGED <<cause, sk_q, sk_err, session, has_alarm, timer, counters>>

\* A mistake: the structure is filled by the first request only.
ReceivedOnce(req) ==
    [k \in Fields |-> IF k \in DOMAIN req /\ arg_to_server.bufsize = 0
                      THEN req[k] ELSE arg_to_server[k]]

\* recvfrom overwrites as much of the structure as the datagram covers.
Received(req) ==
    [k \in Fields |-> IF k \in DOMAIN req THEN req[k] ELSE arg_to_server[k]]

RecvRequest ==
    /\ spc = "recvfrom" /\ sk_q # <<>>
    /\ spc' = "connect"
    /\ cliaddr' = Head(sk_q).peer
    /\ arg_to_server' = Received(Head(sk_q).req)
    /\ request' = Head(sk_q).req
    /\ sk_q' = Tail(sk_q)
    /\ UNCHANGED <<cause, sk, sk_err, heap, has_alarm, timer, counters>>

\* A mistake: malloc's result is not looked at.
BufferTaken == arg_to_server.bufsize >= 0

\* malloc fails when memory is full, and for a negative size, which it takes
\* for a huge one.
BufferFits == heap < HeapBuffers /\ arg_to_server.bufsize >= 0

NoBuffer ==
    /\ spc = "connect" /\ ~BufferFits
    /\ Exit("malloc")

\* Mistakes: a counter that outlives its session.
StartKeepsNumber ==
    /\ spc = "connect" /\ BufferFits
    /\ spc' = "top"
    /\ sk' = "connected"
    /\ heap' = heap + 1
    /\ timer' = TRUE
    /\ interval_write_count' = 0
    /\ written' = 0
    /\ UNCHANGED <<cause, sk_q, sk_err, cliaddr, arg_to_server, request,
                   has_alarm, seq_num>>

StartKeepsInterval ==
    /\ spc = "connect" /\ BufferFits
    /\ spc' = "top"
    /\ sk' = "connected"
    /\ heap' = heap + 1
    /\ timer' = TRUE
    /\ seq_num' = 0
    /\ written' = 0
    /\ UNCHANGED <<cause, sk_q, sk_err, cliaddr, arg_to_server, request,
                   has_alarm, interval_write_count>>

\* malloc, connect, handler and timer.  The queue keeps the requests that came
\* from other peers before the connect.
StartSession ==
    /\ spc = "connect" /\ BufferFits
    /\ spc' = "top"
    /\ sk' = "connected"
    /\ heap' = heap + 1
    /\ timer' = TRUE
    /\ seq_num' = 0
    /\ interval_write_count' = 0
    /\ written' = 0
    /\ UNCHANGED <<cause, sk_q, sk_err, cliaddr, arg_to_server, request,
                   has_alarm>>

\* The top of a turn; a report line if an alarm came.
CheckAlarm ==
    /\ spc = "top"
    /\ spc' = "writen"
    /\ IF has_alarm
       THEN /\ has_alarm' = FALSE
            /\ written' = Plus(written, interval_write_count)
            /\ interval_write_count' = 0
       ELSE UNCHANGED <<has_alarm, written, interval_write_count>>
    /\ UNCHANGED <<cause, serverSocket, session, timer, seq_num>>

\* writen returns, with no write() at all when bufsize is 0.
Counted ==
    /\ spc' = "wait"
    /\ seq_num' = Succ(seq_num)
    /\ interval_write_count' = Succ(interval_write_count)
    /\ UNCHANGED <<cause, serverSocket, session, has_alarm, timer, written>>

WriteNothing ==
    /\ spc = "writen" /\ arg_to_server.bufsize = 0
    /\ Counted

\* write() sends one datagram of bufsize bytes.
WriteDatagram ==
    /\ spc = "writen" /\ arg_to_server.bufsize \in 1 .. MaxDatagram
    /\ ~sk_err
    /\ Counted

\* A mistake: a failed write is logged and the session goes on.
WriteFailsAndGoesOn ==
    /\ spc = "writen" /\ arg_to_server.bufsize > 0
    /\ sk_err \/ arg_to_server.bufsize > MaxDatagram \/ Faults
    /\ spc' = "wait"
    /\ sk_err' = FALSE
    /\ UNCHANGED <<cause, sk, sk_q, session, has_alarm, timer, counters>>

\* write() fails: with the pending error, which it takes from the socket; with
\* EMSGSIZE; or for another reason.
WriteFails ==
    /\ spc = "writen" /\ arg_to_server.bufsize > 0
    /\ sk_err \/ arg_to_server.bufsize > MaxDatagram \/ Faults
    /\ spc' = "close"
    /\ sk_err' = FALSE
    /\ UNCHANGED <<cause, sk, sk_q, session, has_alarm, timer, counters>>

\* usleep, bz_usleep and bz_nanosleep, those that were asked for; they all end.
Wait ==
    /\ spc = "wait"
    /\ spc' = "top"
    /\ UNCHANGED <<cause, serverSocket, session, has_alarm, timer, counters>>

\* The waits of a turn.
WaitsMade == {k \in Waits : arg_to_server[k] > 0}

\* END: what is queued on the socket is discarded.
CloseSocket ==
    /\ spc = "close"
    /\ spc' = "disarm"
    /\ sk' = "none"
    /\ sk_q' = <<>>
    /\ sk_err' = FALSE
    /\ UNCHANGED <<cause, session, has_alarm, timer, counters>>

\* A mistake: the timer is left running.
DisarmNothing ==
    /\ spc = "disarm"
    /\ spc' = "open"
    /\ UNCHANGED <<cause, serverSocket, session, has_alarm, timer, counters>>

Disarm ==
    /\ spc = "disarm"
    /\ spc' = "open"
    /\ timer' = FALSE
    /\ UNCHANGED <<cause, serverSocket, session, has_alarm, counters>>

\* socket, bind, recvfrom, connect or close fails, and the program exits.
SyscallFails ==
    /\ Faults /\ spc \in {"open", "recvfrom", "connect", "close"}
    /\ Exit("fault")

-----------------------------------------------------------------------------
\* The timer expires and sig_alarm raises the flag.  An interrupted write() is
\* called again by writen, and the waits just end early; but recvfrom, waiting
\* on an empty queue, fails with EINTR.
SigAlarm ==
    /\ timer
    /\ IF spc = "recvfrom" /\ sk_q = <<>>
       THEN Exit("EINTR")
       ELSE /\ has_alarm' = TRUE
            /\ UNCHANGED <<spc, cause, serverSocket, session, timer, counters>>

\* A mistake: the socket is not connected and hears everybody.
HearsAll(p) == sk # "none"

\* A connected socket hears only its peer.
Hears(p) == sk = "bound" \/ (sk = "connected" /\ p = cliaddr)

\* A request reaches the socket, and is lost if the queue is full.
Deliver(p, req) ==
    /\ Hears(p)
    /\ sk_q' = IF Len(sk_q) < SockQueue
               THEN Append(sk_q, [peer |-> p, req |-> req]) ELSE sk_q
    /\ UNCHANGED <<spc, cause, sk, sk_err, session, has_alarm, timer, counters>>

\* Mistakes: a socket that learns of errors about anybody, or of none.
RefusedByAny(p) ==
    /\ sk_err' = (sk_err \/ sk = "connected")
    /\ UNCHANGED <<spc, cause, sk, sk_q, session, has_alarm, timer, counters>>

RefusedByNone(p) == UNCHANGED svars

\* An ICMP error about a datagram sent to p: a socket that is not connected,
\* or is connected to another peer, does not take it.
Refused(p) ==
    /\ sk_err' = (sk_err \/ (sk = "connected" /\ p = cliaddr))
    /\ UNCHANGED <<spc, cause, sk, sk_q, session, has_alarm, timer, counters>>

-----------------------------------------------------------------------------
\* The steps nobody but the server sees.
LocalStep ==
    \/ OpenSocket \/ RecvRequest \/ NoBuffer \/ CheckAlarm \/ WriteNothing
    \/ WriteFails \/ Wait \/ CloseSocket \/ Disarm

ServerStep == LocalStep \/ StartSession \/ WriteDatagram

Environment ==
    \E p \in Peers : \/ Refused(p)
                     \/ \E req \in Requests : Deliver(p, req)

SNext ==
    ServerStep \/ SyscallFails \/ SigAlarm \/ Environment

SSpec == SInit /\ [][SNext]_svars

\* The operating system runs the process.
SFairSpec == SSpec /\ WF_svars(ServerStep)

-----------------------------------------------------------------------------
(***************************************************************************)
(* Properties.                                                             *)
(***************************************************************************)
STypeOK ==
    /\ spc \in {"open", "recvfrom", "connect", "top", "writen", "wait",
               "close", "disarm", "exited"}
    /\ cause \in {"none", "EINTR", "malloc", "fault"}
    /\ sk \in {"none", "bound", "connected"}
    /\ sk_q \in Seq(Queued)
    /\ sk_err \in BOOLEAN
    /\ cliaddr \in Peers \cup {Nobody}
    /\ arg_to_server \in [Fields -> Int]
    /\ has_alarm \in BOOLEAN
    /\ timer \in BOOLEAN
    /\ heap \in 0 .. HeapBuffers
    /\ seq_num \in Word
    /\ interval_write_count \in Word
    /\ written \in Word

\* However alarms fall on the end of a session and the start of the next, the
\* server's own timer never interrupts the recvfrom it waits in.
NotKilledByOwnTimer == cause # "EINTR"

\* The report lines of a session and the interval not yet reported add up to
\* the datagrams of the session, wherever the alarms fall and although the
\* flag an alarm raised after the last check outlives its session.
LinesAddUp == Plus(written, interval_write_count) = seq_num

\* One peer at a time, and numbers that start again from 0 for each.
Iterative == INSTANCE IterativeServer WITH
    serving <- IF Serving THEN cliaddr ELSE Nobody,
    next    <- IF Serving THEN seq_num ELSE 0

ImplementsIterative == Iterative!IterSpec

\* Once the ICMP error of a closed client has arrived, the session is given up
\* and the server waits for a request again, or a call it makes meanwhile fails.
\* (A session of 0-byte datagrams makes no write() that could see the error.)
GivesUpRefused ==
    (sk_err /\ arg_to_server.bufsize > 0) ~> (spc \in {"recvfrom", "exited"})

\* README: the structure in the first packet is decoded to set how the session
\* sends.  So the waits of a session are those its own request asks for.
WaitsAsRequested ==
    spc = "wait" => WaitsMade = {k \in Waits \cap DOMAIN request : request[k] > 0}

\* server.c: "after sending all udp, wait data from client again".  So serving
\* sessions one after the other does not use memory up.
NeverOutOfMemory == cause # "malloc"
=============================================================================
