------------------------------ MODULE Startup ------------------------------
(***************************************************************************)
(* How the programs start: options, socket, connection, buffer, first      *)
(* packet, handlers, timer, in an order of their own and with an error or  *)
(* a signal possible between any two steps.  For the server it is its      *)
(* first session, up to the first write; Server has what follows.          *)
(*                                                                         *)
(* Time is counted in halves of a microsecond, which str2timeval cuts off. *)
(***************************************************************************)
EXTENDS GetNum, SocketLib

CONSTANTS
    Texts,      \* texts for -r, or the server's -s; <<>> when not given
    Intervals,  \* numbers for -i, in half microseconds
    Seconds,    \* ints for -I
    Micros      \* microseconds in a second

ASSUME StartupAssumption ==
    /\ Texts \subseteq Seq(TextFactors)
    /\ Intervals \subseteq Int /\ Seconds \subseteq Int
    /\ Micros \in Nat \ {0}

VARIABLES
    prog, rtext, period,    \* the program and its options
    step,                   \* the step that is next, or how it ended
    so_buf, sockfd,         \* so_rcvbuf or sndbuf_size; the socket
    handled, itimer,        \* signals with a handler; period in microseconds
    asked_server, started   \* the first packet was sent; start is set

svars == <<prog, rtext, period, step, so_buf, sockfd, handled, itimer,
           asked_server, started>>

Over == {"failed", "killed", "summary"}

\* What follows a step, in each program; for epoll-client, as it does each for
\* its first host.
ClientOrder ==
    [options |-> "timer", timer |-> "socket", socket |-> "connect",
     connect |-> "rcvbuf", rcvbuf |-> "request", request |-> "loop"]

TrendOrder ==
    [options |-> "cpu", cpu |-> "socket", socket |-> "connect",
     connect |-> "rcvbuf", rcvbuf |-> "request", request |-> "signals",
     signals |-> "timer", timer |-> "start", start |-> "loop"]

MmsgOrder ==
    [options |-> "cpu", cpu |-> "socket", socket |-> "connect",
     connect |-> "rcvbuf", rcvbuf |-> "request", request |-> "slots",
     slots |-> "signals", signals |-> "start", start |-> "loop"]

EpollOrder ==
    [options |-> "signals", signals |-> "socket", socket |-> "rcvbuf",
     rcvbuf |-> "connect", connect |-> "watch", watch |-> "start",
     start |-> "request", request |-> "loop"]

ServerOrder ==
    [options |-> "cpu", cpu |-> "socket", socket |-> "bind",
     bind |-> "recvfrom", recvfrom |-> "sndbuf", sndbuf |-> "answer",
     answer |-> "loop"]

Follows == [client |-> ClientOrder, trend |-> TrendOrder, mmsg |-> MmsgOrder,
            epoll |-> EpollOrder, server |-> ServerOrder]

After(s) == Follows[prog][s]

\* This step, which may also fail and end the program.
Do(s)       == step = s /\ step' = After(s)
MayFail(s)  == step = s /\ step' \in {After(s), "failed"}

StInit ==
    /\ prog \in DOMAIN Follows
    /\ rtext \in Texts
    /\ period \in CASE prog = "client" -> Seconds
                     [] prog = "trend"  -> Intervals
                     [] OTHER           -> {0}
    /\ step = "options"
    /\ so_buf = (IF prog \in {"server", "epoll"} THEN 0 ELSE -1)
    /\ sockfd = NewSocket
    /\ handled = {}
    /\ itimer = 0
    /\ asked_server = FALSE
    /\ started = FALSE

\* Without exactly one host, or with a text get_num does not like, the program
\* ends.
Options ==
    /\ step = "options"
    /\ \/ step' = "failed" /\ UNCHANGED so_buf
       \/ rtext = <<>> /\ step' = After("options") /\ UNCHANGED so_buf
       \/ /\ rtext # <<>> /\ get_num(rtext) \in Word
          /\ so_buf' = ToInt(get_num(rtext))
          /\ step' = After("options")
       \/ /\ rtext # <<>> /\ get_num(rtext) = Killed
          /\ step' = "killed" /\ UNCHANGED so_buf
    /\ UNCHANGED <<prog, rtext, period, sockfd, handled, itimer, asked_server,
                   started>>

\* -c; also the slots of udp-mmsg-trend, where only memory can run out, which
\* kills it.
SetCpu ==
    /\ MayFail("cpu")
    /\ UNCHANGED <<prog, rtext, period, so_buf, sockfd, handled, itimer,
                   asked_server, started>>

MakeSlots ==
    /\ step = "slots" /\ step' \in {After("slots"), "killed"}
    /\ UNCHANGED <<prog, rtext, period, so_buf, sockfd, handled, itimer,
                   asked_server, started>>

\* One function of my_socket.c, whose error return ends the program.
Call(s, outcomes) ==
    /\ step = s
    /\ \E o \in outcomes :
          /\ sockfd' = o.sock
          /\ step' = IF o.ret < 0 THEN "failed" ELSE After(s)
    /\ UNCHANGED <<prog, rtext, period, so_buf, handled, itimer,
                   asked_server, started>>

OpenSocket == Call("socket", udp_socket)
ConnectSocket == Call("connect", connect_udp(sockfd))
SetBuffer ==
    Call("rcvbuf", IF so_buf > 0
                   THEN IF prog = "epoll" THEN epoll_set_so_rcvbuf(sockfd, so_buf)
                                          ELSE set_so_rcvbuf(sockfd, so_buf)
                   ELSE {Outcome(0, sockfd)})

BindSocket == Call("bind", my_bind(sockfd))
SetSendBuffer ==
    Call("sndbuf", IF so_buf > 0 THEN set_so_sndbuf(sockfd, so_buf)
                                 ELSE {Outcome(0, sockfd)})

\* The epoll set is made and gets the socket.
Watch ==
    /\ MayFail("watch")
    /\ UNCHANGED <<prog, rtext, period, so_buf, sockfd, handled, itimer,
                   asked_server, started>>

\* A request comes, or recvfrom fails.
TakeRequest ==
    /\ MayFail("recvfrom")
    /\ UNCHANGED <<prog, rtext, period, so_buf, sockfd, handled, itimer,
                   asked_server, started>>

\* The server connects the socket to its peer.
ConnectBack == Call("answer", connect_back(sockfd))

SendRequest ==
    /\ MayFail("request")
    /\ asked_server' = (step' # "failed")
    /\ UNCHANGED <<prog, rtext, period, so_buf, sockfd, handled, itimer,
                   started>>

\* epoll-client has a handler for SIGTERM, too, and none for SIGALRM.
InstallHandlers ==
    /\ Do("signals")
    /\ handled' = IF prog = "epoll" THEN {"INT", "TERM"} ELSE {"INT", "ALRM"}
    /\ UNCHANGED <<prog, rtext, period, so_buf, sockfd, itimer,
                   asked_server, started>>

-----------------------------------------------------------------------------
TimeVal(sec, usec) == [tv_sec |-> sec, tv_usec |-> usec]

\* float2timeval, in doubles: the fraction of a second may come out one
\* microsecond short.  That of a negative time is no unsigned int: undefined.
float2timeval(x) ==
    IF x >= 0
    THEN LET sec  == x \div (2 * Micros)
             usec == (x % (2 * Micros)) \div 2
         IN {TimeVal(sec, usec)}
               \cup (IF usec > 0 THEN {TimeVal(sec, usec - 1)} ELSE {})
    ELSE {TimeVal(-((-x) \div (2 * Micros)), usec) : usec \in {0, Micros}}

\* setitimer refuses a time it cannot have; nobody looks at set_timer's return.
set_timer(tv) ==
    itimer' = IF tv.tv_sec >= 0 /\ tv.tv_usec \in 0 .. Micros - 1
              THEN tv.tv_sec * Micros + tv.tv_usec ELSE itimer

\* A mistake: the timer of client starts before its handler is there.
StartTimerUnhandled ==
    /\ Do("timer")
    /\ \/ prog = "trend" /\ \E tv \in float2timeval(period) : set_timer(tv)
       \/ prog = "client" /\ set_timer(TimeVal(period, 0))
       \/ prog = "client" /\ UNCHANGED itimer
    /\ UNCHANGED <<prog, rtext, period, so_buf, sockfd, handled,
                   asked_server, started>>

\* The timer; client has one only with -f, and installs its handler with it.
StartTimer ==
    /\ Do("timer")
    /\ \/ /\ prog = "trend"
          /\ \E tv \in float2timeval(period) : set_timer(tv)
          /\ UNCHANGED handled
       \/ /\ prog = "client"
          /\ set_timer(TimeVal(period, 0))
          /\ handled' = {"ALRM"}
       \/ prog = "client" /\ UNCHANGED <<itimer, handled>>
    /\ UNCHANGED <<prog, rtext, period, so_buf, sockfd, asked_server,
                   started>>

SetStart ==
    /\ Do("start")
    /\ started' = TRUE
    /\ UNCHANGED <<prog, rtext, period, so_buf, sockfd, handled, itimer,
                   asked_server>>

\* SIGINT: the readers' handler prints a summary and exits.
Interrupted ==
    /\ step \notin Over
    /\ step' = IF "INT" \in handled THEN "summary" ELSE "killed"
    /\ UNCHANGED <<prog, rtext, period, so_buf, sockfd, handled, itimer,
                   asked_server, started>>

-----------------------------------------------------------------------------
StNext ==
    \/ Options \/ SetCpu \/ MakeSlots \/ OpenSocket \/ ConnectSocket
    \/ SetBuffer \/ Watch \/ BindSocket \/ TakeRequest \/ SetSendBuffer
    \/ ConnectBack
    \/ SendRequest \/ InstallHandlers \/ StartTimer \/ SetStart \/ Interrupted

StSpec == StInit /\ [][StNext]_svars

-----------------------------------------------------------------------------
\* The value of -r is the product its text states, or the program ends.
ProductRight == rtext # <<>> => IsProduct(rtext)

\* A first packet is sent, and a session's datagrams are, only through a
\* connected socket that has exactly the buffer the option asked for, once
\* that is an int, or the kernel's own.  epoll-client takes what the kernel
\* makes of the size.
BufferAsAsked ==
    asked_server \/ (prog = "server" /\ step = "loop") =>
        /\ sockfd.connected
        /\ LET v == IF rtext = <<>> THEN -1 ELSE ToInt(get_num(rtext))
               buf == IF prog = "server" THEN sockfd.sndbuf ELSE sockfd.rcvbuf
           IN buf = IF v > 0
                    THEN IF prog = "epoll" THEN Granted(v) ELSE 2 * v
                    ELSE DefaultBuf

\* From the moment the timer runs its signal has a handler, and it runs with
\* the period asked for, to a microsecond.
ReportsTimed ==
    /\ itimer > 0 => "ALRM" \in handled
    /\ step = "loop" /\ prog = "trend" /\ period >= 2 =>
          (period \div 2) - itimer \in {0, 1}
    /\ itimer > 0 /\ prog = "client" => itimer = period * Micros
=============================================================================
