---------------------------- MODULE StartupProofs ----------------------------
(***************************************************************************)
(* Proofs about the parts without a loop of their own: the busy waits, the *)
(* TCP helpers and the start of the programs.                              *)
(***************************************************************************)
EXTENDS Startup, TcpHelpers, Pacing, WellFoundedInduction, TLAPS

-----------------------------------------------------------------------------
(***************************************************************************)
(* The busy waits.  While one spins, the target is tied to the monotonic   *)
(* clock, for bz_usleep with what the clock of the day was set ahead.      *)
(***************************************************************************)
PacingInv ==
    /\ day \in Int /\ mono \in Int /\ wait \in Int
    /\ target \in Int /\ began \in Int /\ set_ahead \in Int
    /\ clock \in {"day", "mono"}
    /\ wpc \in {"before", "spin", "after"}
    /\ wpc = "before" => set_ahead = 0
    /\ wpc = "spin" =>
          IF clock = "day" THEN day <= target - wait + (mono - began) + set_ahead
                           ELSE target = began + wait
    /\ NeverEarly

\* What the clock is set ahead by is what is kept of it.
LEMMA SetAhead ==
    \A d, d2, s, e \in Int : d <= e + s => d2 <= e + (s + (d2 - d))
  OBVIOUS

\* The busy waits never end early, whatever the wait and whenever the clock of
\* the day is set.
THEOREM WaitsNeverEarly == PSpec => []NeverEarly
<1>1. PInit => PacingInv
  BY PacingAssumption DEF PInit, PacingInv, NeverEarly
<1>2. PacingInv /\ [PNext]_pvars => PacingInv'
  <2> SUFFICES ASSUME PacingInv, [PNext]_pvars PROVE PacingInv'
    OBVIOUS
  <2>1. CASE TakeTarget
    BY <2>1 DEF PacingInv, TakeTarget, gettime_ll, usleep_clock, nanosleep_clock, NeverEarly
  <2>2. CASE Reached
    BY <2>2 DEF PacingInv, Reached, gettime_ll, usleep_clock, nanosleep_clock, NeverEarly
  <2>3. CASE Tick
    BY <2>3 DEF PacingInv, Tick, NeverEarly
  <2>4. CASE SetDay
    <3>1. day' \in Int
      BY <2>4, PacingAssumption DEF SetDay
    <3>2. UNCHANGED <<mono, clock, wait, target, wpc, began>>
      BY <2>4 DEF SetDay
    <3>3. CASE wpc = "spin" /\ day' > day
      <4>1. set_ahead' = set_ahead + (day' - day)
        BY <2>4, <3>3 DEF SetDay
      <4>2. set_ahead' \in Int /\ wpc' = "spin" /\ NeverEarly'
        BY <3>1, <3>2, <3>3, <4>1 DEF PacingInv, NeverEarly
      <4>3. clock = "day" =>
              day' <= target - wait + (mono - began) + set_ahead'
        <5>1. /\ day \in Int /\ mono \in Int /\ wait \in Int
              /\ target \in Int /\ began \in Int /\ set_ahead \in Int
          BY DEF PacingInv
        <5>2. clock = "day" =>
                day <= target - wait + (mono - began) + set_ahead
          BY <3>3 DEF PacingInv
        <5>3. target - wait + (mono - began) \in Int
          BY <5>1
        <5> QED
          BY <3>1, <4>1, <5>1, <5>2, <5>3, SetAhead
      <4>4. clock # "day" => target = began + wait
        BY <3>3 DEF PacingInv
      <4> QED
        BY <3>1, <3>2, <4>2, <4>3, <4>4 DEF PacingInv
    <3>4. CASE ~(wpc = "spin" /\ day' > day)
      <4>1. set_ahead' = set_ahead
        BY <2>4, <3>4 DEF SetDay
      <4> QED
        BY <3>1, <3>2, <3>4, <4>1 DEF PacingInv, NeverEarly
    <3> QED
      BY <3>3, <3>4
  <2>5. CASE UNCHANGED pvars
    BY <2>5 DEF PacingInv, pvars, NeverEarly
  <2> QED
    BY <2>1, <2>2, <2>3, <2>4, <2>5 DEF PNext
<1>3. PacingInv => NeverEarly
  BY DEF PacingInv
<1> QED
  BY <1>1, <1>2, <1>3, PTL DEF PSpec

-----------------------------------------------------------------------------
(***************************************************************************)
(* The TCP helpers.                                                        *)
(***************************************************************************)
InConnect == {"save", "resolve", "set", "connect", "restore", "restore_failed"}
InListen  == {"reuse", "bind", "listen", "accept", "rcvtimeo", "reach",
              "exited"}
Timed     == {"connect", "restore", "restore_failed"}

\* Between the functions descriptors are the caller's or lost; in the
\* functions that make one of their own it is neither yet.
DescriptorInv ==
    /\ hpc \in {"idle"} \cup InConnect \cup InListen
    /\ cur \in Fds \cup {NoFd}
    /\ hpc \in InListen => cur \notin held \cup lost
    /\ hpc \in {"accept", "rcvtimeo", "reach"} => cur # NoFd
    /\ hpc \in InConnect => cur \in held
    /\ open = (held \cup lost \cup (IF hpc \in InListen THEN {cur} \ {NoFd}
                                                         ELSE {}))
    /\ held \cap lost = {}
    /\ open \subseteq Fds

\* It is an invariant.
LEMMA DescriptorsInvariant == HSpec => []DescriptorInv
<1>1. HInit => DescriptorInv
  BY DEF HInit, DescriptorInv, InConnect, InListen, NoFd
<1>2. DescriptorInv /\ [HNext]_hvars => DescriptorInv'
  <2> SUFFICES ASSUME DescriptorInv, [HNext]_hvars PROVE DescriptorInv'
    OBVIOUS
  <2> USE FdAssumption DEF NoFd
  <2>1. CASE TcpSocket
    BY <2>1 DEF DescriptorInv, InConnect, InListen, TcpSocket, NewFd, Return,
                kernel, locals_h
  <2>2. CASE CloseOwn
    BY <2>2 DEF DescriptorInv, InConnect, InListen, CloseOwn, locals_h
  <2>3. CASE CallConnect
    BY <2>3 DEF DescriptorInv, InConnect, InListen, CallConnect, kernel
  <2>4. CASE SaveTimeout \/ Resolve \/ SetTimeout \/ Connect
             \/ LateConnection \/ Restore
    BY <2>4 DEF DescriptorInv, InConnect, InListen, SaveTimeout, Resolve,
                SetTimeout, Connect, LateConnection, Restore, Return, kernel,
                locals_h
  <2>5. CASE CallListen
    BY <2>5 DEF DescriptorInv, InConnect, InListen, CallListen, NewFd, kernel
  <2>6. CASE PrepareListen
    BY <2>6 DEF DescriptorInv, InConnect, InListen, PrepareListen, ListenFails,
                Return, kernel, locals_h
  <2>7. CASE Accept
    BY <2>7 DEF DescriptorInv, InConnect, InListen, Accept, NewFd, Return,
                kernel, locals_h
  <2>9. CASE CallToServer \/ ReachServer
    BY <2>9 DEF DescriptorInv, InConnect, InListen, CallToServer, ReachServer,
                NewFd, Return, kernel, locals_h
  <2>10. CASE SocketOption \/ BytesQueued
    BY <2>10 DEF DescriptorInv, SocketOption, BytesQueued, kernel, locals_h
  <2>8. CASE UNCHANGED hvars
    BY <2>8 DEF DescriptorInv, hvars, kernel, locals_h
  <2> QED
    BY <2>1, <2>2, <2>3, <2>4, <2>5, <2>6, <2>7, <2>8, <2>9, <2>10 DEF HNext
<1> QED
  BY <1>1, <1>2, PTL DEF HSpec

\* Every open descriptor is the caller's or lost, never both, for any number
\* of descriptors and any order of calls.
THEOREM DescriptorsCorrect == HSpec => []DescriptorsAccounted
<1>1. HSpec => []DescriptorInv
  BY DescriptorsInvariant
<1>2. DescriptorInv => DescriptorsAccounted
  BY DEF DescriptorInv, DescriptorsAccounted, InListen
<1> QED
  BY <1>1, <1>2, PTL

Connecting == {"connect_tcp", "connect_tcp_timeout", "connect_to_server"}

SocketTypes ==
    /\ sndtimeo \in [Fds -> Timeouts] /\ mine \in [Fds -> Timeouts]
    /\ connected \in [Fds -> {"no", "trying", "yes"}]

\* A new descriptor has the timeout its owner finds, and leaves the others as
\* they were.
LEMMA NewFdKeeps ==
    ASSUME SocketTypes, NEW f, NEW conn \in {"no", "trying", "yes"},
           NewFd(f, conn)
    PROVE  /\ SocketTypes'
           /\ open' = open \cup {f} /\ f \in Fds \ open
           /\ sndtimeo'[f] = mine'[f]
           /\ \A g \in Fds \ {f} : /\ sndtimeo'[g] = sndtimeo[g]
                                   /\ mine'[g] = mine[g]
                                   /\ connected'[g] = connected[g]
  BY DEF SocketTypes, NewFd

\* A send timeout is the caller's, or could not be set back, or is the one a
\* connection is under way with; what is to be set back is then the caller's.
TimeoutInv ==
    /\ SocketTypes
    /\ timeout \in Timeouts /\ orig \in Timeouts
    /\ \A f \in open : \/ sndtimeo[f] = mine[f] \/ f \in stuck
                       \/ hpc \in Timed /\ fn = "connect_tcp_timeout" /\ f = cur
    /\ hpc \in InConnect => fn \in {"connect_tcp", "connect_tcp_timeout"}
    /\ hpc \in {"save", "set", "restore", "restore_failed"} =>
          fn = "connect_tcp_timeout"
    /\ hpc \in InConnect \ {"save"} /\ fn = "connect_tcp_timeout" =>
          orig = mine[cur] \/ cur \in stuck
    /\ hpc = "restore" => connected[cur] = "yes"
    /\ hpc = "idle" /\ fn \in Connecting /\ cur \in held /\ ret = 0 =>
          connected[cur] = "yes"

\* connect_tcp_timeout leaves every send timeout as the caller had it, or knows
\* that it could not, for any number of descriptors and any order of calls.
THEOREM TimeoutsKept == HSpec => []TimeoutKept
<1>1. HInit => TimeoutInv
  BY DEF HInit, TimeoutInv, SocketTypes, InConnect, Connecting, NoFd
<1>2. DescriptorInv /\ TimeoutInv /\ [HNext]_hvars => TimeoutInv'
  <2> SUFFICES ASSUME DescriptorInv, TimeoutInv, [HNext]_hvars
               PROVE  TimeoutInv'
    OBVIOUS
  <2> USE FdAssumption DEF NoFd
  <2>1. CASE TcpSocket
    <3>1. CASE UNCHANGED <<kernel, mine>>
      BY <2>1, <3>1 DEF DescriptorInv, TimeoutInv, InConnect, InListen,
                        Connecting, Timed, SocketTypes, TcpSocket, NewFd, Return,
                        locals_h, kernel
    <3>2. ASSUME NEW f \in Fds, NewFd(f, "no") PROVE TimeoutInv'
      BY <2>1, <3>2, NewFdKeeps DEF DescriptorInv, TimeoutInv, InConnect,
         InListen, Connecting, Timed, TcpSocket, Return, locals_h
    <3> QED
      BY <2>1, <3>1, <3>2 DEF TcpSocket
  <2>2. CASE CloseOwn
    BY <2>2 DEF DescriptorInv, TimeoutInv, InConnect, InListen, Connecting,
                Timed, SocketTypes, CloseOwn, locals_h
  <2>3. CASE CallConnect
    BY <2>3 DEF DescriptorInv, TimeoutInv, InConnect, InListen, Connecting,
                Timed, SocketTypes, CallConnect, kernel
  <2>4. CASE SaveTimeout
    BY <2>4 DEF DescriptorInv, TimeoutInv, InConnect, InListen, Connecting,
                Timed, SocketTypes, SaveTimeout, Return, kernel
  <2>5. CASE Resolve
    BY <2>5 DEF DescriptorInv, TimeoutInv, InConnect, InListen, Connecting,
                Timed, SocketTypes, Resolve, Return, kernel, locals_h
  <2>6. CASE SetTimeout
    BY <2>6 DEF DescriptorInv, TimeoutInv, InConnect, InListen, Connecting,
                Timed, SocketTypes, SetTimeout, Return, locals_h
  <2>7. CASE Connect
    BY <2>7 DEF DescriptorInv, TimeoutInv, InConnect, InListen, Connecting,
                Timed, SocketTypes, Connect, Return, locals_h
  <2>8. CASE LateConnection
    BY <2>8 DEF DescriptorInv, TimeoutInv, InConnect, InListen, Connecting,
                Timed, SocketTypes, LateConnection, locals_h
  <2>9. CASE Restore
    BY <2>9 DEF DescriptorInv, TimeoutInv, InConnect, InListen, Connecting,
                Timed, SocketTypes, Restore, Return, locals_h
  <2>10. CASE CallListen
    <3>1. CASE UNCHANGED <<kernel, mine>>
      BY <2>10, <3>1 DEF DescriptorInv, TimeoutInv, InConnect, InListen,
                        Connecting, Timed, SocketTypes, CallListen, NewFd, kernel
    <3>2. ASSUME NEW f \in Fds, NewFd(f, "no") PROVE TimeoutInv'
      BY <2>10, <3>2, NewFdKeeps DEF DescriptorInv, TimeoutInv, InConnect,
         InListen, Connecting, Timed, CallListen, locals_h
    <3> QED
      BY <2>10, <3>1, <3>2 DEF CallListen
  <2>11. CASE PrepareListen
    BY <2>11 DEF DescriptorInv, TimeoutInv, InConnect, InListen, Connecting,
                 Timed, SocketTypes, PrepareListen, ListenFails, Return, kernel, locals_h
  <2>12. CASE Accept
    <3>1. CASE UNCHANGED <<kernel, mine>>
      BY <2>12, <3>1 DEF DescriptorInv, TimeoutInv, InConnect, InListen,
                        Connecting, Timed, SocketTypes, Accept, NewFd, Return, locals_h, kernel
    <3>2. ASSUME NEW f \in Fds, NewFd(f, "yes") PROVE TimeoutInv'
      BY <2>12, <3>2, NewFdKeeps DEF DescriptorInv, TimeoutInv, InConnect,
         InListen, Connecting, Timed, Accept, Return, locals_h
    <3> QED
      BY <2>12, <3>1, <3>2 DEF Accept
  <2>13. CASE CallToServer
    <3>1. CASE UNCHANGED <<kernel, mine>>
      BY <2>13, <3>1 DEF DescriptorInv, TimeoutInv, InConnect, InListen,
                        Connecting, Timed, SocketTypes, CallToServer, NewFd, kernel
    <3>2. ASSUME NEW f \in Fds, NewFd(f, "no") PROVE TimeoutInv'
      BY <2>13, <3>2, NewFdKeeps DEF DescriptorInv, TimeoutInv, InConnect,
         InListen, Connecting, Timed, CallToServer
    <3> QED
      BY <2>13, <3>1, <3>2 DEF CallToServer
  <2>14. CASE ReachServer
    BY <2>14 DEF DescriptorInv, TimeoutInv, InConnect, InListen, Connecting,
                 Timed, SocketTypes, ReachServer, Return, locals_h
  <2>15. CASE UNCHANGED hvars
    BY <2>15 DEF TimeoutInv, SocketTypes, hvars, kernel, locals_h
  <2>16. CASE SocketOption \/ BytesQueued
    BY <2>16 DEF DescriptorInv, TimeoutInv, InConnect, InListen, Connecting,
                 Timed, SocketTypes, SocketOption, OptionFns, InfoFns,
                 BytesQueued, kernel, locals_h
  <2> QED
    BY <2>1, <2>2, <2>3, <2>4, <2>5, <2>6, <2>7, <2>8, <2>9, <2>10, <2>11,
       <2>12, <2>13, <2>14, <2>15, <2>16 DEF HNext
<1>3. TimeoutInv => TimeoutKept
  BY DEF TimeoutInv, TimeoutKept, Connecting, Timed
<1> QED
  BY <1>1, <1>2, <1>3, DescriptorsInvariant, PTL DEF HSpec

-----------------------------------------------------------------------------
(***************************************************************************)
(* The start of the programs.                                              *)
(***************************************************************************)
Steps ==
    [client |-> DOMAIN ClientOrder, trend |-> DOMAIN TrendOrder,
     mmsg |-> DOMAIN MmsgOrder, epoll |-> DOMAIN EpollOrder,
     server |-> DOMAIN ServerOrder]

\* The steps a program takes with its socket connected, with the buffer set,
\* and after the first packet.
Connected ==
    [client |-> {"rcvbuf", "request", "loop"},
     trend  |-> {"rcvbuf", "request", "signals", "timer", "start", "loop"},
     mmsg   |-> {"rcvbuf", "request", "slots", "signals", "start", "loop"},
     epoll  |-> {"watch", "start", "request", "loop"},
     server |-> {"loop"}]

Buffered ==
    [client |-> {"request", "loop"},
     trend  |-> {"request", "signals", "timer", "start", "loop"},
     mmsg   |-> {"request", "slots", "signals", "start", "loop"},
     epoll  |-> {"connect", "watch", "start", "request", "loop"},
     server |-> {"answer", "loop"}]

Requested ==
    [client |-> {"loop"}, trend |-> {"signals", "timer", "start", "loop"},
     mmsg |-> {"slots", "signals", "start", "loop"}, epoll |-> {"loop"},
     server |-> {}]

\* What the option leaves in so_rcvbuf or sndbuf_size.
NotAsked == IF prog \in {"server", "epoll"} THEN 0 ELSE -1
Asked    == IF rtext = <<>> THEN NotAsked ELSE ToInt(get_num(rtext))

\* The buffer the option is about, and what it should be.
Buf  == IF prog = "server" THEN sockfd.sndbuf ELSE sockfd.rcvbuf
Want == IF Asked > 0 THEN IF prog = "epoll" THEN Granted(Asked) ELSE 2 * Asked
                     ELSE DefaultBuf

Sockets == [connected : BOOLEAN, rcvbuf : Int, sndbuf : Int]

\* Before its buffer is set the socket has the kernel's own.
BufferInv ==
    /\ prog \in DOMAIN Follows
    /\ step \in Steps[prog] \cup {"loop"} \cup Over
    /\ sockfd \in Sockets
    /\ step = "options" => so_buf = NotAsked
    /\ step \notin {"options"} \cup Over => so_buf \in Int /\ so_buf = Asked
    /\ step \notin Buffered[prog] \cup Over => Buf = DefaultBuf
    /\ step \in Connected[prog] => sockfd.connected
    /\ step \in Buffered[prog] => Buf = Want
    /\ asked_server => /\ step \in Requested[prog] \cup Over
                       /\ sockfd.connected /\ Buf = Want

\* A new socket is one.
LEMMA NewSocketType ==
    /\ NewSocket \in Sockets
    /\ NewSocket.rcvbuf = DefaultBuf /\ NewSocket.sndbuf = DefaultBuf
  BY BufAssumption DEF NewSocket, Sockets

\* A connection, made or refused, leaves the buffers as they are.
LEMMA ConnectKeeps ==
    ASSUME NEW s \in Sockets, NEW o \in connect_udp(s) \cup connect_back(s)
    PROVE  /\ o.sock \in Sockets
           /\ o.sock.rcvbuf = s.rcvbuf /\ o.sock.sndbuf = s.sndbuf
           /\ o.ret >= 0 => o.sock.connected
<1> DEFINE t == [s EXCEPT !.connected = TRUE]
<1>1. /\ t \in Sockets /\ t.connected
      /\ t.rcvbuf = s.rcvbuf /\ t.sndbuf = s.sndbuf
  BY DEF Sockets
<1> HIDE DEF t
<1>2. o = [ret |-> 0, sock |-> t] \/ o = [ret |-> -1, sock |-> s]
  BY DEF connect_udp, connect_back, Outcome, Fails, t
<1> QED
  BY <1>1, <1>2

\* What becomes of a value that fits is an int.
LEMMA ToIntType == \A v \in Word : ToInt(v) \in Int
  BY NarrowAssumption, ModulusAssumption DEF ToInt, Word

\* What the kernel grants is an int.
LEMMA GrantedType == \A size \in Int : Granted(size) \in Int
  BY BufAssumption DEF Granted

\* Whatever fails and whenever it is interrupted, no program sends its first
\* packet, and the server no datagram, through a socket that is not connected
\* or has another buffer than was asked for.
THEOREM BufferCorrect == StSpec => []BufferAsAsked
<1> USE DEF Follows, Steps, Connected, Buffered, Requested, Over,
            ClientOrder, TrendOrder, MmsgOrder, EpollOrder, ServerOrder
<1>1. StInit => BufferInv
  BY BufAssumption DEF StInit, BufferInv, Sockets, NewSocket,
     NotAsked, Buf
<1>2. BufferInv /\ [StNext]_svars => BufferInv'
  <2> SUFFICES ASSUME BufferInv, [StNext]_svars PROVE BufferInv'
    OBVIOUS
  <2>1. CASE Options
    BY <2>1, ToIntType DEF BufferInv, Options, After, Asked, NotAsked, Buf, Want
  <2>2. CASE SetCpu
    BY <2>2 DEF BufferInv, SetCpu, MayFail, After, Asked, NotAsked, Buf, Want
  <2>3. CASE MakeSlots
    BY <2>3 DEF BufferInv, MakeSlots, After, Asked, NotAsked, Buf, Want
  <2>4. CASE Watch
    BY <2>4 DEF BufferInv, Watch, MayFail, After, Asked, NotAsked, Buf, Want
  <2>5. CASE TakeRequest
    BY <2>5 DEF BufferInv, TakeRequest, MayFail, After, Asked, NotAsked, Buf, Want
  <2>6. CASE InstallHandlers
    BY <2>6 DEF BufferInv, InstallHandlers, Do, After, Asked, NotAsked, Buf, Want
  <2>7. CASE StartTimer
    BY <2>7 DEF BufferInv, StartTimer, Do, After, Asked, NotAsked, Buf, Want
  <2>8. CASE SetStart
    BY <2>8 DEF BufferInv, SetStart, Do, After, Asked, NotAsked, Buf, Want
  <2>9. CASE Interrupted
    BY <2>9 DEF BufferInv, Interrupted, Asked, NotAsked, Buf, Want
  <2>10. CASE SendRequest
    BY <2>10 DEF BufferInv, SendRequest, MayFail, After, Asked, NotAsked, Buf, Want
  <2>11. CASE OpenSocket
    <3>1. /\ step = "socket"
          /\ \/ step' = After("socket") /\ sockfd' = NewSocket
             \/ step' = "failed" /\ sockfd' = NewSocket
          /\ UNCHANGED <<prog, rtext, period, so_buf, asked_server>>
      BY <2>11 DEF OpenSocket, Call, udp_socket, Outcome, Fails
    <3>2. /\ sockfd' \in Sockets
          /\ sockfd'.rcvbuf = DefaultBuf /\ sockfd'.sndbuf = DefaultBuf
      BY <3>1, NewSocketType
    <3>3. step = "socket" /\ step' \in {After("socket"), "failed"}
      BY <3>1
    <3>4. UNCHANGED <<prog, rtext, period, so_buf, asked_server>>
      BY <3>1
    <3> QED
      BY <3>2, <3>3, <3>4 DEF BufferInv, After, Asked, NotAsked, Buf, Want
  <2>12. CASE ConnectSocket
    <3>1. PICK o \in connect_udp(sockfd) :
             /\ sockfd' = o.sock
             /\ step' = IF o.ret < 0 THEN "failed" ELSE After("connect")
      BY <2>12 DEF ConnectSocket, Call
    <3>2. /\ step = "connect"
          /\ UNCHANGED <<prog, rtext, period, so_buf, asked_server>>
      BY <2>12 DEF ConnectSocket, Call
    <3>3. /\ sockfd' \in Sockets
          /\ sockfd'.rcvbuf = sockfd.rcvbuf /\ sockfd'.sndbuf = sockfd.sndbuf
          /\ step' = "failed" \/ (step' = After("connect") /\ sockfd'.connected)
      BY <3>1, ConnectKeeps DEF BufferInv, connect_udp, Outcome, Fails
    <3> QED
      BY <3>2, <3>3 DEF BufferInv, After, Asked, NotAsked, Buf, Want
  <2>13. CASE BindSocket
    BY <2>13 DEF BufferInv, BindSocket, Call, my_bind,
       Outcome, Fails, Sockets, After, Asked, NotAsked, Buf, Want
  <2>14. CASE ConnectBack
    <3>1. PICK o \in connect_back(sockfd) :
             /\ sockfd' = o.sock
             /\ step' = IF o.ret < 0 THEN "failed" ELSE After("answer")
      BY <2>14 DEF ConnectBack, Call
    <3>2. /\ step = "answer"
          /\ UNCHANGED <<prog, rtext, period, so_buf, asked_server>>
      BY <2>14 DEF ConnectBack, Call
    <3>3. /\ sockfd' \in Sockets
          /\ sockfd'.rcvbuf = sockfd.rcvbuf /\ sockfd'.sndbuf = sockfd.sndbuf
          /\ step' = "failed" \/ (step' = After("answer") /\ sockfd'.connected)
      BY <3>1, ConnectKeeps DEF BufferInv, connect_back, Outcome, Fails
    <3> QED
      BY <3>2, <3>3 DEF BufferInv, After, Asked, NotAsked, Buf, Want
  <2>15. CASE SetBuffer
    BY <2>15, GrantedType DEF BufferInv, SetBuffer, Call, set_so_rcvbuf,
       epoll_set_so_rcvbuf, get_so_rcvbuf, Outcome, Fails, Sockets, After, Asked, NotAsked, Buf, Want
  <2>16. CASE SetSendBuffer
    BY <2>16, GrantedType DEF BufferInv, SetSendBuffer, Call, set_so_sndbuf,
       get_so_sndbuf, Outcome, Fails, Sockets, After, Asked, NotAsked, Buf, Want
  <2>17. CASE UNCHANGED svars
    BY <2>17 DEF BufferInv, svars, Asked, NotAsked, Buf, Want
  <2> QED
    BY <2>1, <2>2, <2>3, <2>4, <2>5, <2>6, <2>7, <2>8, <2>9, <2>10, <2>11,
       <2>12, <2>13, <2>14, <2>15, <2>16, <2>17 DEF StNext
<1>3. BufferInv => BufferAsAsked
  BY DEF BufferInv, BufferAsAsked, Asked, NotAsked, Buf, Want
<1> QED
  BY <1>1, <1>2, <1>3, PTL DEF StSpec

-----------------------------------------------------------------------------
(***************************************************************************)
(* The timer.                                                              *)
(***************************************************************************)

\* The timer of the trend readers is set after the handlers, and stays.
TimerInv ==
    /\ prog \in DOMAIN Follows
    /\ step \in Steps[prog] \cup {"loop"} \cup Over
    /\ prog = "trend"  => period \in Int
    /\ prog = "client" => period \in Int
    /\ itimer \in Int
    /\ prog \notin {"client", "trend"} => itimer = 0
    /\ prog = "client" /\ step \in {"options", "timer"} => itimer = 0
    /\ prog = "trend" /\ step \in {"timer", "start", "loop"} =>
          "ALRM" \in handled
    /\ prog = "trend" /\ step \notin {"start", "loop"} \cup Over => itimer = 0
    /\ prog = "trend" /\ step \in {"start", "loop"} /\ period >= 2 =>
          (period \div 2) - itimer \in {0, 1}
    /\ itimer > 0 => "ALRM" \in handled
    /\ prog = "client" /\ itimer > 0 => itimer = period * Micros

\* Quotient and remainder.
LEMMA DivMod ==
    ASSUME NEW x \in Nat, NEW d \in Nat, d > 0
    PROVE  x = d * (x \div d) + (x % d)
  OBVIOUS

\* Half microseconds are cut off without a loss of whole ones.
LEMMA Halves ==
    ASSUME NEW x \in Nat
    PROVE  LET sec  == x \div (2 * Micros)
               half == x % (2 * Micros)
           IN /\ sec \in Nat /\ half \in 0 .. 2 * Micros - 1
              /\ half \div 2 \in 0 .. Micros - 1
              /\ sec * Micros + (half \div 2) = x \div 2
<1> DEFINE sec  == x \div (2 * Micros)
           half == x % (2 * Micros)
           m    == sec * Micros
<1>1. Micros \in Nat /\ Micros > 0
  BY StartupAssumption
<1>2. sec \in Nat /\ half \in 0 .. 2 * Micros - 1
  BY <1>1
<1>3. x = (2 * Micros) * sec + half
  <2>1. 2 * Micros \in Nat /\ 2 * Micros > 0
    BY <1>1
  <2> QED
    BY <2>1, DivMod, Zenon
<1>4. m \in Nat /\ (2 * Micros) * sec = 2 * m
  BY <1>1, <1>2
<1>5. x = 2 * m + half
  BY <1>3, <1>4
<1> HIDE DEF sec, half, m
<1>6. half \div 2 \in 0 .. Micros - 1 /\ m + (half \div 2) = x \div 2
  BY <1>1, <1>2, <1>4, <1>5
<1> QED
  BY <1>2, <1>6 DEF sec, half, m

\* What float2timeval gives for a positive time is a time that setitimer
\* takes, to a microsecond, unless it is less than one.
LEMMA Converted ==
    ASSUME NEW x \in Nat, x >= 2, NEW tv \in float2timeval(x)
    PROVE  /\ tv.tv_sec \in Nat /\ tv.tv_usec \in 0 .. Micros - 1
           /\ (x \div 2) - (tv.tv_sec * Micros + tv.tv_usec) \in {0, 1}
<1> DEFINE sec  == x \div (2 * Micros)
           usec == (x % (2 * Micros)) \div 2
           m    == sec * Micros
<1>1. /\ sec \in Nat /\ usec \in 0 .. Micros - 1 /\ m \in Nat
      /\ m + usec = x \div 2
  BY Halves, StartupAssumption
<1>2. \/ tv.tv_sec = sec /\ tv.tv_usec = usec
      \/ tv.tv_sec = sec /\ tv.tv_usec = usec - 1 /\ usec > 0
  BY DEF float2timeval, TimeVal
<1>3. Micros \in Nat
  BY StartupAssumption
<1> HIDE DEF sec, usec
<1>4. tv.tv_sec * Micros = m
  BY <1>2
<1> HIDE DEF m
<1> QED
  BY <1>1, <1>2, <1>3, <1>4

\* From the moment a timer runs its signal is handled, and it runs with the
\* period asked for to a microsecond, for every period and any second.
THEOREM TimerCorrect == StSpec => []ReportsTimed
<1> USE DEF Follows, Steps, Over,
            ClientOrder, TrendOrder, MmsgOrder, EpollOrder, ServerOrder
<1>1. StInit => TimerInv
  BY StartupAssumption DEF StInit, TimerInv
<1>2. TimerInv /\ [StNext]_svars => TimerInv'
  <2> SUFFICES ASSUME TimerInv, [StNext]_svars PROVE TimerInv'
    OBVIOUS
  <2>1. CASE Options
    BY <2>1 DEF TimerInv, Options, After
  <2>2. CASE SetCpu \/ MakeSlots \/ Watch \/ TakeRequest \/ SendRequest
    BY <2>2 DEF TimerInv, SetCpu, MakeSlots, Watch, TakeRequest, SendRequest,
                MayFail, After
  <2>3. CASE InstallHandlers
    BY <2>3 DEF TimerInv, InstallHandlers, Do, After
  <2>4. CASE SetStart \/ Interrupted
    BY <2>4 DEF TimerInv, SetStart, Interrupted, Do, After
  <2>5. ASSUME NEW s \in {"socket", "connect", "rcvbuf", "bind", "sndbuf",
                          "answer"},
               step = s, step' \in {"failed", After(s)},
               UNCHANGED <<prog, period, handled, itimer>>
        PROVE  TimerInv'
    BY <2>5 DEF TimerInv, After
  <2>6. CASE OpenSocket \/ ConnectSocket \/ SetBuffer \/ BindSocket
             \/ SetSendBuffer \/ ConnectBack
    BY <2>5, <2>6 DEF OpenSocket, ConnectSocket, SetBuffer, BindSocket,
                      SetSendBuffer, ConnectBack, Call
  <2>7. CASE StartTimer
    <3>1. CASE prog = "client"
      BY <2>7, <3>1, StartupAssumption DEF TimerInv, StartTimer, Do, After,
         set_timer, TimeVal
    <3>2. CASE prog = "trend"
      <4>1. PICK tv \in float2timeval(period) : set_timer(tv)
        BY <2>7, <3>2 DEF StartTimer
      <4>2. /\ step = "timer" /\ step' = "start"
            /\ UNCHANGED <<prog, period, handled>>
        BY <2>7, <3>2 DEF StartTimer, Do, After
      <4>3. itimer' \in Int
        BY <4>1, <2>7, <3>2, StartupAssumption
           DEF set_timer, TimerInv, float2timeval, TimeVal
      <4>4. period >= 2 => (period \div 2) - itimer' \in {0, 1}
        BY <4>1, <3>2, Converted DEF set_timer, TimerInv
      <4> QED
        BY <3>2, <4>2, <4>3, <4>4 DEF TimerInv
    <3> QED
      BY <2>7, <3>1, <3>2 DEF StartTimer
  <2>8. CASE UNCHANGED svars
    BY <2>8 DEF TimerInv, svars
  <2> QED
    BY <2>1, <2>2, <2>3, <2>4, <2>6, <2>7, <2>8 DEF StNext
<1>3. TimerInv => ReportsTimed
  BY DEF TimerInv, ReportsTimed
<1> QED
  BY <1>1, <1>2, <1>3, PTL DEF StSpec

-----------------------------------------------------------------------------
(***************************************************************************)
(* Sizes.                                                                  *)
(***************************************************************************)

\* get_num's test for overflow, a division, is exact: for words of any size and
\* a factor that is not 0 it finds every product that does not fit, and no
\* other.
THEOREM OverflowTest ==
    ASSUME NEW a \in Word, NEW b \in Word, b > 0
    PROVE  /\ Overflows(a, b) <=> a * b >= Modulus
           /\ ~Overflows(a, b) => Times(a, b) = a * b
<1> DEFINE p == a * b
           r == Times(a, b)
           q == r \div b
<1>1. a \in Nat /\ b \in Nat /\ Modulus \in Nat /\ Modulus > 0
  BY ModulusAssumption DEF Word
<1>2. p \in Nat
  BY <1>1
<1>3. r \in Nat /\ (p < Modulus => r = p) /\ (p >= Modulus => r < p)
  BY <1>1, <1>2 DEF Times
<1>4. q \in Nat /\ b * q <= r /\ r < b * q + b
  BY <1>1, <1>3
<1>5. q = a => b * q = p
  BY <1>1
<1>6. ASSUME r = p PROVE q = a
  <2>1. b * q <= b * a /\ b * a < b * q + b
    BY <1>1, <1>4, <1>6
  <2>2. ASSUME q < a PROVE FALSE
    <3>1. b * (q + 1) <= b * a
      BY <1>1, <1>4, <2>2
    <3> QED
      BY <1>1, <1>4, <2>1, <3>1
  <2>3. ASSUME q > a PROVE FALSE
    <3>1. b * (a + 1) <= b * q
      BY <1>1, <1>4, <2>3
    <3> QED
      BY <1>1, <1>4, <2>1, <3>1
  <2>4. q \in Int /\ a \in Int
    BY <1>1, <1>4
  <2> HIDE DEF q
  <2> QED
    BY <2>2, <2>3, <2>4
<1> HIDE DEF p, q, r
<1>7. Overflows(a, b) <=> q # a
  BY DEF Overflows, q, r
<1> QED
  BY <1>1, <1>2, <1>3, <1>4, <1>5, <1>6, <1>7 DEF p, r

-----------------------------------------------------------------------------
(***************************************************************************)
(* get_num.  It calls itself for the rest of the text, so what each call   *)
(* returns follows from what the next one does: a call that went wrong     *)
(* would have a last one, and the cases show that there is none.           *)
(***************************************************************************)
\* A set of numbers has a least one.
LEMMA Least ==
    ASSUME NEW T, T \subseteq Nat, T # {}
    PROVE  \E x \in T : \A y \in T : x <= y
<1>1. IsWellFoundedOn(OpToRel(<, Nat), Nat)
  BY NatLessThanWellFounded
<1>2. PICK x \in T : \A y \in T : ~(<<y, x>> \in OpToRel(<, Nat))
  BY <1>1, WFMin, Zenon
<1>3. \A y \in T : ~(y < x)
  BY <1>2 DEF OpToRel
<1> QED
  BY <1>3

\* What holds of the last position, and passes from each position to the one
\* before it, holds of all: the last position where it fails cannot be there.
LEMMA FromTheEnd ==
    ASSUME NEW n \in Nat \ {0}, NEW T, n \in T,
           \A k \in 1 .. n - 1 : k + 1 \in T => k \in T
    PROVE  \A k \in 1 .. n : k \in T
<1> SUFFICES ASSUME NEW k \in 1 .. n, k \notin T PROVE FALSE
  OBVIOUS
<1> DEFINE C == {m \in 0 .. n - 1 : n - m \notin T}
<1>1. n - k \in C
  <2>1. n - k \in 0 .. n - 1 /\ n - (n - k) = k
    OBVIOUS
  <2> QED
    BY <2>1
<1>2. PICK m \in C : \A y \in C : m <= y
  <2>1. C \subseteq Nat /\ C # {}
    BY <1>1
  <2> HIDE DEF C
  <2> QED
    BY <2>1, Least
<1>3. m \in 0 .. n - 1 /\ n - m \notin T
  OBVIOUS
<1>4. m # 0
  <2>1. n - 0 = n
    OBVIOUS
  <2> QED
    BY <1>3, <2>1
<1>5. m - 1 \in 0 .. n - 1 /\ ~(m <= m - 1)
  BY <1>3, <1>4
<1>6. n - (m - 1) \in T
  BY <1>2, <1>5
<1>7. n - m \in 1 .. n - 1 /\ (n - m) + 1 = n - (m - 1)
  BY <1>3, <1>4
<1> QED
  BY <1>3, <1>6, <1>7

\* r is b at the last position, and elsewhere what g makes of the next one.
StepsBack(r, n, b, g) ==
    \A k \in 1 .. n : r[k] = IF k = n THEN b ELSE g[<<k, r[k + 1]>>]

\* What is defined from the last position back to the first exists.
LEMMA Backwards ==
    ASSUME NEW n \in Nat \ {0}, NEW A, NEW b \in A,
           NEW g \in [(1 .. n - 1) \X A -> A]
    PROVE  \E r \in [1 .. n -> A] : StepsBack(r, n, b, g)
<1> DEFINE Sol(j, r) ==
             \A k \in j .. n : r[k] = IF k = n THEN b ELSE g[<<k, r[k + 1]>>]
           T == {j \in 1 .. n : \E r \in [j .. n -> A] : Sol(j, r)}
<1>1. n \in T
  <2> DEFINE r == [k \in n .. n |-> b]
  <2>1. r \in [n .. n -> A] /\ Sol(n, r)
    OBVIOUS
  <2>2. n \in 1 .. n
    OBVIOUS
  <2> QED
    BY <2>1, <2>2
<1>2. ASSUME NEW j \in 1 .. n - 1, j + 1 \in T PROVE j \in T
  <2>1. PICK r \in [(j + 1) .. n -> A] : Sol(j + 1, r)
    BY <1>2
  <2>2. /\ j + 1 \in (j + 1) .. n /\ j \in 1 .. n /\ j # n
        /\ \A k \in j .. n : k = j \/ (k \in (j + 1) .. n /\ k # j)
        /\ \A k \in (j + 1) .. n : /\ k \in j .. n /\ k # j
                                   /\ k # n => k + 1 \in (j + 1) .. n
                                   /\ k + 1 # j
    OBVIOUS
  <2> DEFINE x == g[<<j, r[j + 1]>>]
             q == [k \in j .. n |-> IF k = j THEN x ELSE r[k]]
  <2>3. x \in A
    BY <2>2
  <2>4. q \in [j .. n -> A]
    BY <2>2, <2>3
  <2>5. ASSUME NEW k \in j .. n
        PROVE  q[k] = IF k = n THEN b ELSE g[<<k, q[k + 1]>>]
    <3>1. CASE k = j
      <4>1. q[k] = g[<<j, r[j + 1]>>] /\ q[k + 1] = r[j + 1]
        BY <2>2, <3>1
      <4> QED
        BY <2>2, <3>1, <4>1
    <3>2. CASE k \in (j + 1) .. n /\ k # j
      <4>1. r[k] = IF k = n THEN b ELSE g[<<k, r[k + 1]>>]
        BY <2>1, <3>2
      <4>2. q[k] = r[k] /\ (k # n => q[k + 1] = r[k + 1])
        BY <2>2, <3>2
      <4> QED
        BY <4>1, <4>2
    <3> QED
      BY <2>2, <3>1, <3>2
  <2> HIDE DEF q
  <2> QED
    BY <2>2, <2>4, <2>5
<1>3. 1 \in T
  <2>1. 1 \in 1 .. n
    OBVIOUS
  <2> HIDE DEF T
  <2> QED
    BY <1>1, <1>2, <2>1, FromTheEnd
<1> QED
  BY <1>3 DEF StepsBack

\* One factor: it is its value, or ends the program exactly if it is no number,
\* is followed by something else, or does not fit.
LEMMA FactorRight ==
    ASSUME NEW f \in TextFactors
    PROVE  /\ FactorValue(f) \in Word \cup {Illegal}
           /\ f.num \in Word => Scaled(f) \in Nat
           /\ FactorValue(f) \in Word <=>
                 f.num \in Word /\ ~f.junk /\ Scaled(f) < Modulus
           /\ FactorValue(f) \in Word => FactorValue(f) = Scaled(f)
           /\ f.num \in Word /\ f.num > 0 => Scaled(f) > 0
<1> DEFINE a == f.num  m == f.mult
<1>1. a \in Int /\ m \in Word /\ f.junk \in BOOLEAN
  BY DEF TextFactors
<1>2. Modulus \in Nat /\ Word \subseteq Nat /\ Illegal \notin Word /\ 0 \in Word
  BY ModulusAssumption DEF Word, Illegal
<1>3. CASE a \notin Word
  <2>1. FactorValue(f) = Illegal
    BY <1>3 DEF FactorValue
  <2> QED
    BY <1>2, <1>3, <2>1
<1>4. CASE a \in Word /\ m = NoSuffix
  <2>1. Scaled(f) = a /\ a < Modulus /\ a \in Nat
    BY <1>2, <1>4 DEF Scaled, Word
  <2>2. FactorValue(f) = IF f.junk THEN Illegal ELSE a
    BY <1>4 DEF FactorValue
  <2> QED
    BY <1>1, <1>2, <1>4, <2>1, <2>2
<1>5. CASE a \in Word /\ m # NoSuffix
  <2>1. Scaled(f) = a * m
    BY <1>5 DEF Scaled
  <2>2. a \in Nat /\ m \in Nat /\ m > 0
    <3>1. a \in Nat /\ m \in Nat
      BY <1>1, <1>2, <1>5
    <3>2. m # 0
      BY <1>5 DEF NoSuffix
    <3> HIDE DEF a, m
    <3> QED
      BY <3>1, <3>2
  <2>3. /\ Overflows(a, m) <=> a * m >= Modulus
        /\ ~Overflows(a, m) => Times(a, m) = a * m
    BY <1>1, <1>5, <2>2, OverflowTest
  <2>4. a * m \in Nat /\ (a > 0 => a * m > 0)
    BY <2>2
  <2>5. FactorValue(f) = IF Overflows(a, m) \/ f.junk THEN Illegal
                         ELSE Times(a, m)
    BY <1>5 DEF FactorValue
  <2>6. a * m < Modulus => a * m \in Word
    BY <1>2, <2>4 DEF Word
  <2> HIDE DEF a, m
  <2> QED
    BY <1>1, <1>2, <1>5, <2>1, <2>3, <2>4, <2>5, <2>6 DEF a, m
<1> QED
  BY <1>3, <1>4, <1>5

\* A value joined to the rest is the product, the end of the program where that
\* is too large, or a signal where the rest is 0.
LEMMA JoinedRight ==
    ASSUME NEW num \in Word, NEW more \in Word \cup {Illegal, Killed}
    PROVE  /\ more \notin Word => Joined(num, more) = more
           /\ more = 0 => Joined(num, more) = Killed
           /\ more \in Word /\ more > 0 =>
                 Joined(num, more) = IF num * more >= Modulus THEN Illegal
                                     ELSE num * more
<1>1. Word \subseteq Nat /\ Illegal < 0 /\ Killed < 0 /\ 0 \in Word
  BY ModulusAssumption DEF Word, Illegal, Killed
<1>2. CASE more \notin Word
  BY <1>1, <1>2 DEF Joined, Illegal, Killed
<1>3. CASE more = 0
  BY <1>1, <1>3 DEF Joined
<1>4. CASE more \in Word /\ more > 0
  <2>1. /\ Overflows(num, more) <=> num * more >= Modulus
        /\ ~Overflows(num, more) => Times(num, more) = num * more
    BY <1>4, OverflowTest
  <2>2. Joined(num, more) =
           IF Overflows(num, more) THEN Illegal ELSE Times(num, more)
    BY <1>1, <1>4 DEF Joined
  <2> QED
    BY <1>1, <1>4, <2>1, <2>2
<1> QED
  BY <1>1, <1>2, <1>3, <1>4

\* It is a word or an end of the program.
LEMMA JoinedType ==
    ASSUME NEW num \in Word, NEW more \in Word \cup {Illegal, Killed}
    PROVE  Joined(num, more) \in Word \cup {Illegal, Killed}
<1>1. Word \subseteq Nat /\ \A x \in Nat : x < Modulus => x \in Word
  BY ModulusAssumption DEF Word
<1>2. CASE more \in Word /\ more > 0
  <2>1. num * more \in Nat
    BY <1>1, <1>2
  <2> QED
    BY <1>1, <1>2, <2>1, JoinedRight, ModulusAssumption
<1> QED
  BY <1>1, <1>2, JoinedRight

\* get_num's calls are what its recursion says.
LEMMA ReturnedEquation ==
    ASSUME NEW text \in Seq(TextFactors), text # <<>>,
           NEW k \in 1 .. Len(text)
    PROVE  Returned(text)[k] =
             IF FactorValue(text[k]) < 0 \/ k = Len(text)
             THEN FactorValue(text[k])
             ELSE Joined(FactorValue(text[k]), Returned(text)[k + 1])
<1> DEFINE n == Len(text)
           Eq(f) == f = [j \in 1 .. n |->
                           LET num == FactorValue(text[j])
                           IN IF num < 0 \/ j = n THEN num
                              ELSE Joined(num, f[j + 1])]
           V == Word \cup {Illegal, Killed}
           g == [p \in (1 .. n - 1) \X V |->
                   IF FactorValue(text[p[1]]) < 0 THEN FactorValue(text[p[1]])
                   ELSE Joined(FactorValue(text[p[1]]), p[2])]
<1>1. n \in Nat \ {0} /\ \A j \in 1 .. n : text[j] \in TextFactors
  OBVIOUS
<1>2. \A j \in 1 .. n : FactorValue(text[j]) \in Word \cup {Illegal}
  BY <1>1, FactorRight
<1>3. g \in [(1 .. n - 1) \X V -> V]
  <2> SUFFICES ASSUME NEW j \in 1 .. n - 1, NEW v \in V
               PROVE  (IF FactorValue(text[j]) < 0 THEN FactorValue(text[j])
                       ELSE Joined(FactorValue(text[j]), v)) \in V
    OBVIOUS
  <2>1. FactorValue(text[j]) \in Word \cup {Illegal}
    BY <1>1, <1>2
  <2>2. ASSUME FactorValue(text[j]) \in Word
        PROVE  Joined(FactorValue(text[j]), v) \in V
    BY <2>2, JoinedType
  <2> QED
    BY <2>1, <2>2 DEF Illegal
<1>4. \E f : Eq(f)
  <2>1. PICK r \in [1 .. n -> V] :
          \A j \in 1 .. n : r[j] = IF j = n THEN FactorValue(text[n])
                                   ELSE g[<<j, r[j + 1]>>]
    <3> DEFINE b == FactorValue(text[n])
    <3>1. b \in V
      BY <1>1, <1>2
    <3> HIDE DEF b, g, V, n
    <3>2. \E r \in [1 .. n -> V] : StepsBack(r, n, b, g)
      BY <1>1, <1>3, <3>1, Backwards, Zenon
    <3> QED
      BY <3>2 DEF StepsBack, b
  <2>2. ASSUME NEW j \in 1 .. n
        PROVE  r[j] = LET num == FactorValue(text[j])
                      IN IF num < 0 \/ j = n THEN num
                         ELSE Joined(num, r[j + 1])
    <3>1. CASE j = n
      BY <2>1, <3>1
    <3>2. CASE j # n
      <4>1. j \in 1 .. n - 1 /\ r[j + 1] \in V
        BY <1>1, <2>1, <3>2
      <4>2. g[<<j, r[j + 1]>>] =
              IF FactorValue(text[j]) < 0 THEN FactorValue(text[j])
              ELSE Joined(FactorValue(text[j]), r[j + 1])
        <5> HIDE DEF V, n
        <5> QED
          BY <4>1
      <4>3. r[j] = g[<<j, r[j + 1]>>]
        BY <2>1, <3>2
      <4> QED
        BY <3>2, <4>2, <4>3
    <3> QED
      BY <3>1, <3>2
  <2>3. Eq(r)
    BY <2>1, <2>2
  <2> QED
    BY <2>3
<1>5. Returned(text) = CHOOSE f : Eq(f)
  BY DEF Returned
<1>6. Eq(Returned(text))
  <2> HIDE DEF Eq
  <2> QED
    BY <1>4, <1>5
<1> QED
  BY <1>6

\* So is the reference, for a text of numbers.
LEMMA ProductsEquation ==
    ASSUME NEW text \in Seq(TextFactors), text # <<>>,
           \A j \in 1 .. Len(text) : text[j].num \in Word,
           NEW k \in 1 .. Len(text)
    PROVE  Products(text)[k] =
             IF k = Len(text) THEN Scaled(text[k])
             ELSE Scaled(text[k]) * Products(text)[k + 1]
<1> DEFINE n == Len(text)
           Eq(f) == f = [j \in 1 .. n |-> IF j = n THEN Scaled(text[j])
                                          ELSE Scaled(text[j]) * f[j + 1]]
           g == [p \in (1 .. n - 1) \X Nat |-> Scaled(text[p[1]]) * p[2]]
<1>1. n \in Nat \ {0} /\ \A j \in 1 .. n : text[j] \in TextFactors
  OBVIOUS
<1>2. \A j \in 1 .. n : Scaled(text[j]) \in Nat
  BY <1>1, FactorRight
<1>3. g \in [(1 .. n - 1) \X Nat -> Nat]
  <2>1. ASSUME NEW j \in 1 .. n - 1, NEW v \in Nat
        PROVE  Scaled(text[j]) * v \in Nat
    <3>1. Scaled(text[j]) \in Nat
      BY <1>1, <1>2
    <3> QED
      BY <3>1
  <2> QED
    BY <2>1
<1>4. \E f : Eq(f)
  <2>1. PICK r \in [1 .. n -> Nat] :
          \A j \in 1 .. n : r[j] = IF j = n THEN Scaled(text[n])
                                   ELSE g[<<j, r[j + 1]>>]
    <3> DEFINE b == Scaled(text[n])
    <3>1. b \in Nat
      BY <1>1, <1>2
    <3> HIDE DEF b, g, n
    <3>2. \E r \in [1 .. n -> Nat] : StepsBack(r, n, b, g)
      BY <1>1, <1>3, <3>1, Backwards, Zenon
    <3> QED
      BY <3>2 DEF StepsBack, b
  <2>2. ASSUME NEW j \in 1 .. n
        PROVE  r[j] = IF j = n THEN Scaled(text[j])
                      ELSE Scaled(text[j]) * r[j + 1]
    <3>1. CASE j = n
      BY <2>1, <3>1
    <3>2. CASE j # n
      <4>1. j \in 1 .. n - 1 /\ r[j + 1] \in Nat
        BY <1>1, <2>1, <3>2
      <4>2. g[<<j, r[j + 1]>>] = Scaled(text[j]) * r[j + 1]
        <5> HIDE DEF n
        <5> QED
          BY <4>1
      <4>3. r[j] = g[<<j, r[j + 1]>>]
        BY <2>1, <3>2
      <4> QED
        BY <3>2, <4>2, <4>3
    <3> QED
      BY <3>1, <3>2
  <2>3. Eq(r)
    BY <2>1, <2>2
  <2> QED
    BY <2>3
<1>5. Products(text) = CHOOSE f : Eq(f)
  BY DEF Products
<1>6. Eq(Products(text))
  <2> HIDE DEF Eq
  <2> QED
    BY <1>4, <1>5
<1> QED
  BY <1>6

\* A product is positive if its factors are, and 0 only if one of them is.
LEMMA ProductPositive ==
    \A a, b \in Nat : /\ a * b \in Nat
                      /\ a > 0 /\ b > 0 => a * b > 0
                      /\ a * b = 0 => a = 0 \/ b = 0
  OBVIOUS

\* A product with a factor that is too large is too large.
LEMMA ProductLarge ==
    \A a, b, m \in Nat : /\ a >= m /\ b > 0 => a * b >= m
                         /\ a > 0 /\ b >= m => a * b >= m
  OBVIOUS

\* What the call for the k-th factor shows about that factor and those after it.
Shows(text, k) ==
    LET v == Returned(text)[k]
        rest(i) == i .. Len(text)
    IN /\ v \in Word \cup {Illegal, Killed}
       /\ v \in Word =>
             \A j \in rest(k) : text[j].num \in Word /\ ~text[j].junk
       /\ v = Killed => \E j \in rest(k + 1) : text[j].num = 0
       /\ v = 0 => \E j \in rest(k) : text[j].num = 0

\* Every call of get_num shows it.
LEMMA EachCallShows ==
    ASSUME NEW text \in Seq(TextFactors), text # <<>>
    PROVE  \A k \in 1 .. Len(text) : Shows(text, k)
<1> DEFINE n == Len(text)
           F(k) == FactorValue(text[k])
           R(k) == Returned(text)[k]
           T == {k \in 1 .. n : Shows(text, k)}
           Reads(k) ==
             /\ R(k) \in Word \cup {Illegal, Killed}
             /\ R(k) \in Word =>
                   \A j \in k .. n : text[j].num \in Word /\ ~text[j].junk
             /\ R(k) = Killed => \E j \in (k + 1) .. n : text[j].num = 0
             /\ R(k) = 0 => \E j \in k .. n : text[j].num = 0
<1>1. n \in Nat \ {0} /\ \A j \in 1 .. n : text[j] \in TextFactors
  OBVIOUS
<1>2. /\ Word \subseteq Nat /\ 0 \in Word
      /\ Illegal < 0 /\ Killed < 0 /\ Illegal # Killed
      /\ Illegal \notin Word /\ Killed \notin Word
      /\ Illegal # 0 /\ Killed # 0
  BY ModulusAssumption DEF Word, Illegal, Killed
<1>3. \A k \in 1 .. n :
        R(k) = IF F(k) < 0 \/ k = n THEN F(k) ELSE Joined(F(k), R(k + 1))
  BY ReturnedEquation
<1>4. \A k \in 1 .. n :
        /\ F(k) \in Word \cup {Illegal}
        /\ F(k) \in Word => text[k].num \in Word /\ ~text[k].junk
        /\ F(k) = 0 => text[k].num = 0
  <2> SUFFICES ASSUME NEW k \in 1 .. n
               PROVE  /\ F(k) \in Word \cup {Illegal}
                      /\ F(k) \in Word => text[k].num \in Word /\ ~text[k].junk
                      /\ F(k) = 0 => text[k].num = 0
    OBVIOUS
  <2>1. text[k] \in TextFactors
    BY <1>1
  <2>2. /\ FactorValue(text[k]) \in Word \cup {Illegal}
        /\ FactorValue(text[k]) \in Word =>
              /\ text[k].num \in Word /\ ~text[k].junk
              /\ FactorValue(text[k]) = Scaled(text[k])
        /\ text[k].num \in Word /\ text[k].num > 0 => Scaled(text[k]) > 0
    BY <2>1, FactorRight
  <2>3. \A x \in Word : x > 0 \/ x = 0
    BY <1>2
  <2>4. ASSUME F(k) = 0 PROVE text[k].num = 0
    <3>1. text[k].num \in Word /\ Scaled(text[k]) = 0
      BY <1>2, <2>2, <2>4
    <3> QED
      BY <2>2, <2>3, <3>1
  <2> QED
    BY <2>2, <2>4
<1>5. n \in T
  <2>1. n \in 1 .. n /\ \A j \in n .. n : j = n
    BY <1>1
  <2>2. R(n) = F(n)
    BY <1>3, <2>1
  <2>3. n \in n .. n
    BY <1>1
  <2>4. Reads(n)
    <3> HIDE DEF n, F, R
    <3> QED
      BY <1>2, <1>4, <2>1, <2>2, <2>3
  <2> QED
    BY <2>1, <2>4 DEF Shows
<1>6. ASSUME NEW k \in 1 .. n - 1, k + 1 \in T
      PROVE  k \in T
  <2>1. /\ k \in 1 .. n /\ k # n /\ k + 1 \in 1 .. n
        /\ k \in k .. n
        /\ \A j \in k .. n : j = k \/ j \in (k + 1) .. n
        /\ \A j \in (k + 1) .. n : j \in k .. n
        /\ \A j \in ((k + 1) + 1) .. n : j \in (k + 1) .. n
    BY <1>1
  <2>2. Shows(text, k + 1)
    BY <1>6
  <2>3. R(k) = IF F(k) < 0 THEN F(k) ELSE Joined(F(k), R(k + 1))
    BY <1>3, <2>1
  <2> DEFINE num == F(k)  more == R(k + 1)
  <2>4. /\ num \in Word \cup {Illegal}
        /\ num \in Word => text[k].num \in Word /\ ~text[k].junk
        /\ num = 0 => text[k].num = 0
    BY <1>4, <2>1
  <2>5. /\ more \in Word \cup {Illegal, Killed}
        /\ more \in Word =>
              \A j \in (k + 1) .. n : text[j].num \in Word /\ ~text[j].junk
        /\ more = Killed => \E j \in ((k + 1) + 1) .. n : text[j].num = 0
        /\ more = 0 => \E j \in (k + 1) .. n : text[j].num = 0
    BY <2>2 DEF Shows
  <2>6. R(k) = IF num < 0 THEN num ELSE Joined(num, more)
    BY <2>3
  <2>7. SUFFICES Reads(k)
    BY <2>1 DEF Shows
  <2> HIDE DEF num, more, F, R, T, n
  <2>8. CASE num \notin Word
    <3>1. R(k) = Illegal
      BY <1>2, <2>4, <2>6, <2>8
    <3> QED
      BY <1>2, <3>1
  <2>9. CASE num \in Word /\ more \notin Word
    <3>1. R(k) = more
      BY <1>2, <2>4, <2>5, <2>6, <2>9, JoinedRight
    <3> QED
      BY <1>2, <2>1, <2>5, <2>9, <3>1
  <2>10. CASE num \in Word /\ more = 0
    <3>1. R(k) = Killed
      BY <1>2, <2>5, <2>6, <2>10, JoinedRight
    <3> QED
      BY <1>2, <2>5, <2>10, <3>1
  <2>11. CASE num \in Word /\ more \in Word /\ more > 0
    <3>1. num \in Nat /\ more \in Nat /\ num * more \in Nat
          /\ (num * more = 0 => num = 0)
      BY <1>2, <2>11, ProductPositive
    <3>2. R(k) = IF num * more >= Modulus THEN Illegal ELSE num * more
      BY <1>2, <2>6, <2>11, JoinedRight
    <3>3. R(k) = Illegal \/ (R(k) \in Word /\ (R(k) = 0 => num = 0))
      BY <3>1, <3>2, ModulusAssumption DEF Word
    <3>4. \A j \in k .. n : text[j].num \in Word /\ ~text[j].junk
      BY <2>1, <2>4, <2>5, <2>11
    <3> QED
      BY <1>2, <2>1, <2>4, <3>3, <3>4
  <2> QED
    BY <1>2, <2>4, <2>5, <2>8, <2>9, <2>10, <2>11
<1>7. \A k \in 1 .. n : k \in T
  <2> HIDE DEF T, n
  <2> QED
    BY <1>1, <1>5, <1>6, FromTheEnd
<1> QED
  BY <1>7

\* What it shows about their product, in a text that is well formed.
ShowsProduct(text, k) ==
    LET v == Returned(text)[k]
        p == Products(text)[k]
    IN /\ p \in Nat
       /\ v \in Word => v = p
       /\ (\A j \in k .. Len(text) : text[j].num > 0) =>
             p > 0 /\ v # Killed /\ (v = Illegal <=> p >= Modulus)

\* Every call of get_num shows it there.
LEMMA EachCallMultiplies ==
    ASSUME NEW text \in Seq(TextFactors), text # <<>>, WellFormed(text)
    PROVE  \A k \in 1 .. Len(text) : ShowsProduct(text, k)
<1> DEFINE n == Len(text)
           F(k) == FactorValue(text[k])
           S(k) == Scaled(text[k])
           R(k) == Returned(text)[k]
           P(k) == Products(text)[k]
           T == {k \in 1 .. n : ShowsProduct(text, k)}
           Right(k) ==
             /\ P(k) \in Nat
             /\ R(k) \in Word => R(k) = P(k)
             /\ (\A j \in k .. n : text[j].num > 0) =>
                   P(k) > 0 /\ R(k) # Killed /\ (R(k) = Illegal <=> P(k) >= Modulus)
<1>1. /\ n \in Nat \ {0}
      /\ \A j \in 1 .. n : text[j] \in TextFactors /\ text[j].num \in Word
                           /\ ~text[j].junk
  BY DEF WellFormed
<1>2. /\ Word \subseteq Nat /\ 0 \in Word
      /\ Illegal < 0 /\ Killed < 0 /\ Illegal # Killed
      /\ Illegal \notin Word /\ Killed \notin Word
      /\ Modulus \in Nat /\ \A w \in Word : w < Modulus
  BY ModulusAssumption DEF Word, Illegal, Killed
<1>3. \A k \in 1 .. n :
        /\ R(k) = IF F(k) < 0 \/ k = n THEN F(k) ELSE Joined(F(k), R(k + 1))
        /\ P(k) = IF k = n THEN S(k) ELSE S(k) * P(k + 1)
  BY <1>1, ReturnedEquation, ProductsEquation
<1>4. \A k \in 1 .. n :
        /\ S(k) \in Nat
        /\ text[k].num > 0 => S(k) > 0
        /\ \/ F(k) \in Word /\ F(k) = S(k) /\ S(k) < Modulus
           \/ F(k) = Illegal /\ S(k) >= Modulus
  <2> SUFFICES ASSUME NEW k \in 1 .. n
               PROVE  /\ S(k) \in Nat
                      /\ text[k].num > 0 => S(k) > 0
                      /\ \/ F(k) \in Word /\ F(k) = S(k) /\ S(k) < Modulus
                         \/ F(k) = Illegal /\ S(k) >= Modulus
    OBVIOUS
  <2>1. text[k] \in TextFactors /\ text[k].num \in Word /\ ~text[k].junk
    BY <1>1
  <2>2. /\ F(k) \in Word \cup {Illegal}
        /\ S(k) \in Nat
        /\ F(k) \in Word <=> S(k) < Modulus
        /\ F(k) \in Word => F(k) = S(k)
        /\ text[k].num > 0 => S(k) > 0
    BY <2>1, FactorRight
  <2> HIDE DEF F, S
  <2> QED
    BY <1>2, <2>2
<1>5. n \in T
  <2>1. n \in 1 .. n /\ \A j \in n .. n : j = n
    BY <1>1
  <2>2. R(n) = F(n) /\ P(n) = S(n)
    BY <1>3, <2>1
  <2>3. n \in n .. n
    BY <1>1
  <2>4. Right(n)
    <3> HIDE DEF n, F, R, S, P
    <3> QED
      BY <1>2, <1>4, <2>1, <2>2, <2>3
  <2> QED
    BY <2>1, <2>4 DEF ShowsProduct
<1>6. ASSUME NEW k \in 1 .. n - 1, k + 1 \in T
      PROVE  k \in T
  <2>1. /\ k \in 1 .. n /\ k # n /\ k + 1 \in 1 .. n
        /\ k \in k .. n
        /\ \A j \in (k + 1) .. n : j \in k .. n
    BY <1>1
  <2> DEFINE num == F(k)  more == R(k + 1)  s == S(k)  q == P(k + 1)
             AllPositive(i) == \A j \in i .. n : text[j].num > 0
  <2>2. R(k) = (IF num < 0 THEN num ELSE Joined(num, more)) /\ P(k) = s * q
    BY <1>3, <2>1
  <2>3. /\ s \in Nat /\ (text[k].num > 0 => s > 0)
        /\ \/ num \in Word /\ num = s /\ s < Modulus
           \/ num = Illegal /\ s >= Modulus
    BY <1>4, <2>1
  <2>4. /\ q \in Nat
        /\ more \in Word => more = q
        /\ AllPositive(k + 1) =>
              q > 0 /\ more # Killed /\ (more = Illegal <=> q >= Modulus)
    BY <1>6 DEF ShowsProduct
  <2>5. more \in Word \cup {Illegal, Killed}
    BY <2>1, EachCallShows DEF Shows
  <2>6. AllPositive(k) => AllPositive(k + 1) /\ text[k].num > 0
    BY <2>1
  <2>7. SUFFICES Right(k)
    BY <2>1 DEF ShowsProduct
  <2>8. SUFFICES /\ P(k) \in Nat
                 /\ R(k) \in Word => R(k) = P(k)
                 /\ AllPositive(k) =>
                       /\ P(k) > 0 /\ R(k) # Killed
                       /\ R(k) = Illegal <=> P(k) >= Modulus
    OBVIOUS
  <2>9. P(k) \in Nat
    <3> HIDE DEF s, q, P
    <3> QED
      BY <2>2, <2>3, <2>4, ProductPositive
  <2>10. AllPositive(k) => s > 0 /\ q > 0 /\ P(k) > 0
    <3> HIDE DEF s, q, P, AllPositive
    <3> QED
      BY <2>2, <2>3, <2>4, <2>6, ProductPositive
  <2> HIDE DEF num, more, s, q, F, R, S, P, T, n, AllPositive
  <2>11. CASE num \notin Word
    <3>1. R(k) = Illegal /\ s >= Modulus
      BY <1>2, <2>2, <2>3, <2>11
    <3>2. AllPositive(k) => P(k) >= Modulus
      BY <1>2, <2>2, <2>3, <2>4, <2>10, <3>1, ProductLarge
    <3> QED
      BY <1>2, <2>9, <2>10, <3>1, <3>2
  <2>12. CASE num \in Word /\ more \notin Word
    <3>1. R(k) = more
      BY <1>2, <2>2, <2>5, <2>12, JoinedRight
    <3>2. AllPositive(k) => more = Illegal /\ q >= Modulus
      BY <2>4, <2>5, <2>6, <2>12
    <3>3. AllPositive(k) => P(k) >= Modulus
      BY <1>2, <2>2, <2>3, <2>4, <2>10, <3>2, ProductLarge
    <3> QED
      BY <1>2, <2>9, <2>10, <2>12, <3>1, <3>2, <3>3
  <2>13. CASE num \in Word /\ more = 0
    <3>1. R(k) = Killed
      BY <1>2, <2>2, <2>5, <2>13, JoinedRight
    <3>2. ~AllPositive(k)
      BY <1>2, <2>4, <2>10, <2>13
    <3> QED
      BY <1>2, <2>9, <3>1, <3>2
  <2>14. CASE num \in Word /\ more \in Word /\ more > 0
    <3>1. num = s /\ more = q
      BY <1>2, <2>3, <2>4, <2>14
    <3>2. R(k) = IF num * more >= Modulus THEN Illegal ELSE num * more
      BY <1>2, <2>2, <2>14, JoinedRight
    <3>3. R(k) = IF P(k) >= Modulus THEN Illegal ELSE P(k)
      BY <2>2, <3>1, <3>2
    <3> QED
      BY <1>2, <2>9, <2>10, <3>3
  <2> QED
    BY <1>2, <2>5, <2>11, <2>12, <2>13, <2>14
<1>7. \A k \in 1 .. n : k \in T
  <2> HIDE DEF T, n
  <2> QED
    BY <1>1, <1>5, <1>6, FromTheEnd
<1> QED
  BY <1>7

\* What get_num promises, for every text there is.
LEMMA GetNumRight ==
    ASSUME NEW text \in Seq(TextFactors), text # <<>>
    PROVE  IsProduct(text)
<1>1. 1 \in 1 .. Len(text) /\ DOMAIN text = 1 .. Len(text)
      /\ \A j \in (1 + 1) .. Len(text) : j \in (1 .. Len(text)) \ {1}
  OBVIOUS
<1>2. Shows(text, 1) /\ (WellFormed(text) => ShowsProduct(text, 1))
  BY <1>1, EachCallShows, EachCallMultiplies
<1>3. get_num(text) = Returned(text)[1] /\ TrueProduct(text) = Products(text)[1]
  BY DEF get_num, TrueProduct
<1>4. get_num(text) \in Word \cup {Illegal, Killed}
  BY <1>2, <1>3 DEF Shows
<1>5. get_num(text) \in Word =>
        WellFormed(text) /\ get_num(text) = TrueProduct(text)
  BY <1>1, <1>2, <1>3 DEF Shows, ShowsProduct, WellFormed
<1>6. WellFormed(text) /\ (\A k \in DOMAIN text : text[k].num > 0) =>
        (get_num(text) = Illegal <=> TrueProduct(text) >= Modulus)
  BY <1>1, <1>2, <1>3 DEF ShowsProduct
<1>7. get_num(text) = Killed => \E k \in DOMAIN text \ {1} : text[k].num = 0
  BY <1>1, <1>2, <1>3 DEF Shows
<1> QED
  BY <1>4, <1>5, <1>6, <1>7 DEF IsProduct

\* The value of -r, or of the server's -s, is the product its text states or
\* the program ends, for every text, every word size and every program.
THEOREM ProductCorrect == StSpec => []ProductRight
<1>1. StInit => rtext \in Texts
  BY DEF StInit
<1>2. rtext \in Texts /\ [StNext]_svars => (rtext \in Texts)'
  BY DEF StNext, svars, Options, SetCpu, MakeSlots, Call, OpenSocket,
         ConnectSocket, SetBuffer, Watch, BindSocket, TakeRequest,
         SetSendBuffer, ConnectBack, SendRequest, InstallHandlers, StartTimer,
         SetStart, Interrupted
<1>3. rtext \in Texts => ProductRight
  BY StartupAssumption, GetNumRight DEF ProductRight
<1> QED
  BY <1>1, <1>2, <1>3, PTL DEF StSpec
=============================================================================
