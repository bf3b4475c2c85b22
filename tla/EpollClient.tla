---------------------------- MODULE EpollClient ----------------------------
(***************************************************************************)
(* epoll-client: one process, one epoll set, one UDP socket per server.    *)
(* It builds the list of servers from its arguments, opens and registers   *)
(* a socket for each, sends each a first packet, and then reads and counts *)
(* for ever.  SIGINT and SIGTERM print what was counted so far and end the *)
(* program; they may come between any two steps from the very start.       *)
(*                                                                         *)
(* A host is the number of its argument.  An argument for which no memory  *)
(* is left is dropped from the list, yet n_server counts it.               *)
(*                                                                         *)
(* The first packet is an uninitialised array, so what the servers make of *)
(* it is free: they send datagrams of one length, or none.                 *)
(***************************************************************************)
EXTENDS Integers, SequencesExt

CONSTANTS
    NHosts,       \* arguments
    ReadSizes,    \* what -b may be, as the int it becomes
    Lengths,      \* lengths the servers may send
    Room,         \* datagrams the kernel queues on a socket
    CountValues   \* number of values of a long long

ASSUME EpollAssumption ==
    /\ NHosts \in Nat \ {0}
    /\ ReadSizes \subseteq Int
    /\ Lengths \subseteq Nat \ {0}
    /\ Room \in Nat /\ CountValues \in Nat \ {0}

Hosts == 1 .. NHosts

VARIABLES
    read_size,    \* an int
    len,          \* what the servers send
    epc,          \* where the process is
    ei,           \* index of the loop over the arguments or the list
    host_list,    \* the hosts on the list
    sock,         \* each host's socket
    n_server,     \* sockets thought open
    watched,      \* sockets in the epoll set
    ev_ret,       \* events returned and not yet handled
    read_bytes, read_count,     \* per host
    asked,        \* hosts sent a first packet
    queued,       \* datagrams in a host's socket
    refused,      \* an ICMP error waits in a host's socket
    arrivals      \* history: datagrams queued so far, as a long long

setup  == <<read_size, len>>
counts == <<read_bytes, read_count>>
sockets == <<queued, refused, arrivals>>
evars  == <<setup, epc, ei, host_list, sock, n_server, watched, ev_ret,
            counts, asked, sockets>>

EEnded  == {"done", "failed", "summary"}
Stages  == {"hosts", "sockets", "rcvbuf", "connect", "add", "request"}
Looping == {"wait", "event", "count"}

Add(a, b) == (a + b) % CountValues
Listed    == Range(host_list)
OpenHosts == {h \in Hosts : sock[h] = "open"}

-----------------------------------------------------------------------------
(***************************************************************************)
(* Start-up: one loop over the arguments and five over the list.           *)
(***************************************************************************)
EInit ==
    /\ read_size \in ReadSizes
    /\ len \in Lengths
    /\ epc = "hosts"
    /\ ei = 1
    /\ host_list = <<>>
    /\ sock = [h \in Hosts |-> "none"]
    /\ n_server = NHosts
    /\ watched = {}
    /\ ev_ret = <<>>
    /\ read_bytes = [h \in Hosts |-> 0]
    /\ read_count = [h \in Hosts |-> 0]
    /\ asked = {}
    /\ queued = [h \in Hosts |-> 0]
    /\ refused = {}
    /\ arrivals = [h \in Hosts |-> 0]

\* A pointer to a host is a sequence of at most one, NULL the empty one, which
\* new_host gives when malloc fails.
new_host(h) == {<<h>>, <<>>}

\* Walks to the last element and makes newp its next, or the list itself.
addend(list, newp) == list \o newp

\* What is NULL is appended as well.
NewHost ==
    /\ epc = "hosts" /\ ei <= NHosts
    /\ \E newp \in new_host(ei) : host_list' = addend(host_list, newp)
    /\ ei' = ei + 1
    /\ UNCHANGED <<setup, epc, sock, n_server, watched, ev_ret, counts, asked,
                   sockets>>

\* One loop is over, and the next starts at the head of the list.
NextStage ==
    /\ \/ epc = "hosts" /\ ei > NHosts
       \/ epc \in Stages \ {"hosts"} /\ ei > Len(host_list)
    /\ epc' = CASE epc = "hosts"   -> "sockets"
                [] epc = "sockets" -> "rcvbuf"
                [] epc = "rcvbuf"  -> "connect"
                [] epc = "connect" -> "add"
                [] epc = "add"     -> "request"
                [] epc = "request" -> "wait"
    /\ ei' = 1
    /\ UNCHANGED <<setup, host_list, sock, n_server, watched, ev_ret, counts,
                   asked, sockets>>

OpenOne ==
    /\ epc = "sockets" /\ ei <= Len(host_list)
    /\ sock' = [sock EXCEPT ![host_list[ei]] = "open"]
    /\ ei' = ei + 1
    /\ UNCHANGED <<setup, epc, host_list, n_server, watched, ev_ret, counts,
                   asked, sockets>>

\* -r and connect_udp; Startup has what they do, on which nothing here depends.
BufferOne ==
    /\ epc = "rcvbuf" /\ ei <= Len(host_list)
    /\ ei' = ei + 1
    /\ UNCHANGED <<setup, epc, host_list, sock, n_server, watched, ev_ret,
                   counts, asked, sockets>>

ConnectOne ==
    /\ epc = "connect" /\ ei <= Len(host_list)
    /\ ei' = ei + 1
    /\ UNCHANGED <<setup, epc, host_list, sock, n_server, watched, ev_ret,
                   counts, asked, sockets>>

WatchOne ==
    /\ epc = "add" /\ ei <= Len(host_list)
    /\ watched' = watched \cup {host_list[ei]}
    /\ ei' = ei + 1
    /\ UNCHANGED <<setup, epc, host_list, sock, n_server, ev_ret, counts,
                   asked, sockets>>

\* From its first packet on a server may answer, while others wait for theirs.
AskOne ==
    /\ epc = "request" /\ ei <= Len(host_list)
    /\ asked' = asked \cup {host_list[ei]}
    /\ ei' = ei + 1
    /\ UNCHANGED <<setup, epc, host_list, sock, n_server, watched, ev_ret,
                   counts, sockets>>

\* A system call of the loops over the list, or one between them, fails.
SetupFails ==
    /\ epc \in Stages \ {"hosts"}
    /\ epc' = "failed"
    /\ UNCHANGED <<setup, ei, host_list, sock, n_server, watched, ev_ret,
                   counts, asked, sockets>>

-----------------------------------------------------------------------------
(***************************************************************************)
(* The loop.                                                               *)
(***************************************************************************)

\* Level-triggered: a socket with something to read is reported every time.
Ready == {h \in watched : queued[h] > 0 \/ h \in refused}

\* A mistake: only one event is taken, and the kernel may choose the same host
\* for ever.
EpollWaitOne ==
    /\ epc = "wait" /\ Ready # {}
    /\ \E h \in Ready : ev_ret' = <<h>>
    /\ epc' = "event"
    /\ UNCHANGED <<setup, ei, host_list, sock, n_server, watched, counts,
                   asked, sockets>>

\* epoll_wait returns ready sockets in any order, at most n_server of them.  A
\* timeout and EINTR lead back to epoll_wait.
EpollWait ==
    /\ epc = "wait" /\ Ready # {}
    /\ \E s \in SetToSeqs(Ready) :
          ev_ret' = SubSeq(s, 1, IF Len(s) <= n_server THEN Len(s) ELSE n_server)
    /\ epc' = "event"
    /\ UNCHANGED <<setup, ei, host_list, sock, n_server, watched, counts,
                   asked, sockets>>

\* A mistake: an event is taken to mean two datagrams.
ReadEventTwice ==
    /\ epc = "event" /\ read_size > 0
    /\ LET h == Head(ev_ret)
       IN /\ queued[h] > 0 /\ h \notin refused
          /\ queued' = [queued EXCEPT ![h] = @ - 2]
          /\ read_bytes' = [read_bytes EXCEPT ![h] = Add(@, 2 * len)]
    /\ epc' = "count"
    /\ UNCHANGED <<setup, ei, host_list, sock, n_server, watched, ev_ret,
                   read_count, asked, refused, arrivals>>

\* One datagram, cut to read_size.  SIGINT may come before it is counted.
ReadEvent ==
    /\ epc = "event" /\ read_size > 0
    /\ LET h == Head(ev_ret)
       IN /\ queued[h] > 0 /\ h \notin refused
          /\ queued' = [queued EXCEPT ![h] = @ - 1]
          /\ read_bytes' = [read_bytes EXCEPT
                 ![h] = Add(@, IF len <= read_size THEN len ELSE read_size)]
    /\ epc' = "count"
    /\ UNCHANGED <<setup, ei, host_list, sock, n_server, watched, ev_ret,
                   read_count, asked, refused, arrivals>>

\* To the next event, or back to epoll_wait.
NextEvent ==
    /\ ev_ret' = Tail(ev_ret)
    /\ epc' = IF Len(ev_ret) = 1 THEN "wait" ELSE "event"

\* A mistake: the count is kept for the program instead of the host.
CountReadOnce ==
    /\ epc = "count"
    /\ read_count' = [read_count EXCEPT ![1] = Add(@, 1)]
    /\ NextEvent
    /\ UNCHANGED <<setup, ei, host_list, sock, n_server, watched, read_bytes,
                   asked, sockets>>

CountRead ==
    /\ epc = "count"
    /\ read_count' = [read_count EXCEPT ![Head(ev_ret)] = Add(@, 1)]
    /\ NextEvent
    /\ UNCHANGED <<setup, ei, host_list, sock, n_server, watched, read_bytes,
                   asked, sockets>>

\* A mistake: the socket is closed and stays in the epoll set, and so do its
\* events.
CloseHostWatched ==
    /\ epc = "event" /\ read_size = 0
    /\ sock' = [sock EXCEPT ![Head(ev_ret)] = "closed"]
    /\ n_server' = n_server - 1
    /\ IF n_server' = 0 THEN epc' = "done" /\ ev_ret' = Tail(ev_ret)
                        ELSE NextEvent
    /\ UNCHANGED <<setup, ei, host_list, watched, counts, asked, sockets>>

\* A mistake: the program does not end with the last socket.
CloseHostOnly ==
    /\ epc = "event" /\ read_size = 0
    /\ sock' = [sock EXCEPT ![Head(ev_ret)] = "closed"]
    /\ watched' = watched \ {Head(ev_ret)}
    /\ n_server' = n_server - 1
    /\ NextEvent
    /\ UNCHANGED <<setup, ei, host_list, counts, asked, sockets>>

\* read() gives 0, which for the program means that the server has closed.
\* These servers send no empty datagram, so it happens with -b 0, where read()
\* returns before it looks at the socket.
CloseHost ==
    /\ epc = "event" /\ read_size = 0
    /\ sock' = [sock EXCEPT ![Head(ev_ret)] = "closed"]
    /\ watched' = watched \ {Head(ev_ret)}
    /\ n_server' = n_server - 1
    /\ IF n_server' = 0 THEN epc' = "done" /\ ev_ret' = Tail(ev_ret)
                        ELSE NextEvent
    /\ UNCHANGED <<setup, ei, host_list, counts, asked, sockets>>

\* An ICMP error on one socket, or a size that is huge as a size_t, ends the
\* program for all of them.
EReadFails ==
    /\ epc = "event"
    /\ read_size < 0 \/ (read_size > 0 /\ Head(ev_ret) \in refused)
    /\ epc' = "failed"
    /\ UNCHANGED <<setup, ei, host_list, sock, n_server, watched, ev_ret,
                   counts, asked, sockets>>

\* SIGINT or SIGTERM; the handler prints and exits.
ESigInt ==
    /\ epc \notin EEnded
    /\ epc' = "summary"
    /\ UNCHANGED <<setup, ei, host_list, sock, n_server, watched, ev_ret,
                   counts, asked, sockets>>

-----------------------------------------------------------------------------
(***************************************************************************)
(* The servers and the network.                                            *)
(***************************************************************************)
HostSends(h) ==
    /\ epc \notin EEnded /\ h \in asked
    /\ sock[h] = "open" /\ queued[h] < Room
    /\ queued' = [queued EXCEPT ![h] = @ + 1]
    /\ arrivals' = [arrivals EXCEPT ![h] = Add(@, 1)]
    /\ UNCHANGED <<setup, epc, ei, host_list, sock, n_server, watched, ev_ret,
                   counts, asked, refused>>

\* The server is not there.
HostRefuses(h) ==
    /\ epc \notin EEnded /\ h \in asked
    /\ sock[h] = "open" /\ h \notin refused
    /\ refused' = refused \cup {h}
    /\ UNCHANGED <<setup, epc, ei, host_list, sock, n_server, watched, ev_ret,
                   counts, asked, queued, arrivals>>

-----------------------------------------------------------------------------
EpollStep ==
    \/ NewHost \/ NextStage \/ OpenOne \/ BufferOne \/ ConnectOne
    \/ WatchOne \/ AskOne
    \/ EpollWait \/ ReadEvent \/ CountRead \/ CloseHost \/ EReadFails

ENext ==
    \/ EpollStep \/ SetupFails \/ ESigInt
    \/ \E h \in Hosts : HostSends(h) \/ HostRefuses(h)

\* The process runs; nothing is asked of the servers, the network or the user.
ESpec == EInit /\ [][ENext]_evars /\ WF_evars(EpollStep)

-----------------------------------------------------------------------------
(***************************************************************************)
(* Properties.                                                             *)
(***************************************************************************)
ETypeOK ==
    /\ read_size \in ReadSizes
    /\ len \in Lengths
    /\ epc \in Stages \cup Looping \cup EEnded
    /\ ei \in 1 .. NHosts + 1
    /\ host_list \in Seq(Hosts)
    /\ sock \in [Hosts -> {"none", "open", "closed"}]
    /\ n_server \in 0 .. NHosts
    /\ watched \subseteq Hosts
    /\ ev_ret \in Seq(Hosts)
    /\ read_bytes \in [Hosts -> 0 .. CountValues - 1]
    /\ read_count \in [Hosts -> 0 .. CountValues - 1]
    /\ asked \subseteq Hosts
    /\ queued \in [Hosts -> 0 .. Room]
    /\ refused \subseteq Hosts
    /\ arrivals \in [Hosts -> 0 .. CountValues - 1]

\* Every event still to be handled is about an open socket, is there once, and
\* its read() will not block, although events before it have closed sockets.
NoStaleEvent ==
    epc \in {"event", "count"} =>
        /\ ev_ret # <<>> /\ IsInjective(ev_ret)
        /\ \A k \in DOMAIN ev_ret :
              /\ sock[ev_ret[k]] = "open"
              /\ (epc = "count" /\ k = 1) \/ queued[ev_ret[k]] > 0
                    \/ ev_ret[k] \in refused

\* n_server is the number of open sockets and of arguments that were dropped,
\* and the program waits only while it is not 0.
ServersCounted ==
    epc \in Looping =>
        /\ n_server = Cardinality(OpenHosts) + (NHosts - Len(host_list))
        /\ n_server > 0

\* What a summary prints for a host counts every datagram that was taken from
\* its socket, except the one whose counting SIGINT broke off.
HostAccounting ==
    \A h \in Hosts :
        LET taken == arrivals[h] - queued[h]
            size  == IF len <= read_size THEN len ELSE read_size
            late  == (taken - read_count[h]) % CountValues
        IN /\ late \in {0, 1 % CountValues}
           /\ late # 0 => (epc \in {"count", "summary"} /\ ev_ret # <<>>
                             /\ h = Head(ev_ret))
           /\ read_size > 0 =>
                 read_bytes[h] = (taken * size) % CountValues

\* No server starves another: what is queued for a host is read, its socket is
\* closed, or the program ends.
HostsServed ==
    \A h \in Hosts :
        h \in watched /\ queued[h] > 0
            ~> (epc = "count" /\ Head(ev_ret) = h) \/ sock[h] = "closed"
               \/ epc \in EEnded
=============================================================================
