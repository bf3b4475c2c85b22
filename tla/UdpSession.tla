----------------------------- MODULE UdpSession -----------------------------
(***************************************************************************)
(* The server, its readers and the network between them.                   *)
(*                                                                         *)
(* A reader is udp-read-trend seen through the meter that TrendReader      *)
(* implements: it asks once, counts datagrams, and ends at a SIGINT or at  *)
(* a read error.  A reader that is started again has a new address and is  *)
(* another peer.                                                           *)
(*                                                                         *)
(* Datagrams to a reader queue in the network and then in its socket.  A   *)
(* datagram that finds no socket is answered with an ICMP error, which     *)
(* travels back by itself and may find that the sender has moved on.       *)
(***************************************************************************)
EXTENDS Server, SequencesExt

CONSTANTS
    RequestOf,      \* what each reader asks for
    Network,        \* what the network does: "loss", "dup", "reorder"
    NetQueue,       \* datagrams in the send buffer and the network
    RcvBuf,         \* datagrams the kernel queues on a reader's socket
    MaxSends,       \* numbers a session uses; no bound if Modulus
    Alarms          \* the server's timer expires; one second may be long

ASSUME SessionAssumption ==
    /\ RequestOf \in [Peers -> Requests]
    /\ \A r \in Peers : /\ "bufsize" \in DOMAIN RequestOf[r]
                       /\ RequestOf[r].bufsize \in 1 .. MaxDatagram
    /\ Network \subseteq {"loss", "dup", "reorder"}
    /\ NetQueue \in Nat /\ RcvBuf \in Nat /\ MaxSends \in Nat
    /\ Alarms \in BOOLEAN

VARIABLES
    rpc,                    \* where each reader is
    rq, rerr,               \* its socket: queued datagrams, pending error
    total_read_counter, total_drop_counter,
    requests,               \* requests on their way to the server
    wire,                   \* datagrams on their way to each reader
    icmp_server,            \* ICMP errors on their way, by the unreachable peer
    icmp_reader,            \* ICMP errors on their way to readers
    lost,                   \* history: numbers each reader will not see
    unheard                 \* history: readers that will get no answer

readers == <<rpc, rq, rerr, total_read_counter, total_drop_counter>>
network == <<requests, wire, icmp_server, icmp_reader>>
history == <<lost, unheard>>
uvars   == <<svars, readers, network, history>>

Gone      == {"interrupted", "failed"}
Datagrams == [seq : Word, len : 1 .. MaxDatagram]
Served(r) == Serving /\ cliaddr = r

UInit ==
    /\ SInit
    /\ rpc = [r \in Peers |-> "start"]
    /\ rq = [r \in Peers |-> <<>>]
    /\ rerr = [r \in Peers |-> FALSE]
    /\ total_read_counter = [r \in Peers |-> 0]
    /\ total_drop_counter = [r \in Peers |-> 0]
    /\ requests = {}
    /\ wire = [r \in Peers |-> <<>>]
    /\ icmp_server = {}
    /\ icmp_reader = {}
    /\ lost = [r \in Peers |-> {}]
    /\ unheard = {}

-----------------------------------------------------------------------------
(***************************************************************************)
(* The server's steps.                                                     *)
(***************************************************************************)
Local ==
    /\ \/ LocalStep
       \/ SyscallFails
       \/ Alarms /\ SigAlarm
    /\ UNCHANGED <<readers, network, history>>

\* connect: the requests still in the queue stay there and are never read.
Connect ==
    /\ StartSession
    /\ unheard' = unheard \cup {sk_q[i].peer : i \in DOMAIN sk_q}
    /\ UNCHANGED <<readers, network, lost>>

\* A mistake: the last byte is not written.
SendShort ==
    /\ WriteDatagram
    /\ seq_num < MaxSends
    /\ Len(wire[cliaddr]) < NetQueue
    /\ wire' = [wire EXCEPT ![cliaddr] =
                   Append(@, [seq |-> seq_num,
                              len |-> arg_to_server.bufsize - 1])]
    /\ UNCHANGED <<readers, requests, icmp_server, icmp_reader, history>>

\* write(): blocks while the send buffer is full.
Send ==
    /\ WriteDatagram
    /\ seq_num < MaxSends
    /\ Len(wire[cliaddr]) < NetQueue
    /\ wire' = [wire EXCEPT ![cliaddr] =
                   Append(@, [seq |-> seq_num, len |-> arg_to_server.bufsize])]
    /\ UNCHANGED <<readers, requests, icmp_server, icmp_reader, history>>

-----------------------------------------------------------------------------
(***************************************************************************)
(* A reader's steps.                                                       *)
(***************************************************************************)

\* A mistake: the request is sent again while no answer has come.
AskAgain(r) ==
    /\ rpc[r] = "start" \/ (rpc[r] = "reading" /\ total_read_counter[r] = 0)
    /\ rpc' = [rpc EXCEPT ![r] = "reading"]
    /\ requests' = requests \cup {r}
    /\ UNCHANGED <<svars, rq, rerr, total_read_counter, total_drop_counter,
                   wire, icmp_server, icmp_reader, history>>

\* The first packet.
Ask(r) ==
    /\ rpc[r] = "start"
    /\ rpc' = [rpc EXCEPT ![r] = "reading"]
    /\ requests' = requests \cup {r}
    /\ UNCHANGED <<svars, rq, rerr, total_read_counter, total_drop_counter,
                   wire, icmp_server, icmp_reader, history>>

\* A mistake: the counter is not moved to the number that was read.
ReadBehind(r) ==
    /\ rpc[r] = "reading" /\ ~rerr[r] /\ rq[r] # <<>>
    /\ LET s == Head(rq[r]).seq IN
       /\ total_drop_counter' =
             [total_drop_counter EXCEPT
                 ![r] = Plus(@, Minus(s, total_read_counter[r]))]
       /\ total_read_counter' = [total_read_counter EXCEPT ![r] = Succ(@)]
    /\ rq' = [rq EXCEPT ![r] = Tail(@)]
    /\ UNCHANGED <<svars, rpc, rerr, network, history>>

\* One turn of the loop: a datagram is read and counted.
Read(r) ==
    /\ rpc[r] = "reading" /\ ~rerr[r] /\ rq[r] # <<>>
    /\ LET s == Head(rq[r]).seq IN
       /\ total_drop_counter' =
             [total_drop_counter EXCEPT
                 ![r] = Plus(@, Minus(s, total_read_counter[r]))]
       /\ total_read_counter' = [total_read_counter EXCEPT ![r] = Succ(s)]
    /\ rq' = [rq EXCEPT ![r] = Tail(@)]
    /\ UNCHANGED <<svars, rpc, rerr, network, history>>

\* The reader ends, and its socket with what is queued on it.
Leave(r, how) ==
    /\ rpc[r] = "reading"
    /\ rpc' = [rpc EXCEPT ![r] = how]
    /\ rq' = [rq EXCEPT ![r] = <<>>]
    /\ rerr' = [rerr EXCEPT ![r] = FALSE]
    /\ UNCHANGED <<svars, total_read_counter, total_drop_counter, network,
                   history>>

ReadFails(r) == rerr[r] /\ Leave(r, "failed")
SigInt(r)    == Leave(r, "interrupted")

-----------------------------------------------------------------------------
(***************************************************************************)
(* The network.                                                            *)
(***************************************************************************)

\* A request reaches the server's host: the socket takes it, drops it because
\* its queue is full, or it is refused.
RequestArrives(r) ==
    /\ r \in requests
    /\ \/ /\ Deliver(r, RequestOf[r])
          /\ unheard' = IF Len(sk_q) < SockQueue
                        THEN unheard ELSE unheard \cup {r}
          /\ UNCHANGED icmp_reader
       \/ /\ ~Hears(r)
          /\ icmp_reader' = icmp_reader \cup {r}
          /\ UNCHANGED <<svars, unheard>>
    /\ \/ requests' = requests \ {r}
       \/ "dup" \in Network /\ UNCHANGED requests
    /\ UNCHANGED <<readers, wire, icmp_server, lost>>

\* A datagram reaches a reader's host.
DatagramArrives(r) ==
    /\ \E i \in DOMAIN wire[r] :
       LET d == wire[r][i] IN
       /\ i = 1 \/ "reorder" \in Network
       /\ \/ wire' = [wire EXCEPT ![r] = RemoveAt(@, i)]
          \/ "dup" \in Network /\ UNCHANGED wire
       /\ \/ /\ rpc[r] = "reading" /\ Len(rq[r]) < RcvBuf
             /\ rq' = [rq EXCEPT ![r] = Append(@, d)]
             /\ UNCHANGED <<icmp_server, lost>>
          \/ /\ rpc[r] = "reading" /\ Len(rq[r]) = RcvBuf
             /\ lost' = [lost EXCEPT ![r] = @ \cup {d.seq}]
             /\ UNCHANGED <<rq, icmp_server>>
          \/ /\ rpc[r] \in Gone
             /\ icmp_server' = icmp_server \cup {r}
             /\ UNCHANGED <<rq, lost>>
    /\ UNCHANGED <<svars, rpc, rerr, total_read_counter, total_drop_counter,
                   requests, icmp_reader, unheard>>

\* ICMP errors arrive.
IcmpToServer(r) ==
    /\ r \in icmp_server
    /\ Refused(r)
    /\ icmp_server' = icmp_server \ {r}
    /\ UNCHANGED <<readers, requests, wire, icmp_reader, history>>

IcmpToReader(r) ==
    /\ r \in icmp_reader
    /\ rerr' = [rerr EXCEPT ![r] = rpc[r] = "reading"]
    /\ icmp_reader' = icmp_reader \ {r}
    /\ UNCHANGED <<svars, rpc, rq, total_read_counter, total_drop_counter,
                   requests, wire, icmp_server, history>>

\* The network loses what it carries.
LoseDatagram(r) ==
    /\ "loss" \in Network /\ wire[r] # <<>>
    /\ wire' = [wire EXCEPT ![r] = Tail(@)]
    /\ lost' = [lost EXCEPT ![r] = @ \cup {Head(wire[r]).seq}]
    /\ UNCHANGED <<svars, readers, requests, icmp_server, icmp_reader,
                   unheard>>

LoseMessage(r) ==
    /\ "loss" \in Network
    /\ \/ /\ r \in requests /\ requests' = requests \ {r}
          /\ unheard' = unheard \cup {r}
          /\ UNCHANGED <<icmp_server, icmp_reader>>
       \/ /\ r \in icmp_reader /\ icmp_reader' = icmp_reader \ {r}
          /\ unheard' = unheard \cup {r}
          /\ UNCHANGED <<requests, icmp_server>>
       \/ /\ r \in icmp_server /\ icmp_server' = icmp_server \ {r}
          /\ UNCHANGED <<requests, icmp_reader, unheard>>
    /\ UNCHANGED <<svars, readers, wire, lost>>

-----------------------------------------------------------------------------
UNext ==
    \/ Local \/ Connect \/ Send
    \/ \E r \in Peers :
         \/ Ask(r) \/ Read(r) \/ ReadFails(r) \/ SigInt(r)
         \/ RequestArrives(r) \/ DatagramArrives(r)
         \/ IcmpToServer(r) \/ IcmpToReader(r)
         \/ LoseDatagram(r) \/ LoseMessage(r)

USpec == UInit /\ [][UNext]_uvars

\* The processes run, and the network delivers: at once or, if it loses
\* messages, what is sent again and again.
Serve == (Local /\ LocalStep) \/ Connect \/ Send

UFairSpec ==
    /\ USpec
    /\ WF_uvars(Serve)
    /\ \A r \in Peers :
         /\ WF_uvars(Read(r))
         /\ WF_uvars(ReadFails(r))
         /\ WF_uvars(RequestArrives(r))
         /\ WF_uvars(IcmpToReader(r))
         /\ SF_uvars(DatagramArrives(r))
         /\ SF_uvars(IcmpToServer(r))

-----------------------------------------------------------------------------
(***************************************************************************)
(* Properties.                                                             *)
(***************************************************************************)
UTypeOK ==
    /\ STypeOK
    /\ rpc \in [Peers -> {"start", "reading"} \cup Gone]
    /\ rq \in [Peers -> Seq(Datagrams)]
    /\ rerr \in [Peers -> BOOLEAN]
    /\ total_read_counter \in [Peers -> Word]
    /\ total_drop_counter \in [Peers -> Word]
    /\ requests \subseteq Peers
    /\ wire \in [Peers -> Seq(Datagrams)]
    /\ icmp_server \subseteq Peers
    /\ icmp_reader \subseteq Peers
    /\ lost \in [Peers -> SUBSET Word]
    /\ unheard \subseteq Peers

\* A session is never broken off by an ICMP error while its reader is there:
\* not by one about the peer of an earlier session that arrives late.
RefusedOnlyIfGone == sk_err => rpc[cliaddr] \in Gone

\* A reader that is told nobody listens is not being served, and will not be.
\* (A repeated request breaks this, so the network must not duplicate.)
RefusedReaderNotServed ==
    \A r \in Peers : r \in icmp_reader \/ rerr[r] =>
        /\ ~Served(r)
        /\ \A i \in DOMAIN sk_q : sk_q[i].peer # r

\* Each datagram is as long as its reader asked, whoever was served before, so
\* that one readn takes exactly one datagram.
Frames(r) == [seq : Word, len : {RequestOf[r].bufsize}]

FramesAsRequested ==
    \A r \in Peers : wire[r] \in Seq(Frames(r)) /\ rq[r] \in Seq(Frames(r))

\* README: udp-read-trend shows the number of dropped packets.  The counter is
\* the number of losses among the datagrams numbered before the next expected.
DropsAreLosses ==
    \A r \in Peers : total_drop_counter[r] =
        Cardinality({s \in lost[r] : s < total_read_counter[r]})

\* README: the server finds out that its client closed the socket.  So the
\* session of a reader that is gone ends, though any datagram, or any ICMP
\* error about one, may be lost; and the server waits for the next request.
GoneReaderIsLeft ==
    \A r \in Peers :
        (Served(r) /\ rpc[r] \in Gone) ~> (spc = "recvfrom")

\* A reader that asks is served or refused, unless the network or a full queue
\* lost its request or the refusal, or its request came between recvfrom and
\* connect, when it sits in the queue of a socket that will only talk to another.
AskingIsAnswered ==
    \A r \in Peers : rpc[r] = "reading" ~>
        (Served(r) \/ rpc[r] # "reading" \/ r \in unheard)
=============================================================================
