-------------------------- MODULE UdpSessionProofs --------------------------
(***************************************************************************)
(* The server among its readers, for every network: one that loses,        *)
(* repeats and reorders, and any number of readers and sessions.           *)
(***************************************************************************)
EXTENDS UdpSession, ServerProofs, SequenceTheorems, FiniteSetTheorems

-----------------------------------------------------------------------------
(***************************************************************************)
(* Among readers the server takes only steps it takes alone, so what is    *)
(* proved of it in ServerProofs holds here.                                *)
(***************************************************************************)
LEMMA ServerSteps == [UNext]_uvars => [SNext]_svars
<1> SUFFICES ASSUME [UNext]_uvars PROVE [SNext]_svars
  OBVIOUS
<1>1. CASE Local \/ Connect \/ Send
  BY <1>1 DEF Local, Connect, Send, SNext, ServerStep
<1>2. ASSUME NEW r \in Peers, RequestArrives(r) PROVE [SNext]_svars
  <2>1. CASE Deliver(r, RequestOf[r])
    <3>1. RequestOf[r] \in Requests
      BY SessionAssumption
    <3> QED
      BY <2>1, <3>1 DEF SNext, Environment
  <2>2. CASE UNCHANGED svars
    BY <2>2
  <2> QED
    BY <1>2, <2>1, <2>2 DEF RequestArrives
<1>3. ASSUME NEW r \in Peers, IcmpToServer(r) PROVE [SNext]_svars
  BY <1>3 DEF IcmpToServer, SNext, Environment
<1>4. ASSUME NEW r \in Peers,
             \/ Ask(r) \/ Read(r) \/ ReadFails(r) \/ SigInt(r)
             \/ DatagramArrives(r) \/ IcmpToReader(r)
             \/ LoseDatagram(r) \/ LoseMessage(r)
      PROVE  UNCHANGED svars
  BY <1>4 DEF Ask, Read, ReadFails, SigInt, Leave, DatagramArrives,
              IcmpToReader, LoseDatagram, LoseMessage
<1>5. CASE UNCHANGED uvars
  BY <1>5 DEF uvars
<1> QED
  BY <1>1, <1>2, <1>3, <1>4, <1>5 DEF UNext

\* The composition behaves, as far as the server goes, as the server alone.
THEOREM ServerInSession == USpec => SSpec
<1>1. UInit => SInit
  BY DEF UInit
<1> QED
  BY <1>1, ServerSteps, PTL DEF USpec, SSpec

-----------------------------------------------------------------------------
(***************************************************************************)
(* Errors.  One about a reader is only ever on its way when the reader is  *)
(* gone, which is for good; and a new socket has no error.                 *)
(***************************************************************************)
ReaderTypes ==
    /\ rpc \in [Peers -> {"start", "reading"} \cup Gone]
    /\ icmp_server \subseteq Peers

OnlyOfGone == \A r \in icmp_server : rpc[r] \in Gone

ErrInv == SInv /\ ReaderTypes /\ OnlyOfGone /\ RefusedOnlyIfGone

LEMMA ErrInit == UInit => ErrInv
<1> SUFFICES ASSUME UInit PROVE ErrInv
  OBVIOUS
<1>1. SInv /\ ~sk_err
  BY SInitInv DEF UInit, SInit
<1> QED
  BY <1>1 DEF UInit, ErrInv, ReaderTypes, OnlyOfGone, RefusedOnlyIfGone

\* A reader that is gone stays gone.
LEMMA GoneForGood ==
    ASSUME ReaderTypes, [UNext]_uvars
    PROVE  /\ rpc' \in [Peers -> {"start", "reading"} \cup Gone]
           /\ \A r \in Peers : rpc[r] \in Gone => rpc'[r] \in Gone
<1> USE DEF ReaderTypes, Gone
<1>1. CASE UNCHANGED rpc
  BY <1>1
<1>2. ASSUME NEW r \in Peers, Ask(r) \/ ReadFails(r) \/ SigInt(r)
      PROVE  /\ rpc' \in [Peers -> {"start", "reading"} \cup Gone]
             /\ \A x \in Peers : rpc[x] \in Gone => rpc'[x] \in Gone
  BY <1>2 DEF Ask, ReadFails, SigInt, Leave
<1>3. ASSUME NEW r \in Peers,
             \/ Read(r) \/ RequestArrives(r) \/ DatagramArrives(r)
             \/ IcmpToServer(r) \/ IcmpToReader(r) \/ LoseDatagram(r)
             \/ LoseMessage(r)
      PROVE  UNCHANGED rpc
  BY <1>3 DEF Read, RequestArrives, DatagramArrives, IcmpToServer, IcmpToReader,
              LoseDatagram, LoseMessage, readers
<1>4. CASE Local \/ Connect \/ Send \/ UNCHANGED uvars
  BY <1>1, <1>4 DEF Local, Connect, Send, uvars, readers
<1> QED
  BY <1>1, <1>2, <1>3, <1>4 DEF UNext

LEMMA IcmpOfGone ==
    ASSUME ReaderTypes, OnlyOfGone, [UNext]_uvars
    PROVE  \A r \in icmp_server' : r \in Peers /\ rpc'[r] \in Gone
<1>1. \A r \in Peers : rpc[r] \in Gone => rpc'[r] \in Gone
  BY GoneForGood
<1>2. CASE icmp_server' \subseteq icmp_server
  BY <1>1, <1>2 DEF ReaderTypes, OnlyOfGone
<1>3. ASSUME NEW r \in Peers, DatagramArrives(r)
      PROVE  \/ icmp_server' = icmp_server
             \/ icmp_server' = icmp_server \cup {r} /\ rpc[r] \in Gone
  BY <1>3 DEF DatagramArrives
<1>4. ASSUME NEW r \in Peers,
             \/ Ask(r) \/ Read(r) \/ ReadFails(r) \/ SigInt(r)
             \/ RequestArrives(r) \/ IcmpToServer(r) \/ IcmpToReader(r)
             \/ LoseDatagram(r) \/ LoseMessage(r)
      PROVE  icmp_server' \subseteq icmp_server
  BY <1>4 DEF Ask, Read, ReadFails, SigInt, Leave, RequestArrives, IcmpToServer,
              IcmpToReader, LoseDatagram, LoseMessage, network
<1>5. CASE Local \/ Connect \/ Send \/ UNCHANGED uvars
  BY <1>2, <1>5 DEF Local, Connect, Send, uvars, network
<1> QED
  BY <1>1, <1>2, <1>3, <1>4, <1>5 DEF UNext, ReaderTypes, OnlyOfGone

\* What the server's own steps do to a pending error.
LEMMA ErrorsKept ==
    ASSUME SInv, LocalStep \/ StartSession \/ WriteDatagram \/ SyscallFails
                   \/ SigAlarm
    PROVE  sk_err' => sk_err /\ UNCHANGED cliaddr
<1> USE DEF SInv, Phases, InSession
<1>1. CASE OpenSocket \/ RecvRequest
  BY <1>1 DEF OpenSocket, RecvRequest
<1>2. CASE NoBuffer \/ SyscallFails
  BY <1>2 DEF NoBuffer, SyscallFails, Exit
<1>3. CASE \/ StartSession \/ CheckAlarm \/ WriteNothing \/ WriteDatagram
           \/ WriteFails \/ Wait \/ CloseSocket \/ Disarm \/ SigAlarm
  BY <1>3 DEF StartSession, CheckAlarm, WriteNothing, WriteDatagram, Counted,
              WriteFails, Wait, CloseSocket, Disarm, SigAlarm, serverSocket,
              session
<1> QED
  BY <1>1, <1>2, <1>3 DEF LocalStep

LEMMA ErrNext == ErrInv /\ [UNext]_uvars => ErrInv'
<1> SUFFICES ASSUME ErrInv, [UNext]_uvars PROVE ErrInv'
  OBVIOUS
<1>1. SInv'
  BY ServerSteps, SNextInv DEF ErrInv
<1>2. ReaderTypes' /\ OnlyOfGone'
  BY GoneForGood, IcmpOfGone DEF ErrInv, ReaderTypes, OnlyOfGone
<1>3. RefusedOnlyIfGone'
  <2>1. sk_err => cliaddr \in Peers /\ rpc'[cliaddr] \in Gone
    BY GoneForGood DEF ErrInv, SInv, Phases, RefusedOnlyIfGone
  <2>2. CASE sk_err' => sk_err /\ UNCHANGED cliaddr
    BY <2>1, <2>2 DEF RefusedOnlyIfGone
  <2>3. CASE Local \/ Connect \/ Send
    BY <2>2, <2>3, ErrorsKept DEF ErrInv, Local, Connect, Send
  <2>4. ASSUME NEW r \in Peers, IcmpToServer(r)
        PROVE  RefusedOnlyIfGone'
    <3>1. rpc' = rpc /\ rpc[r] \in Gone /\ cliaddr' = cliaddr
      BY <2>4 DEF IcmpToServer, Refused, readers, session, ErrInv, OnlyOfGone
    <3>2. sk_err' => sk_err \/ r = cliaddr
      BY <2>4 DEF IcmpToServer, Refused
    <3> QED
      BY <3>1, <3>2 DEF ErrInv, RefusedOnlyIfGone
  <2>5. ASSUME NEW r \in Peers,
               \/ Ask(r) \/ Read(r) \/ ReadFails(r) \/ SigInt(r)
               \/ RequestArrives(r) \/ DatagramArrives(r) \/ IcmpToReader(r)
               \/ LoseDatagram(r) \/ LoseMessage(r)
        PROVE  UNCHANGED <<sk_err, cliaddr>>
    BY <2>5 DEF Ask, Read, ReadFails, SigInt, Leave, RequestArrives, Deliver,
                DatagramArrives, IcmpToReader, LoseDatagram, LoseMessage,
                svars, serverSocket, session
  <2>6. CASE UNCHANGED uvars
    BY <2>2, <2>6 DEF uvars, svars, serverSocket, session
  <2> QED
    BY <2>2, <2>3, <2>4, <2>5, <2>6 DEF UNext
<1> QED
  BY <1>1, <1>2, <1>3 DEF ErrInv

\* A session is never broken off by an ICMP error while its reader is there,
\* however late, often and out of order errors arrive.
THEOREM RefusedCorrect == USpec => []RefusedOnlyIfGone
<1>1. ErrInv => RefusedOnlyIfGone
  BY DEF ErrInv
<1> QED
  BY <1>1, ErrInit, ErrNext, PTL DEF USpec

-----------------------------------------------------------------------------
(***************************************************************************)
(* Lengths.  The global holds the length the peer being served asked for,  *)
(* because every request covers that field, however short it is; what is   *)
(* queued on the server's socket is what its sender asked for.             *)
(***************************************************************************)
Asked == {[peer |-> p, req |-> RequestOf[p]] : p \in Peers}

Queues == /\ DOMAIN wire = Peers
          /\ DOMAIN rq = Peers
          /\ wire = [r \in Peers |-> wire[r]]
          /\ rq = [r \in Peers |-> rq[r]]

LengthAsked ==
    spc \in InSession \cup {"connect"} =>
        arg_to_server.bufsize = RequestOf[cliaddr].bufsize

FrameInv ==
    SInv /\ sk_q \in Seq(Asked) /\ LengthAsked /\ Queues /\ FramesAsRequested

LEMMA RemoveAtType ==
    ASSUME NEW S, NEW q \in Seq(S), NEW i \in DOMAIN q
    PROVE  RemoveAt(q, i) \in Seq(S)
<1>1. i \in 1 .. Len(q) /\ Len(q) \in Nat
  OBVIOUS
<1>2. SubSeq(q, 1, i - 1) \in Seq(S) /\ SubSeq(q, i + 1, Len(q)) \in Seq(S)
  BY <1>1, SubSeqProperties
<1> QED
  BY <1>2 DEF RemoveAt

LEMMA FrameInit == UInit => FrameInv
<1> SUFFICES ASSUME UInit PROVE FrameInv
  OBVIOUS
<1>1. SInv /\ sk_q \in Seq(Asked) /\ spc = "open"
  BY SInitInv DEF UInit, SInit
<1>2. Queues
  BY DEF UInit, Queues
<1>3. FramesAsRequested
  BY DEF UInit, FramesAsRequested
<1> QED
  BY <1>1, <1>2, <1>3 DEF FrameInv, LengthAsked, InSession

\* The server's queue and its global.
LEMMA AskedKept ==
    ASSUME FrameInv, [UNext]_uvars
    PROVE  sk_q' \in Seq(Asked) /\ LengthAsked'
<1> USE DEF FrameInv, LengthAsked, InSession
<1>1. CASE UNCHANGED <<spc, sk_q, cliaddr, arg_to_server>>
  BY <1>1
<1>2. CASE RecvRequest
  <2>1. Head(sk_q) \in Asked /\ Tail(sk_q) \in Seq(Asked)
    BY <1>2 DEF RecvRequest
  <2>2. PICK p \in Peers : Head(sk_q) = [peer |-> p, req |-> RequestOf[p]]
    BY <2>1 DEF Asked
  <2>3. cliaddr' = p /\ arg_to_server' = Received(RequestOf[p])
    BY <1>2, <2>2 DEF RecvRequest
  <2>4. Received(RequestOf[p])["bufsize"] = RequestOf[p].bufsize
    BY SessionAssumption DEF Received, Fields
  <2> QED
    BY <1>2, <2>1, <2>3, <2>4 DEF RecvRequest
<1>3. ASSUME sk_q' = <<>> \/ sk_q' = sk_q,
             spc' \in {"exited", "recvfrom", "disarm", "open"}
      PROVE  sk_q' \in Seq(Asked) /\ LengthAsked'
  <2>1. <<>> \in Seq(Asked)
    OBVIOUS
  <2> QED
    BY <1>3, <2>1
<1>4. CASE \/ NoBuffer \/ SyscallFails
           \/ OpenSocket \/ CloseSocket \/ Disarm
  BY <1>3, <1>4 DEF NoBuffer, SyscallFails, Exit, OpenSocket,
                    CloseSocket, Disarm, serverSocket
<1>5. CASE StartSession \/ CheckAlarm \/ WriteNothing \/ WriteDatagram
             \/ WriteFails \/ Wait \/ SigAlarm
  <2>0. SigAlarm => UNCHANGED <<spc, sk_q, cliaddr, arg_to_server>>
    BY AlarmRaisesFlag DEF FrameInv, SInv, serverSocket, session
  <2>1. UNCHANGED <<sk_q, cliaddr, arg_to_server>>
    BY <1>5, <2>0 DEF StartSession, CheckAlarm, WriteNothing, WriteDatagram,
                      Counted, WriteFails, Wait, serverSocket, session
  <2>2. spc' \in InSession => spc \in InSession \cup {"connect"}
    BY <1>5, <2>0 DEF StartSession, CheckAlarm, WriteNothing, WriteDatagram,
                      Counted, WriteFails, Wait
  <2>3. spc' # "connect" \/ spc' = spc
    BY <1>5, <2>0 DEF StartSession, CheckAlarm, WriteNothing, WriteDatagram,
                      Counted, WriteFails, Wait
  <2> QED
    BY <2>1, <2>2, <2>3
<1>6. CASE Local \/ Connect \/ Send
  BY <1>2, <1>4, <1>5, <1>6 DEF Local, LocalStep, Connect, Send
<1>7. ASSUME NEW r \in Peers, RequestArrives(r)
      PROVE  sk_q' \in Seq(Asked) /\ LengthAsked'
  <2>1. CASE Deliver(r, RequestOf[r])
    <3>1. [peer |-> r, req |-> RequestOf[r]] \in Asked
      BY DEF Asked
    <3>2. sk_q' \in Seq(Asked)
      BY <2>1, <3>1 DEF Deliver
    <3>3. UNCHANGED <<spc, cliaddr, arg_to_server>>
      BY <2>1 DEF Deliver, session
    <3> QED
      BY <3>2, <3>3
  <2>2. CASE UNCHANGED svars
    BY <1>1, <2>2 DEF svars, serverSocket, session
  <2> QED
    BY <1>7, <2>1, <2>2 DEF RequestArrives
<1>8. ASSUME NEW r \in Peers,
             \/ Ask(r) \/ Read(r) \/ ReadFails(r) \/ SigInt(r)
             \/ DatagramArrives(r) \/ IcmpToServer(r) \/ IcmpToReader(r)
             \/ LoseDatagram(r) \/ LoseMessage(r)
      PROVE  UNCHANGED <<spc, sk_q, cliaddr, arg_to_server>>
  BY <1>8 DEF Ask, Read, ReadFails, SigInt, Leave, DatagramArrives,
              IcmpToServer, Refused, IcmpToReader, LoseDatagram, LoseMessage,
              svars, serverSocket, session
<1>9. CASE UNCHANGED uvars
  BY <1>1, <1>9 DEF uvars, svars, serverSocket, session
<1> QED
  BY <1>1, <1>6, <1>7, <1>8, <1>9 DEF UNext

\* The queues of datagrams.
LEMMA FramesKept ==
    ASSUME FrameInv, [UNext]_uvars
    PROVE  Queues' /\ FramesAsRequested'
<1> USE DEF FrameInv, Queues, FramesAsRequested
<1>1. CASE UNCHANGED <<wire, rq>>
  BY <1>1 DEF Frames
<1>2. CASE Send
  <2> DEFINE d == [seq |-> seq_num, len |-> arg_to_server.bufsize]
  <2>1. cliaddr \in Peers /\ arg_to_server.bufsize = RequestOf[cliaddr].bufsize
    BY <1>2 DEF Send, WriteDatagram, SInv, Phases, InSession, LengthAsked
  <2>2. d \in Frames(cliaddr)
    BY <2>1 DEF Frames, SInv, STypeOK
  <2>3. /\ rq' = rq
        /\ wire' = [wire EXCEPT ![cliaddr] = Append(@, d)]
    BY <1>2 DEF Send, readers
  <2>4. \A r \in Peers : wire'[r] \in Seq(Frames(r))
    <3> HIDE DEF d
    <3>1. Append(wire[cliaddr], d) \in Seq(Frames(cliaddr))
      BY <2>1, <2>2
    <3> QED
      BY <2>3, <3>1
  <2> QED
    BY <2>3, <2>4 DEF Frames
<1>3. ASSUME NEW r \in Peers, Read(r) PROVE Queues' /\ FramesAsRequested'
  <2>1. wire' = wire /\ rq' = [rq EXCEPT ![r] = Tail(@)] /\ rq[r] # <<>>
    BY <1>3 DEF Read, network
  <2>2. Tail(rq[r]) \in Seq(Frames(r))
    BY <2>1
  <2> QED
    BY <2>1, <2>2 DEF Frames
<1>4. ASSUME NEW r \in Peers, ReadFails(r) \/ SigInt(r)
      PROVE  Queues' /\ FramesAsRequested'
  <2>1. wire' = wire /\ rq' = [rq EXCEPT ![r] = <<>>]
    BY <1>4 DEF ReadFails, SigInt, Leave, network
  <2> QED
    BY <2>1 DEF Frames
<1>5. ASSUME NEW r \in Peers, DatagramArrives(r)
      PROVE  Queues' /\ FramesAsRequested'
  <2>1. PICK i \in DOMAIN wire[r] :
          /\ \/ wire' = [wire EXCEPT ![r] = RemoveAt(wire[r], i)]
             \/ wire' = wire
          /\ \/ rq' = [rq EXCEPT ![r] = Append(@, wire[r][i])]
             \/ rq' = rq
    BY <1>5 DEF DatagramArrives
  <2>2. wire[r] \in Seq(Frames(r)) /\ rq[r] \in Seq(Frames(r))
    OBVIOUS
  <2>3. RemoveAt(wire[r], i) \in Seq(Frames(r))
    BY <2>2, RemoveAtType
  <2>4. wire[r][i] \in Frames(r)
    BY <2>2
  <2>5. Append(rq[r], wire[r][i]) \in Seq(Frames(r))
    BY <2>2, <2>4
  <2>6. \A x \in Peers : wire'[x] \in Seq(Frames(x))
    BY <2>1, <2>3
  <2>7. \A x \in Peers : rq'[x] \in Seq(Frames(x))
    BY <2>1, <2>5
  <2>8. Queues'
    BY <2>1
  <2> QED
    BY <2>6, <2>7, <2>8 DEF Frames
<1>6. ASSUME NEW r \in Peers, LoseDatagram(r)
      PROVE  Queues' /\ FramesAsRequested'
  <2>1. wire' = [wire EXCEPT ![r] = Tail(@)] /\ rq' = rq /\ wire[r] # <<>>
    BY <1>6 DEF LoseDatagram, readers
  <2>2. Tail(wire[r]) \in Seq(Frames(r))
    BY <2>1
  <2> QED
    BY <2>1, <2>2 DEF Frames
<1>7. ASSUME NEW r \in Peers,
             \/ Ask(r) \/ RequestArrives(r) \/ IcmpToServer(r)
             \/ IcmpToReader(r) \/ LoseMessage(r)
      PROVE  UNCHANGED <<wire, rq>>
  BY <1>7 DEF Ask, RequestArrives, IcmpToServer, IcmpToReader, LoseMessage,
              readers
<1>8. CASE Local \/ Connect \/ UNCHANGED uvars
  BY <1>1, <1>8 DEF Local, Connect, uvars, readers, network
<1> QED
  BY <1>1, <1>2, <1>3, <1>4, <1>5, <1>6, <1>7, <1>8 DEF UNext

LEMMA FrameNext == FrameInv /\ [UNext]_uvars => FrameInv'
<1> SUFFICES ASSUME FrameInv, [UNext]_uvars PROVE FrameInv'
  OBVIOUS
<1>1. SInv'
  BY ServerSteps, SNextInv DEF FrameInv
<1> QED
  BY <1>1, AskedKept, FramesKept DEF FrameInv

\* Every datagram is as long as its reader asked, whoever was served before and
\* however the network delivers: one readn takes one datagram.
THEOREM FramesCorrect == USpec => []FramesAsRequested
<1>1. FrameInv => FramesAsRequested
  BY DEF FrameInv
<1> QED
  BY <1>1, FrameInit, FrameNext, PTL DEF USpec

-----------------------------------------------------------------------------
(***************************************************************************)
(* Types of the composition.                                               *)
(***************************************************************************)
UInv == UTypeOK /\ SInv

LEMMA UInvInit == UInit => UInv
<1> SUFFICES ASSUME UInit PROVE UInv
  OBVIOUS
<1>1. SInv
  BY SInitInv DEF UInit
<1>2. 0 \in Word
  BY ModulusAssumption DEF Word
<1>3. <<>> \in Seq(Datagrams)
  OBVIOUS
<1>4. /\ rq \in [Peers -> Seq(Datagrams)]
      /\ wire \in [Peers -> Seq(Datagrams)]
  BY <1>3 DEF UInit
<1>5. lost \in [Peers -> SUBSET Word]
  BY DEF UInit
<1> QED
  BY <1>1, <1>2, <1>4, <1>5 DEF UInit, UInv, UTypeOK, SInv, Gone

\* What one reader's queue becomes has the type, if the new queue has.
LEMMA QueueType ==
    ASSUME NEW S, NEW f \in [Peers -> Seq(S)], NEW r \in Peers,
           NEW q \in Seq(S)
    PROVE  [f EXCEPT ![r] = q] \in [Peers -> Seq(S)]
  OBVIOUS

\* The variables of the readers and of the network.
LEMMA NetworkTypes ==
    ASSUME UInv, [UNext]_uvars
    PROVE  /\ rq' \in [Peers -> Seq(Datagrams)]
           /\ wire' \in [Peers -> Seq(Datagrams)]
           /\ lost' \in [Peers -> SUBSET Word]
<1> DEFINE Kept == /\ rq' \in [Peers -> Seq(Datagrams)]
                   /\ wire' \in [Peers -> Seq(Datagrams)]
                   /\ lost' \in [Peers -> SUBSET Word]
<1>1. /\ rq \in [Peers -> Seq(Datagrams)]
      /\ wire \in [Peers -> Seq(Datagrams)]
      /\ lost \in [Peers -> SUBSET Word]
  BY DEF UInv, UTypeOK
<1>2. CASE UNCHANGED <<rq, wire, lost>>
  BY <1>1, <1>2
<1>3. CASE Send
  <2> DEFINE d == [seq |-> seq_num, len |-> arg_to_server.bufsize]
  <2>1. cliaddr \in Peers
    BY <1>3 DEF Send, WriteDatagram, UInv, SInv, Phases, InSession
  <2>2. d \in Datagrams
    BY <1>3 DEF Send, WriteDatagram, Datagrams, UInv, SInv, STypeOK
  <2>3. wire' = [wire EXCEPT ![cliaddr] = Append(wire[cliaddr], d)]
    BY <1>3 DEF Send
  <2>4. Append(wire[cliaddr], d) \in Seq(Datagrams)
    <3> HIDE DEF d
    <3> QED
      BY <1>1, <2>1, <2>2
  <2>5. UNCHANGED <<rq, lost>>
    BY <1>3 DEF Send, readers, history
  <2> QED
    BY <1>1, <2>1, <2>3, <2>4, <2>5, QueueType
<1>4. ASSUME NEW r \in Peers, Read(r) PROVE Kept
  <2>1. /\ rq' = [rq EXCEPT ![r] = Tail(rq[r])] /\ rq[r] # <<>>
        /\ UNCHANGED <<wire, lost>>
    BY <1>4 DEF Read, network, history
  <2>2. Tail(rq[r]) \in Seq(Datagrams)
    BY <1>1, <2>1
  <2> QED
    BY <1>1, <2>1, <2>2, QueueType
<1>5. ASSUME NEW r \in Peers, ReadFails(r) \/ SigInt(r) PROVE Kept
  <2>1. rq' = [rq EXCEPT ![r] = <<>>] /\ UNCHANGED <<wire, lost>>
    BY <1>5 DEF ReadFails, SigInt, Leave, network, history
  <2>2. <<>> \in Seq(Datagrams)
    OBVIOUS
  <2> QED
    BY <1>1, <2>1, <2>2, QueueType
<1>6. ASSUME NEW r \in Peers, DatagramArrives(r) PROVE Kept
  <2>1. PICK i \in DOMAIN wire[r] :
          /\ \/ wire' = [wire EXCEPT ![r] = RemoveAt(wire[r], i)]
             \/ wire' = wire
          /\ \/ rq' = [rq EXCEPT ![r] = Append(rq[r], wire[r][i])]
             \/ rq' = rq
          /\ \/ lost' = [lost EXCEPT ![r] = lost[r] \cup {wire[r][i].seq}]
             \/ lost' = lost
    BY <1>6 DEF DatagramArrives
  <2>2. wire[r][i] \in Datagrams
    BY <1>1
  <2>3. /\ RemoveAt(wire[r], i) \in Seq(Datagrams)
        /\ Append(rq[r], wire[r][i]) \in Seq(Datagrams)
    BY <1>1, <2>2, RemoveAtType
  <2>4. wire[r][i].seq \in Word
    BY <2>2 DEF Datagrams
  <2>5. lost' \in [Peers -> SUBSET Word]
    BY <1>1, <2>1, <2>4
  <2>6. rq' \in [Peers -> Seq(Datagrams)]
    BY <1>1, <2>1, <2>3, QueueType
  <2>7. wire' \in [Peers -> Seq(Datagrams)]
    BY <1>1, <2>1, <2>3, QueueType
  <2> QED
    BY <2>5, <2>6, <2>7
<1>7. ASSUME NEW r \in Peers, LoseDatagram(r) PROVE Kept
  <2>1. /\ wire[r] # <<>> /\ UNCHANGED rq
        /\ wire' = [wire EXCEPT ![r] = Tail(wire[r])]
        /\ lost' = [lost EXCEPT ![r] = lost[r] \cup {Head(wire[r]).seq}]
    BY <1>7 DEF LoseDatagram, readers
  <2>2. Tail(wire[r]) \in Seq(Datagrams) /\ Head(wire[r]) \in Datagrams
    BY <1>1, <2>1
  <2>3. Head(wire[r]).seq \in Word
    BY <2>2 DEF Datagrams
  <2>4. lost' \in [Peers -> SUBSET Word]
    BY <1>1, <2>1, <2>3
  <2> QED
    BY <1>1, <2>1, <2>2, <2>4, QueueType
<1>8. ASSUME NEW r \in Peers,
             \/ Ask(r) \/ RequestArrives(r) \/ IcmpToServer(r)
             \/ IcmpToReader(r) \/ LoseMessage(r)
      PROVE  UNCHANGED <<rq, wire, lost>>
  BY <1>8 DEF Ask, RequestArrives, IcmpToServer, IcmpToReader, LoseMessage,
              readers, history
<1>9. CASE Local \/ Connect \/ UNCHANGED uvars
  BY <1>2, <1>9 DEF Local, Connect, uvars, readers, network, history
<1> QED
  BY <1>2, <1>3, <1>4, <1>5, <1>6, <1>7, <1>8, <1>9 DEF UNext

LEMMA ReaderVarTypes ==
    ASSUME UInv, [UNext]_uvars
    PROVE  /\ rpc' \in [Peers -> {"start", "reading"} \cup Gone]
           /\ rerr' \in [Peers -> BOOLEAN]
           /\ total_read_counter' \in [Peers -> Word]
           /\ total_drop_counter' \in [Peers -> Word]
           /\ requests' \subseteq Peers
           /\ icmp_server' \subseteq Peers
           /\ icmp_reader' \subseteq Peers
           /\ unheard' \subseteq Peers
<1>1. rpc' \in [Peers -> {"start", "reading"} \cup Gone]
  BY GoneForGood DEF UInv, UTypeOK, ReaderTypes
<1> USE DEF UInv, UTypeOK
<1> DEFINE Counters == /\ total_read_counter' \in [Peers -> Word]
                       /\ total_drop_counter' \in [Peers -> Word]
           Sets == /\ requests' \subseteq Peers
                   /\ icmp_server' \subseteq Peers
                   /\ icmp_reader' \subseteq Peers
                   /\ unheard' \subseteq Peers
           Flags == rerr' \in [Peers -> BOOLEAN]
<1>2. CASE UNCHANGED <<readers, network, unheard>>
  BY <1>1, <1>2 DEF readers, network
<1>3. CASE Connect
  <2>1. \A i \in DOMAIN sk_q : sk_q[i] \in Queued
    BY DEF SInv, STypeOK
  <2>2. {sk_q[i].peer : i \in DOMAIN sk_q} \subseteq Peers
    BY <2>1 DEF Queued
  <2>3. unheard' \subseteq Peers
    BY <1>3, <2>2 DEF Connect
  <2> QED
    BY <1>1, <1>3, <2>3 DEF Connect, readers, network
<1>4. ASSUME NEW r \in Peers, Read(r) PROVE Counters /\ Sets /\ Flags
  <2> DEFINE s == Head(rq[r]).seq
  <2>1. s \in Word
    <3>1. Head(rq[r]) \in Datagrams
      BY <1>4 DEF Read
    <3> QED
      BY <3>1 DEF Datagrams
  <2>2. /\ Succ(s) \in Word
        /\ Plus(total_drop_counter[r], Minus(s, total_read_counter[r])) \in Word
    <3> HIDE DEF s
    <3> QED
      BY <2>1, ModulusAssumption DEF Word, Plus, Minus, Succ
  <2> QED
    BY <1>4, <2>2 DEF Read, network, history
<1>5. ASSUME NEW r \in Peers, Ask(r) \/ ReadFails(r) \/ SigInt(r)
      PROVE  Counters /\ Sets /\ Flags
  BY <1>5 DEF Ask, ReadFails, SigInt, Leave, network, history
<1>6. ASSUME NEW r \in Peers,
             \/ RequestArrives(r) \/ DatagramArrives(r) \/ IcmpToServer(r)
             \/ IcmpToReader(r) \/ LoseDatagram(r) \/ LoseMessage(r)
      PROVE  Counters /\ Sets /\ Flags
  <2>1. Counters
    BY <1>6 DEF RequestArrives, DatagramArrives, IcmpToServer, IcmpToReader,
                LoseDatagram, LoseMessage, readers
  <2>2. Flags
    BY <1>6 DEF RequestArrives, DatagramArrives, IcmpToServer, IcmpToReader,
                LoseDatagram, LoseMessage, readers
  <2>3. Sets
    BY <1>6 DEF RequestArrives, DatagramArrives, IcmpToServer, IcmpToReader,
                LoseDatagram, LoseMessage, history
  <2> QED
    BY <2>1, <2>2, <2>3
<1>7. CASE Local \/ Send \/ UNCHANGED uvars
  BY <1>2, <1>7 DEF Local, Send, uvars, readers, network, history
<1> QED
  BY <1>1, <1>2, <1>3, <1>4, <1>5, <1>6, <1>7 DEF UNext

LEMMA UInvNext == UInv /\ [UNext]_uvars => UInv'
<1> SUFFICES ASSUME UInv, [UNext]_uvars PROVE UInv'
  OBVIOUS
<1>1. SInv'
  BY ServerSteps, SNextInv DEF UInv
<1> QED
  BY <1>1, NetworkTypes, ReaderVarTypes DEF UInv, UTypeOK, SInv

\* Every variable of the composition keeps its type, on every network: what is
\* queued anywhere is a datagram that UDP can carry.
THEOREM UTypeCorrect == USpec => []UTypeOK
<1>1. UInv => UTypeOK
  BY DEF UInv
<1> QED
  BY <1>1, UInvInit, UInvNext, PTL DEF USpec

-----------------------------------------------------------------------------
(***************************************************************************)
(* Requests.  A reader asks once.  If nothing repeats its request, the     *)
(* reader is in at most one place at a time: its request is on its way, or *)
(* queued on the server's socket, or taken, or refused.  That is why a     *)
(* reader which was told that nobody listens is not served afterwards.     *)
(***************************************************************************)
Senders(q)  == {q[i].peer : i \in DOMAIN q}
Distinct(q) == \A i, j \in DOMAIN q : i # j => q[i].peer # q[j].peer

Chosen(r) == spc \in InSession \cup {"connect"} /\ cliaddr = r
Told(r)   == r \in icmp_reader \/ rerr[r]

Token(r) ==
    /\ rpc[r] = "start" =>
          r \notin requests /\ r \notin Senders(sk_q) /\ ~Chosen(r) /\ ~Told(r)
    /\ r \in requests => r \notin Senders(sk_q) /\ ~Chosen(r) /\ ~Told(r)
    /\ r \in Senders(sk_q) => ~Chosen(r) /\ ~Told(r)
    /\ Chosen(r) => ~Told(r)

TokenInv == Distinct(sk_q) /\ \A r \in Peers : Token(r)

TInv == UInv /\ TokenInv

\* The elements of a queue without its head, and with one more.
LEMMA TailParts ==
    ASSUME NEW S, NEW q \in Seq(S), q # <<>>
    PROVE  /\ Len(q) \in Nat \ {0} /\ DOMAIN q = 1 .. Len(q)
           /\ 1 \in DOMAIN q /\ Head(q) = q[1]
           /\ DOMAIN Tail(q) = 1 .. Len(q) - 1
           /\ \A i \in 1 .. Len(q) - 1 :
                i + 1 \in 1 .. Len(q) /\ 1 < i + 1 /\ Tail(q)[i] = q[i + 1]
           /\ \A i \in 1 .. Len(q) :
                i = 1 \/ (i - 1 \in 1 .. Len(q) - 1 /\ q[i] = Tail(q)[i - 1])
<1>1. /\ Len(q) \in Nat \ {0} /\ DOMAIN q = 1 .. Len(q) /\ Head(q) = q[1]
      /\ DOMAIN Tail(q) = 1 .. Len(q) - 1
      /\ \A i \in 1 .. Len(q) - 1 : Tail(q)[i] = q[i + 1]
  OBVIOUS
<1>2. 1 \in DOMAIN q
  BY <1>1
<1>3. \A i \in 1 .. Len(q) - 1 : i + 1 \in 1 .. Len(q) /\ 1 < i + 1
  BY <1>1
<1>4. ASSUME NEW i \in 1 .. Len(q)
      PROVE  i = 1 \/ (i - 1 \in 1 .. Len(q) - 1 /\ q[i] = Tail(q)[i - 1])
  BY <1>1
<1> QED
  BY <1>1, <1>2, <1>3, <1>4

LEMMA AppendParts ==
    ASSUME NEW S, NEW q \in Seq(S), NEW e \in S
    PROVE  /\ Len(q) \in Nat /\ DOMAIN q = 1 .. Len(q)
           /\ DOMAIN Append(q, e) = 1 .. Len(q) + 1
           /\ \A i \in 1 .. Len(q) : Append(q, e)[i] = q[i]
           /\ Append(q, e)[Len(q) + 1] = e
           /\ \A i \in 1 .. Len(q) + 1 : i \in 1 .. Len(q) \/ i = Len(q) + 1
           /\ Len(q) + 1 \in 1 .. Len(q) + 1
           /\ 1 .. Len(q) \subseteq 1 .. Len(q) + 1
<1>1. /\ Len(q) \in Nat /\ DOMAIN q = 1 .. Len(q)
      /\ DOMAIN Append(q, e) = 1 .. Len(q) + 1
      /\ \A i \in 1 .. Len(q) : Append(q, e)[i] = q[i]
      /\ Append(q, e)[Len(q) + 1] = e
  OBVIOUS
<1>2. \A i \in 1 .. Len(q) + 1 : i \in 1 .. Len(q) \/ i = Len(q) + 1
  BY <1>1
<1>3. Len(q) + 1 \in 1 .. Len(q) + 1 /\ 1 .. Len(q) \subseteq 1 .. Len(q) + 1
  BY <1>1
<1> QED
  BY <1>1, <1>2, <1>3

\* The senders of what a queue becomes.
LEMMA SendersNone == Senders(<<>>) = {} /\ Distinct(<<>>)
  BY DEF Senders, Distinct

LEMMA SendersTail ==
    ASSUME NEW S, NEW q \in Seq(S), q # <<>>
    PROVE  /\ Senders(q) = {Head(q).peer} \cup Senders(Tail(q))
           /\ Distinct(q) => /\ Distinct(Tail(q))
                             /\ Head(q).peer \notin Senders(Tail(q))
<1>1. Senders(q) \subseteq {Head(q).peer} \cup Senders(Tail(q))
  <2> SUFFICES ASSUME NEW i \in 1 .. Len(q)
               PROVE  q[i].peer \in {Head(q).peer} \cup Senders(Tail(q))
    BY TailParts DEF Senders
  <2>1. CASE i = 1
    BY TailParts, <2>1
  <2>2. CASE i - 1 \in 1 .. Len(q) - 1 /\ q[i] = Tail(q)[i - 1]
    BY TailParts, <2>2 DEF Senders
  <2> QED
    BY TailParts, <2>1, <2>2
<1>2. {Head(q).peer} \cup Senders(Tail(q)) \subseteq Senders(q)
  BY TailParts DEF Senders
<1>3. ASSUME Distinct(q) PROVE Distinct(Tail(q))
  <2> SUFFICES ASSUME NEW i \in 1 .. Len(q) - 1, NEW j \in 1 .. Len(q) - 1,
                      i # j
               PROVE  Tail(q)[i].peer # Tail(q)[j].peer
    BY TailParts DEF Distinct
  <2>1. i + 1 # j + 1
    OBVIOUS
  <2> QED
    BY TailParts, <1>3, <2>1 DEF Distinct
<1>4. ASSUME Distinct(q) PROVE Head(q).peer \notin Senders(Tail(q))
  BY TailParts, <1>4 DEF Distinct, Senders
<1> QED
  BY <1>1, <1>2, <1>3, <1>4

LEMMA SendersAppend ==
    ASSUME NEW S, NEW q \in Seq(S), NEW e \in S
    PROVE  /\ Senders(Append(q, e)) = Senders(q) \cup {e.peer}
           /\ Distinct(q) /\ e.peer \notin Senders(q) => Distinct(Append(q, e))
<1>1. Senders(Append(q, e)) = Senders(q) \cup {e.peer}
  BY AppendParts DEF Senders
<1>2. ASSUME Distinct(q), e.peer \notin Senders(q) PROVE Distinct(Append(q, e))
  BY AppendParts, <1>2 DEF Senders, Distinct
<1> QED
  BY <1>1, <1>2

\* The places of readers, as the steps of the server leave them: only the
\* taking of a request and the arrival of one put a reader in a new place.
Shrinks ==
    /\ Distinct(sk_q) => Distinct(sk_q)'
    /\ requests' \subseteq requests
    /\ Senders(sk_q)' \subseteq Senders(sk_q)
    /\ \A r \in Peers :
         /\ rpc'[r] = "start" => rpc[r] = "start"
         /\ Chosen(r)' => Chosen(r)
         /\ Told(r)' => Told(r)

LEMMA ShrinkingKeeps == TokenInv /\ Shrinks => TokenInv'
  BY DEF TokenInv, Token, Shrinks

\* Steps of the server that leave its queue or empty it.
LEMMA ServerShrinks ==
    ASSUME UInv, UNCHANGED <<rpc, rerr, requests, icmp_reader>>,
           \/ LocalStep /\ ~RecvRequest
           \/ StartSession \/ WriteDatagram \/ SyscallFails \/ SigAlarm
    PROVE  Shrinks
<1> USE DEF InSession
<1>1. \A r \in Peers : Chosen(r)' => Chosen(r)
  <2>1. CASE NoBuffer \/ SyscallFails
    BY <2>1 DEF NoBuffer, SyscallFails, Exit, Chosen
  <2>2. CASE SigAlarm
    BY <2>2, AlarmRaisesFlag DEF UInv, SInv, Chosen, serverSocket, session
  <2>3. CASE OpenSocket \/ CloseSocket \/ Disarm
    BY <2>3 DEF OpenSocket, CloseSocket, Disarm, Chosen
  <2>4. CASE \/ StartSession \/ CheckAlarm \/ WriteNothing \/ WriteDatagram
             \/ WriteFails \/ Wait
    BY <2>4 DEF StartSession, CheckAlarm, WriteNothing, WriteDatagram, Counted,
                WriteFails, Wait, session, Chosen
  <2> QED
    BY <2>1, <2>2, <2>3, <2>4 DEF LocalStep
<1>2. sk_q' = <<>> \/ sk_q' = sk_q
  <2>1. CASE NoBuffer \/ SyscallFails \/ SigAlarm
    BY <2>1 DEF NoBuffer, SyscallFails, SigAlarm, Exit, serverSocket
  <2>2. CASE \/ OpenSocket \/ CloseSocket \/ Disarm \/ StartSession
             \/ CheckAlarm \/ WriteNothing \/ WriteDatagram \/ WriteFails
             \/ Wait
    BY <2>2 DEF OpenSocket, CloseSocket, Disarm, StartSession, CheckAlarm,
                WriteNothing, WriteDatagram, Counted, WriteFails, Wait,
                serverSocket
  <2> QED
    BY <2>1, <2>2 DEF LocalStep
<1> QED
  BY <1>1, <1>2, SendersNone DEF Shrinks, Told

\* Steps of readers and of the network that put nobody in a new place.
LEMMA OthersShrink ==
    ASSUME UInv, NEW r \in Peers,
           \/ Read(r) \/ ReadFails(r) \/ SigInt(r) \/ DatagramArrives(r)
           \/ IcmpToServer(r) \/ IcmpToReader(r) \/ LoseDatagram(r)
           \/ LoseMessage(r)
    PROVE  Shrinks
<1>1. UNCHANGED <<spc, cliaddr, sk_q>>
  BY DEF Read, ReadFails, SigInt, Leave, DatagramArrives, IcmpToServer,
         Refused, IcmpToReader, LoseDatagram, LoseMessage, svars,
         serverSocket, session
<1>2. requests' \subseteq requests
  BY DEF Read, ReadFails, SigInt, Leave, DatagramArrives, IcmpToServer,
         IcmpToReader, LoseDatagram, LoseMessage, network
<1>3. \A x \in Peers : rpc'[x] = "start" => rpc[x] = "start"
  BY DEF Read, ReadFails, SigInt, Leave, DatagramArrives, IcmpToServer,
         IcmpToReader, LoseDatagram, LoseMessage, readers, UInv, UTypeOK, Gone
<1>4. \A x \in Peers : Told(x)' => Told(x)
  <2>1. CASE IcmpToReader(r)
    BY <2>1 DEF IcmpToReader, Told, UInv, UTypeOK
  <2>2. CASE ReadFails(r) \/ SigInt(r)
    BY <2>2 DEF ReadFails, SigInt, Leave, Told, network, UInv, UTypeOK
  <2>3. CASE \/ Read(r) \/ DatagramArrives(r) \/ IcmpToServer(r)
             \/ LoseDatagram(r) \/ LoseMessage(r)
    BY <2>3 DEF Read, DatagramArrives, IcmpToServer, LoseDatagram, LoseMessage,
                Told, network, readers
  <2> QED
    BY <2>1, <2>2, <2>3
<1> QED
  BY <1>1, <1>2, <1>3, <1>4 DEF Shrinks, Chosen

LEMMA TokenInit == UInit => TokenInv
<1> SUFFICES ASSUME UInit PROVE TokenInv
  OBVIOUS
<1>1. sk_q = <<>> /\ spc = "open"
  BY DEF UInit, SInit
<1> QED
  BY <1>1, SendersNone DEF UInit, TokenInv, Token, Chosen, Told, InSession

LEMMA TokenNext ==
    ASSUME "dup" \notin Network, TInv, [UNext]_uvars
    PROVE  TokenInv'
<1> USE DEF TInv
<1>1. ASSUME NEW r \in Peers, Ask(r) PROVE TokenInv'
  <2>1. /\ UNCHANGED <<spc, cliaddr, sk_q, rerr, icmp_reader>>
        /\ requests' = requests \cup {r} /\ rpc[r] = "start"
        /\ \A x \in Peers : rpc'[x] = IF x = r THEN "reading" ELSE rpc[x]
    BY <1>1 DEF Ask, svars, serverSocket, session, UInv, UTypeOK
  <2> QED
    BY <2>1 DEF TokenInv, Token, Chosen, Told
<1>2. CASE RecvRequest /\ UNCHANGED <<readers, network>>
  <2>1. sk_q \in Seq(Queued) /\ sk_q # <<>> /\ spc = "recvfrom"
    BY <1>2 DEF RecvRequest, UInv, SInv, STypeOK
  <2>2. /\ sk_q' = Tail(sk_q) /\ spc' = "connect"
        /\ cliaddr' = Head(sk_q).peer
        /\ UNCHANGED <<rpc, rerr, requests, icmp_reader>>
    BY <1>2 DEF RecvRequest, readers, network
  <2>3. /\ Senders(sk_q) = {cliaddr'} \cup Senders(sk_q)'
        /\ Distinct(sk_q)' /\ cliaddr' \notin Senders(sk_q)'
    BY <2>1, <2>2, SendersTail DEF TokenInv
  <2>4. \A r \in Peers : ~Chosen(r) /\ (Chosen(r)' <=> r = cliaddr')
    BY <2>1, <2>2 DEF Chosen, InSession
  <2> QED
    BY <2>2, <2>3, <2>4 DEF TokenInv, Token, Told
<1>3. ASSUME NEW r \in Peers, RequestArrives(r) PROVE TokenInv'
  <2>1. /\ r \in requests /\ requests' = requests \ {r}
        /\ UNCHANGED <<rpc, rerr>>
    BY <1>3 DEF RequestArrives, readers
  <2>2. CASE Deliver(r, RequestOf[r]) /\ UNCHANGED icmp_reader
    <3> DEFINE e == [peer |-> r, req |-> RequestOf[r]]
    <3>1. e \in Queued /\ e.peer = r
      BY SessionAssumption DEF Queued
    <3>2. /\ UNCHANGED <<spc, cliaddr>>
          /\ sk_q' = sk_q \/ sk_q' = Append(sk_q, e)
      BY <2>2 DEF Deliver, session
    <3>3. sk_q \in Seq(Queued)
      BY DEF UInv, SInv, STypeOK
    <3>4. Distinct(sk_q) /\ r \notin Senders(sk_q)
      BY <2>1 DEF TokenInv, Token
    <3>5. /\ Distinct(sk_q)'
          /\ Senders(sk_q)' \subseteq Senders(sk_q) \cup {r}
      <4> HIDE DEF e
      <4> QED
        BY <3>1, <3>2, <3>3, <3>4, SendersAppend
    <3> QED
      BY <2>1, <2>2, <3>2, <3>5 DEF TokenInv, Token, Chosen, Told
  <2>3. CASE icmp_reader' = icmp_reader \cup {r} /\ UNCHANGED svars
    <3>1. UNCHANGED <<spc, cliaddr, sk_q>>
      BY <2>3 DEF svars, serverSocket, session
    <3> QED
      BY <2>1, <2>3, <3>1 DEF TokenInv, Token, Chosen, Told
  <2> QED
    BY <1>3, <2>2, <2>3 DEF RequestArrives
<1>4. CASE Shrinks
  BY <1>4, ShrinkingKeeps
<1>5. CASE Local \/ Connect \/ Send
  <2>1. UNCHANGED <<rpc, rerr, requests, icmp_reader>>
    BY <1>5 DEF Local, Connect, Send, readers, network
  <2>2. CASE RecvRequest /\ Local
    BY <1>2, <2>2 DEF Local
  <2>3. CASE ~(RecvRequest /\ Local)
    BY <1>4, <1>5, <2>1, <2>3, ServerShrinks DEF Local, Connect, Send
  <2> QED
    BY <2>2, <2>3
<1>6. CASE UNCHANGED uvars
  BY <1>4, <1>6 DEF uvars, svars, serverSocket, session, readers, network,
                    Shrinks, Chosen, Told
<1> QED
  BY <1>1, <1>3, <1>4, <1>5, <1>6, OthersShrink DEF UNext

\* A reader that is told nobody listens is not being served, and will not be,
\* as long as no request is repeated: by the reader, who asks once, or by the
\* network.
THEOREM RefusedNotServed ==
    ASSUME "dup" \notin Network
    PROVE  USpec => []RefusedReaderNotServed
<1>1. TInv => RefusedReaderNotServed
  <2> SUFFICES ASSUME TInv, NEW r \in Peers, Told(r)
               PROVE  ~Served(r) /\ \A i \in DOMAIN sk_q : sk_q[i].peer # r
    BY DEF RefusedReaderNotServed, Told
  <2>1. ~Chosen(r) /\ r \notin Senders(sk_q)
    BY DEF TInv, TokenInv, Token
  <2>2. Served(r) => Chosen(r)
    BY DEF TInv, UInv, SInv, Phases, Served, Serving, Chosen
  <2> QED
    BY <2>1, <2>2 DEF Senders
<1>2. UInit => TInv
  BY UInvInit, TokenInit DEF TInv
<1>3. TInv /\ [UNext]_uvars => TInv'
  BY UInvNext, TokenNext DEF TInv
<1> QED
  BY <1>1, <1>2, <1>3, PTL DEF USpec

-----------------------------------------------------------------------------
(***************************************************************************)
(* Nobody is forgotten.  A reader that waits is accounted for: its request *)
(* or the refusal is somewhere, or something known to be lost.  What makes *)
(* this hold at the end of a session, when the queue of the socket is      *)
(* discarded, is that a session only ends on a reader that is gone, and    *)
(* that all others in its queue were there before the connect.             *)
(***************************************************************************)
Held(r) == r \in requests \/ r \in Senders(sk_q) \/ Chosen(r) \/ Told(r)

Accounted ==
    \A r \in Peers :
        rpc[r] = "reading" => Held(r) \/ r \in unheard \/ spc = "exited"

LeftBehind ==
    spc \in InSession => Senders(sk_q) \subseteq unheard \cup {cliaddr}

ClosesOnGone == spc = "close" => rpc[cliaddr] \in Gone

AInv == /\ UInv /\ ErrInv /\ FrameInv
        /\ Accounted /\ LeftBehind /\ ClosesOnGone

\* What is lost stays lost, what has ended stays ended, and a reader starts to
\* wait with its request.
LEMMA Stays ==
    ASSUME UInv, [UNext]_uvars
    PROVE  /\ unheard \subseteq unheard'
           /\ spc = "exited" => spc' = "exited"
           /\ \A r \in Peers :
                rpc'[r] = "reading" => rpc[r] = "reading" \/ r \in requests'
<1> DEFINE Stay == /\ unheard \subseteq unheard'
                   /\ spc = "exited" => spc' = "exited"
                   /\ \A x \in Peers :
                        rpc'[x] = "reading" =>
                            rpc[x] = "reading" \/ x \in requests'
<1>1. CASE Local
  <2>1. spc = "exited" => spc' = "exited"
    BY <1>1, AlarmRaisesFlag DEF Local, LocalStep, SyscallFails, OpenSocket,
       RecvRequest, NoBuffer, CheckAlarm, WriteNothing, WriteFails, Wait,
       CloseSocket, Disarm, UInv, SInv
  <2> QED
    BY <1>1, <2>1 DEF Local, readers, history
<1>2. CASE Connect \/ Send
  BY <1>2 DEF Connect, Send, StartSession, WriteDatagram, readers, history
<1>3. ASSUME NEW r \in Peers, Ask(r) PROVE Stay
  BY <1>3 DEF Ask, svars, history, UInv, UTypeOK
<1>4. ASSUME NEW r \in Peers, Read(r) \/ ReadFails(r) \/ SigInt(r) PROVE Stay
  BY <1>4 DEF Read, ReadFails, SigInt, Leave, svars, history, UInv, UTypeOK,
              Gone
<1>5. ASSUME NEW r \in Peers,
             \/ RequestArrives(r) \/ DatagramArrives(r) \/ IcmpToServer(r)
             \/ IcmpToReader(r) \/ LoseDatagram(r) \/ LoseMessage(r)
      PROVE  Stay
  <2>1. UNCHANGED <<rpc, spc>>
    BY <1>5 DEF RequestArrives, Deliver, DatagramArrives, IcmpToServer, Refused,
                IcmpToReader, LoseDatagram, LoseMessage, svars, readers
  <2>2. unheard \subseteq unheard'
    BY <1>5 DEF RequestArrives, DatagramArrives, IcmpToServer, IcmpToReader,
                LoseDatagram, LoseMessage, history
  <2> QED
    BY <2>1, <2>2
<1>6. CASE UNCHANGED uvars
  BY <1>6 DEF uvars, svars, readers, history
<1> QED
  BY <1>1, <1>2, <1>3, <1>4, <1>5, <1>6 DEF UNext

\* What an arriving request does to the queue.
LEMMA Arrival ==
    ASSUME UInv, NEW r \in Peers, Deliver(r, RequestOf[r])
    PROVE  /\ UNCHANGED <<spc, cliaddr>>
           /\ Senders(sk_q)' = IF Len(sk_q) < SockQueue
                               THEN Senders(sk_q) \cup {r} ELSE Senders(sk_q)
           /\ spc \in InSession => r = cliaddr
<1> DEFINE e == [peer |-> r, req |-> RequestOf[r]]
<1>1. e \in Queued /\ e.peer = r
  BY SessionAssumption DEF Queued
<1>2. /\ UNCHANGED <<spc, cliaddr>>
      /\ sk_q' = IF Len(sk_q) < SockQueue THEN Append(sk_q, e) ELSE sk_q
  BY DEF Deliver, session
<1>3. sk_q \in Seq(Queued)
  BY DEF UInv, SInv, STypeOK
<1>4. spc \in InSession => r = cliaddr
  BY DEF Deliver, Hears, UInv, SInv, Phases
<1> HIDE DEF e
<1> QED
  BY <1>1, <1>2, <1>3, <1>4, SendersAppend

\* Without failures of its own, the server closes only on a reader that is gone.
LEMMA ClosesOnGoneKept ==
    ASSUME ~Faults, AInv, [UNext]_uvars
    PROVE  ClosesOnGone'
<1> USE DEF AInv
<1>1. cliaddr \in Peers /\ rpc[cliaddr] \in Gone => rpc'[cliaddr] \in Gone
  BY GoneForGood DEF ErrInv
<1>2. spc = "close" => cliaddr \in Peers
  BY DEF UInv, SInv, Phases, InSession
<1>3. CASE spc' = spc /\ cliaddr' = cliaddr
  BY <1>1, <1>2, <1>3 DEF ClosesOnGone
<1>4. CASE spc' # "close"
  BY <1>4 DEF ClosesOnGone
<1>5. CASE WriteFails
  <2>1. cliaddr \in Peers /\ arg_to_server.bufsize \in 1 .. MaxDatagram
    BY <1>5, SessionAssumption
    DEF WriteFails, FrameInv, LengthAsked, InSession, UInv, SInv, Phases
  <2>2. sk_err
    BY <1>5, <2>1, ServerAssumption DEF WriteFails
  <2>3. cliaddr' = cliaddr
    BY <1>5 DEF WriteFails, session
  <2> QED
    BY <1>1, <2>1, <2>2, <2>3 DEF ClosesOnGone, ErrInv, RefusedOnlyIfGone
<1>6. CASE Local
  <2>1. CASE SigAlarm
    BY <1>3, <2>1, AlarmRaisesFlag DEF UInv, SInv, session
  <2> QED
    BY <1>4, <1>5, <1>6, <2>1
    DEF Local, LocalStep, SyscallFails, OpenSocket, RecvRequest, NoBuffer, Exit,
        CheckAlarm, WriteNothing, Counted, Wait, CloseSocket, Disarm
<1>7. CASE Connect \/ Send
  BY <1>4, <1>7 DEF Connect, Send, StartSession, WriteDatagram, Counted
<1>8. ASSUME NEW r \in Peers,
             \/ Ask(r) \/ Read(r) \/ ReadFails(r) \/ SigInt(r)
             \/ RequestArrives(r) \/ DatagramArrives(r) \/ IcmpToServer(r)
             \/ IcmpToReader(r) \/ LoseDatagram(r) \/ LoseMessage(r)
      PROVE  UNCHANGED <<spc, cliaddr>>
  BY <1>8 DEF Ask, Read, ReadFails, SigInt, Leave, RequestArrives, Deliver,
              DatagramArrives, IcmpToServer, Refused, IcmpToReader,
              LoseDatagram, LoseMessage, svars, session
<1>9. CASE UNCHANGED uvars
  BY <1>3, <1>9 DEF uvars, svars, session
<1> QED
  BY <1>3, <1>6, <1>7, <1>8, <1>9 DEF UNext

\* All others in the queue of a session were there before the connect.
LEMMA LeftBehindKept ==
    ASSUME AInv, [UNext]_uvars
    PROVE  LeftBehind'
<1> USE DEF AInv, LeftBehind
<1>0. unheard \subseteq unheard'
  BY Stays
<1>1. CASE spc' \notin InSession
  BY <1>1
<1>2. CASE /\ UNCHANGED <<sk_q, cliaddr>>
           /\ spc' \in InSession => spc \in InSession
  BY <1>0, <1>2
<1>3. CASE Connect
  <2>1. UNCHANGED <<sk_q, cliaddr>> /\ Senders(sk_q) \subseteq unheard'
    BY <1>3 DEF Connect, StartSession, Senders
  <2> QED
    BY <2>1
<1>4. CASE Local
  <2>1. CASE SigAlarm
    BY <1>2, <2>1, AlarmRaisesFlag DEF UInv, SInv, serverSocket, session
  <2>2. CASE \/ OpenSocket \/ RecvRequest \/ NoBuffer \/ CloseSocket \/ Disarm
             \/ SyscallFails
    BY <1>1, <2>2 DEF OpenSocket, RecvRequest, NoBuffer, SyscallFails, Exit,
                      CloseSocket, Disarm, InSession
  <2>3. CASE CheckAlarm \/ WriteNothing \/ WriteFails \/ Wait
    BY <1>2, <2>3 DEF CheckAlarm, WriteNothing, Counted, WriteFails, Wait,
                      InSession, serverSocket, session
  <2> QED
    BY <1>4, <2>1, <2>2, <2>3 DEF Local, LocalStep
<1>5. CASE Send
  BY <1>2, <1>5 DEF Send, WriteDatagram, Counted, InSession, serverSocket,
                    session
<1>6. ASSUME NEW r \in Peers, RequestArrives(r) PROVE LeftBehind'
  <2>1. CASE Deliver(r, RequestOf[r])
    BY <1>0, <2>1, Arrival
  <2>2. CASE UNCHANGED svars
    BY <1>2, <2>2 DEF svars, serverSocket, session
  <2> QED
    BY <1>6, <2>1, <2>2 DEF RequestArrives
<1>7. ASSUME NEW r \in Peers,
             \/ Ask(r) \/ Read(r) \/ ReadFails(r) \/ SigInt(r)
             \/ DatagramArrives(r) \/ IcmpToServer(r) \/ IcmpToReader(r)
             \/ LoseDatagram(r) \/ LoseMessage(r)
      PROVE  UNCHANGED <<spc, sk_q, cliaddr>>
  BY <1>7 DEF Ask, Read, ReadFails, SigInt, Leave, DatagramArrives,
              IcmpToServer, Refused, IcmpToReader, LoseDatagram, LoseMessage,
              svars, serverSocket, session
<1>8. CASE UNCHANGED uvars
  BY <1>2, <1>8 DEF uvars, svars, serverSocket, session
<1> QED
  BY <1>2, <1>3, <1>4, <1>5, <1>6, <1>7, <1>8 DEF UNext

LEMMA AccountedKept ==
    ASSUME ~Faults, AInv, [UNext]_uvars
    PROVE  Accounted'
<1> USE DEF AInv
<1> SUFFICES ASSUME NEW r \in Peers, rpc'[r] = "reading", r \notin unheard',
                    spc' # "exited"
             PROVE  Held(r)'
  BY DEF Accounted
<1>1. CASE r \in requests'
  BY <1>1 DEF Held
<1>2. CASE Held(r) /\ rpc[r] = "reading" /\ r \notin unheard
  <2>1. CASE UNCHANGED <<spc, cliaddr, sk_q, rerr, requests, icmp_reader>>
    BY <1>2, <2>1 DEF Held, Chosen, Told
  <2>2. CASE Local
    <3>1. UNCHANGED <<rpc, rerr, requests, icmp_reader>>
      BY <2>2 DEF Local, readers, network
    <3>2. CASE RecvRequest
      <4>1. sk_q \in Seq(Queued) /\ sk_q # <<>> /\ spc = "recvfrom"
        BY <3>2 DEF RecvRequest, UInv, SInv, STypeOK
      <4>2. /\ sk_q' = Tail(sk_q) /\ spc' = "connect"
            /\ cliaddr' = Head(sk_q).peer
        BY <3>2 DEF RecvRequest
      <4>3. Senders(sk_q) = {cliaddr'} \cup Senders(sk_q)'
        BY <4>1, <4>2, SendersTail
      <4>4. ~Chosen(r) /\ (r = cliaddr' => Chosen(r)')
        BY <4>1, <4>2 DEF Chosen, InSession
      <4> QED
        BY <1>2, <3>1, <4>3, <4>4 DEF Held, Told
    <3>3. CASE CloseSocket
      <4>1. spc = "close" /\ cliaddr # r
        BY <1>2, <3>3 DEF CloseSocket, ClosesOnGone, Gone
      <4>2. r \notin Senders(sk_q) /\ ~Chosen(r)
        BY <1>2, <4>1 DEF LeftBehind, InSession, Chosen
      <4> QED
        BY <1>2, <3>1, <4>2 DEF Held, Told
    <3>4. CASE SigAlarm
      BY <2>1, <3>1, <3>4, AlarmRaisesFlag DEF UInv, SInv, serverSocket, session
    <3>5. CASE NoBuffer \/ SyscallFails
      BY <3>5 DEF NoBuffer, SyscallFails, Exit
    <3>6. CASE \/ OpenSocket \/ CheckAlarm \/ WriteNothing \/ WriteFails
               \/ Wait \/ Disarm
      <4>1. UNCHANGED <<cliaddr, sk_q>>
        BY <3>6 DEF OpenSocket, CheckAlarm, WriteNothing, Counted, WriteFails,
                    Wait, Disarm, serverSocket, session
      <4>2. spc \in InSession \cup {"connect"} => spc' \in InSession
        BY <3>6 DEF OpenSocket, CheckAlarm, WriteNothing, Counted, WriteFails,
                    Wait, Disarm, InSession
      <4> QED
        BY <1>2, <3>1, <4>1, <4>2 DEF Held, Chosen, Told
    <3> QED
      BY <2>2, <3>2, <3>3, <3>4, <3>5, <3>6 DEF Local, LocalStep
  <2>3. CASE Connect \/ Send
    <3>1. UNCHANGED <<rerr, requests, icmp_reader, cliaddr, sk_q>>
      BY <2>3 DEF Connect, Send, StartSession, WriteDatagram, Counted, readers,
                  network, serverSocket, session
    <3>2. spc' \in InSession
      BY <2>3 DEF Connect, Send, StartSession, WriteDatagram, Counted, InSession
    <3> QED
      BY <1>2, <3>1, <3>2 DEF Held, Chosen, Told
  <2>4. ASSUME NEW p \in Peers, RequestArrives(p) PROVE Held(r)'
    <3>1. /\ requests \ {p} \subseteq requests'
          /\ UNCHANGED rerr
      BY <2>4 DEF RequestArrives, readers
    <3>2. CASE Deliver(p, RequestOf[p]) /\ UNCHANGED icmp_reader
      <4>1. ~(Len(sk_q) < SockQueue) /\ p = r => r \in unheard'
        BY <2>4, <3>2 DEF RequestArrives, Deliver, Hears
      <4> QED
        BY <1>2, <3>1, <3>2, <4>1, Arrival DEF Held, Chosen, Told
    <3>3. CASE UNCHANGED svars /\ icmp_reader' = icmp_reader \cup {p}
      BY <1>2, <3>1, <3>3 DEF Held, Chosen, Told, svars, serverSocket, session
    <3> QED
      BY <2>4, <3>2, <3>3 DEF RequestArrives
  <2>5. ASSUME NEW p \in Peers, LoseMessage(p) PROVE Held(r)'
    BY <1>2, <2>5 DEF LoseMessage, Held, Chosen, Told, svars, serverSocket,
                      session, readers
  <2>6. ASSUME NEW p \in Peers, IcmpToReader(p) PROVE Held(r)'
    BY <1>2, <2>6 DEF IcmpToReader, Held, Chosen, Told, svars, serverSocket,
                      session, UInv, UTypeOK
  <2>7. ASSUME NEW p \in Peers, Ask(p) PROVE Held(r)'
    BY <1>2, <2>7 DEF Ask, Held, Chosen, Told, svars, serverSocket, session
  <2>8. ASSUME NEW p \in Peers, ReadFails(p) \/ SigInt(p) PROVE Held(r)'
    <3>1. p # r
      BY <2>8 DEF ReadFails, SigInt, Leave, UInv, UTypeOK
    <3>2. rerr'[r] = rerr[r]
      BY <2>8, <3>1 DEF ReadFails, SigInt, Leave, UInv, UTypeOK
    <3>3. UNCHANGED <<spc, cliaddr, sk_q, requests, icmp_reader>>
      BY <2>8 DEF ReadFails, SigInt, Leave, network, svars, serverSocket,
                  session
    <3> QED
      BY <1>2, <3>2, <3>3 DEF Held, Chosen, Told
  <2>9. ASSUME NEW p \in Peers,
               \/ Read(p) \/ DatagramArrives(p) \/ IcmpToServer(p)
               \/ LoseDatagram(p)
        PROVE  Held(r)'
    BY <2>1, <2>9 DEF Read, DatagramArrives, IcmpToServer, Refused,
                      LoseDatagram, readers, network, svars, serverSocket,
                      session
  <2>10. CASE UNCHANGED uvars
    BY <2>1, <2>10 DEF uvars, svars, serverSocket, session, readers, network
  <2> QED
    BY <2>2, <2>3, <2>4, <2>5, <2>6, <2>7, <2>8, <2>9, <2>10 DEF UNext
<1> QED
  BY <1>1, <1>2, Stays DEF Accounted

\* A reader that waits for datagrams has been heard, or refused, or is about to
\* be, or its request is known to be lost: as long as no system call of the
\* server fails for reasons of its own, no reader is forgotten, on any network.
\* (That it is then served or refused in the end is left to the runs.)
THEOREM NobodyForgotten ==
    ASSUME ~Faults
    PROVE  USpec => []Accounted
<1>1. UInit => AInv
  <2> SUFFICES ASSUME UInit PROVE AInv
    OBVIOUS
  <2>1. UInv /\ ErrInv /\ FrameInv
    BY UInvInit, ErrInit, FrameInit
  <2>2. spc = "open" /\ \A r \in Peers : rpc[r] = "start"
    BY DEF UInit, SInit
  <2> QED
    BY <2>1, <2>2 DEF AInv, Accounted, LeftBehind, ClosesOnGone, InSession
<1>2. AInv /\ [UNext]_uvars => AInv'
  BY UInvNext, ErrNext, FrameNext, ClosesOnGoneKept, LeftBehindKept,
     AccountedKept DEF AInv
<1>3. AInv => Accounted
  BY DEF AInv
<1> QED
  BY <1>1, <1>2, <1>3, PTL DEF USpec

-----------------------------------------------------------------------------
(***************************************************************************)
(* Numbers.  On a network that keeps the order and repeats nothing, and in *)
(* sessions whose numbers do not wrap, every number of a session that its  *)
(* reader has not passed yet is queued, on its way, or lost; and the       *)
(* numbers queued and on their way ascend.                                 *)
(***************************************************************************)
Numbers(q)    == {q[i].seq : i \in DOMAIN q}
Increasing(q) == \A i, j \in DOMAIN q : i < j => q[i].seq < q[j].seq

\* The numbers of a session whose fate is known, and those still to be read.
Known(r)  == Numbers(rq[r]) \cup Numbers(wire[r]) \cup lost[r]
Coming(r) == Numbers(rq[r]) \cup Numbers(wire[r])

\* A reader whose session has not begun.
Fresh(r) ==
    \/ rpc[r] = "start" \/ r \in requests \/ r \in Senders(sk_q)
    \/ spc = "connect" /\ cliaddr = r

InOrder(r) ==
    /\ Increasing(rq[r]) /\ Increasing(wire[r])
    /\ \A x \in Numbers(rq[r]), y \in Numbers(wire[r]) : x < y

Ahead(r) ==
    \A x \in Coming(r) : total_read_counter[r] <= x /\ x \notin lost[r]

NoGap(r) ==
    rpc[r] \notin Gone =>
        \A x \in Coming(r) : total_read_counter[r] .. x \subseteq Known(r)

UpToNow(r) ==
    Served(r) =>
        /\ total_read_counter[r] <= seq_num
        /\ Known(r) \subseteq 0 .. seq_num - 1
        /\ rpc[r] \notin Gone =>
              total_read_counter[r] .. seq_num - 1 \subseteq Known(r)

Untouched(r) == Fresh(r) => Known(r) = {} /\ total_read_counter[r] = 0

Within(r) ==
    Known(r) \subseteq 0 .. MaxSends - 1 /\ total_read_counter[r] <= MaxSends

CountsLosses(r) ==
    total_drop_counter[r] =
        Cardinality({s \in lost[r] : s < total_read_counter[r]})

Traced(r) ==
    /\ InOrder(r) /\ Ahead(r) /\ NoGap(r) /\ UpToNow(r)
    /\ Untouched(r) /\ Within(r) /\ CountsLosses(r)

NInv == /\ TInv /\ FrameInv
        /\ \A r \in Peers : Traced(r)
        /\ Serving => seq_num <= MaxSends

\* The numbers in what a queue becomes.
LEMMA NumbersNone == Numbers(<<>>) = {} /\ Increasing(<<>>)
  BY DEF Numbers, Increasing

LEMMA NumbersTail ==
    ASSUME NEW S, NEW q \in Seq(S), q # <<>>
    PROVE  /\ Numbers(q) = {Head(q).seq} \cup Numbers(Tail(q))
           /\ Increasing(q) =>
                 /\ Increasing(Tail(q))
                 /\ \A x \in Numbers(Tail(q)) : Head(q).seq < x
<1>1. Numbers(q) \subseteq {Head(q).seq} \cup Numbers(Tail(q))
  <2> SUFFICES ASSUME NEW i \in 1 .. Len(q)
               PROVE  q[i].seq \in {Head(q).seq} \cup Numbers(Tail(q))
    BY TailParts DEF Numbers
  <2>1. CASE i = 1
    BY TailParts, <2>1
  <2>2. CASE i - 1 \in 1 .. Len(q) - 1 /\ q[i] = Tail(q)[i - 1]
    BY TailParts, <2>2 DEF Numbers
  <2> QED
    BY TailParts, <2>1, <2>2
<1>2. {Head(q).seq} \cup Numbers(Tail(q)) \subseteq Numbers(q)
  BY TailParts DEF Numbers
<1>3. ASSUME Increasing(q) PROVE Increasing(Tail(q))
  <2> SUFFICES ASSUME NEW i \in 1 .. Len(q) - 1, NEW j \in 1 .. Len(q) - 1,
                      i < j
               PROVE  Tail(q)[i].seq < Tail(q)[j].seq
    BY TailParts DEF Increasing
  <2>1. i + 1 < j + 1
    OBVIOUS
  <2> QED
    BY TailParts, <1>3, <2>1 DEF Increasing
<1>4. ASSUME Increasing(q) PROVE \A x \in Numbers(Tail(q)) : Head(q).seq < x
  BY TailParts, <1>4 DEF Increasing, Numbers
<1> QED
  BY <1>1, <1>2, <1>3, <1>4

LEMMA NumbersAppend ==
    ASSUME NEW S, NEW q \in Seq(S), NEW e \in S
    PROVE  /\ Numbers(Append(q, e)) = Numbers(q) \cup {e.seq}
           /\ Increasing(q) /\ (\A x \in Numbers(q) : x < e.seq) =>
                 Increasing(Append(q, e))
<1>1. Numbers(Append(q, e)) = Numbers(q) \cup {e.seq}
  BY AppendParts DEF Numbers
<1>2. ASSUME Increasing(q), \A x \in Numbers(q) : x < e.seq
      PROVE  Increasing(Append(q, e))
  <2> SUFFICES ASSUME NEW i \in 1 .. Len(q) + 1, NEW j \in 1 .. Len(q) + 1,
                      i < j
               PROVE  Append(q, e)[i].seq < Append(q, e)[j].seq
    BY AppendParts DEF Increasing
  <2>1. i \in 1 .. Len(q)
    BY AppendParts
  <2>2. CASE j \in 1 .. Len(q)
    BY AppendParts, <1>2, <2>1, <2>2 DEF Increasing
  <2>3. CASE j = Len(q) + 1
    <3>1. q[i].seq \in Numbers(q)
      BY AppendParts, <2>1 DEF Numbers
    <3> QED
      BY AppendParts, <1>2, <2>1, <2>3, <3>1
  <2> QED
    BY AppendParts, <2>2, <2>3
<1> QED
  BY <1>1, <1>2

LEMMA HeadRemoved ==
    ASSUME NEW S, NEW q \in Seq(S), q # <<>>
    PROVE  RemoveAt(q, 1) = Tail(q)
<1>1. Len(q) \in Nat /\ Len(q) >= 1
  <2>1. Len(q) \in Nat /\ Len(q) # 0
    BY LenProperties, EmptySeq
  <2> QED
    BY <2>1
<1>2. SubSeq(q, 1, 1 - 1) = <<>>
  BY <1>1
<1>3. SubSeq(q, 1 + 1, Len(q)) = Tail(q)
  BY <1>1
<1>4. <<>> \o Tail(q) = Tail(q)
  BY <1>1
<1>5. RemoveAt(q, 1) = SubSeq(q, 1, 1 - 1) \o SubSeq(q, 1 + 1, Len(q))
  BY DEF RemoveAt
<1> QED
  BY <1>2, <1>3, <1>4, <1>5

LEMMA NumbersType ==
    ASSUME NEW q \in Seq(Datagrams)
    PROVE  Numbers(q) \subseteq Word
<1>1. \A i \in DOMAIN q : q[i] \in Datagrams
  OBVIOUS
<1>2. \A i \in DOMAIN q : q[i].seq \in Word
  BY <1>1 DEF Datagrams
<1> QED
  BY <1>2 DEF Numbers

\* The numbers below a bound are finitely many.
LEMMA BelowFinite ==
    ASSUME NEW n \in Nat, NEW T, T \subseteq 0 .. (n - 1)
    PROVE  IsFiniteSet(T) /\ Cardinality(T) \in 0 .. n
<1>1. IsFiniteSet(0 .. (n - 1)) /\ Cardinality(0 .. (n - 1)) = n
  <2>1. 0 \in Int /\ n - 1 \in Int
    OBVIOUS
  <2>2. /\ IsFiniteSet(0 .. (n - 1))
        /\ Cardinality(0 .. (n - 1)) = IF 0 > n - 1 THEN 0 ELSE (n - 1) - 0 + 1
    BY <2>1, FS_Interval
  <2> QED
    BY <2>2
<1>2. IsFiniteSet(T) /\ Cardinality(T) <= Cardinality(0 .. (n - 1))
  BY <1>1, FS_Subset
<1>3. Cardinality(T) \in Nat
  BY <1>2, FS_CardinalityType
<1> QED
  BY <1>1, <1>2, <1>3

\* The turn of a reader's loop: if all numbers it skips are lost, and the one
\* it reads is not, the gap it adds is the number of losses it has passed.
LEMMA CountedGap ==
    ASSUME NEW L \in SUBSET Nat, NEW E \in Nat, NEW s \in Nat, E <= s,
           E .. (s - 1) \subseteq L, s \notin L
    PROVE  /\ Cardinality({x \in L : x < s + 1})
                = Cardinality({x \in L : x < E}) + (s - E)
           /\ Cardinality({x \in L : x < E}) \in Nat
           /\ Cardinality({x \in L : x < s + 1}) \in 0 .. s
<1> DEFINE C == {x \in L : x < E}
           D == {x \in L : x < s + 1}
           G == E .. (s - 1)
<1>1. IsFiniteSet(G) /\ Cardinality(G) = s - E
  <2>1. E \in Int /\ s - 1 \in Int
    OBVIOUS
  <2>2. /\ IsFiniteSet(G)
        /\ Cardinality(G) = IF E > s - 1 THEN 0 ELSE (s - 1) - E + 1
    BY <2>1, FS_Interval
  <2> QED
    BY <2>2
<1>2. C \subseteq 0 .. (E - 1) /\ D \subseteq 0 .. (s - 1)
  <2>1. \A x \in L : x \in Nat /\ x # s
    OBVIOUS
  <2>2. \A x \in Nat : (x < E => x \in 0 .. (E - 1))
                       /\ (x < s + 1 /\ x # s => x \in 0 .. (s - 1))
    OBVIOUS
  <2> QED
    BY <2>1, <2>2
<1>3. IsFiniteSet(C) /\ Cardinality(C) \in Nat /\ Cardinality(D) \in 0 .. s
  <2> HIDE DEF C, D
  <2>1. IsFiniteSet(C)
    BY <1>2, BelowFinite
  <2>2. Cardinality(D) \in 0 .. s
    BY <1>2, BelowFinite
  <2>3. Cardinality(C) \in Nat
    BY <2>1, FS_CardinalityType
  <2> QED
    BY <2>1, <2>2, <2>3
<1>4. D = C \cup G /\ C \cap G = {}
  <2>1. \A x \in L : x \in Nat /\ x # s
    OBVIOUS
  <2>2. \A x \in Nat : x \in G <=> E <= x /\ x < s
    OBVIOUS
  <2>3. \A x \in G : x \in L /\ x \in Nat
    OBVIOUS
  <2>4. \A x \in Nat : x # s => (x < s + 1 <=> x < E \/ (E <= x /\ x < s))
    OBVIOUS
  <2>5. \A x \in Nat : ~(x < E /\ E <= x)
    OBVIOUS
  <2>6. \A x : x \in D <=> x \in C \/ x \in G
    BY <2>1, <2>2, <2>3, <2>4
  <2>7. \A x : ~(x \in C /\ x \in G)
    BY <2>1, <2>2, <2>5
  <2> QED
    BY <2>6, <2>7
<1>5. Cardinality(D) = Cardinality(C) + Cardinality(G)
  <2> HIDE DEF C, D, G
  <2>1. Cardinality(C \cup G) =
           Cardinality(C) + Cardinality(G) - Cardinality(C \cap G)
    BY <1>1, <1>3, FS_Union
  <2>2. Cardinality(C \cap G) = 0
    BY <1>4, FS_EmptySet
  <2>3. Cardinality(G) \in Nat
    BY <1>1, FS_CardinalityType
  <2> QED
    BY <1>3, <1>4, <2>1, <2>2, <2>3
<1> QED
  BY <1>1, <1>3, <1>5

\* Before its session a reader only moves towards it, and a session that begins
\* is the one that connect begins.
LEMMA FreshKept ==
    ASSUME UInv, [UNext]_uvars
    PROVE  \A r \in Peers : Fresh(r)' => Fresh(r)
<1> SUFFICES ASSUME NEW r \in Peers, Fresh(r)' PROVE Fresh(r)
  OBVIOUS
<1>1. CASE UNCHANGED <<rpc, requests, spc, cliaddr, sk_q>>
  BY <1>1 DEF Fresh
<1>2. CASE Local \/ Connect \/ Send
  <2>1. UNCHANGED <<rpc, requests>>
    BY <1>2 DEF Local, Connect, Send, readers, network
  <2>2. CASE RecvRequest
    <3>1. sk_q \in Seq(Queued) /\ sk_q # <<>>
      BY <2>2 DEF RecvRequest, UInv, SInv, STypeOK
    <3>2. Senders(sk_q) = {cliaddr'} \cup Senders(sk_q)'
      BY <2>2, <3>1, SendersTail DEF RecvRequest
    <3> QED
      BY <2>1, <3>2 DEF Fresh
  <2>3. CASE /\ sk_q' \in {sk_q, <<>>}
             /\ spc' = "connect" => UNCHANGED <<spc, cliaddr>>
    BY <2>1, <2>3, SendersNone DEF Fresh
  <2>4. CASE SigAlarm
    BY <1>1, <2>1, <2>4, AlarmRaisesFlag DEF UInv, SInv, serverSocket, session
  <2>5. CASE NoBuffer \/ SyscallFails
    BY <2>3, <2>5 DEF NoBuffer, SyscallFails, Exit
  <2>6. CASE \/ OpenSocket \/ CheckAlarm \/ WriteNothing \/ WriteFails \/ Wait
             \/ CloseSocket \/ Disarm \/ StartSession \/ WriteDatagram
    BY <2>3, <2>6 DEF OpenSocket, CheckAlarm, WriteNothing, Counted, WriteFails,
       Wait, CloseSocket, Disarm, StartSession, WriteDatagram, serverSocket
  <2> QED
    BY <1>2, <2>2, <2>4, <2>5, <2>6 DEF Local, LocalStep, Connect, Send
<1>3. ASSUME NEW p \in Peers, Ask(p) PROVE Fresh(r)
  BY <1>3 DEF Ask, Fresh, svars, serverSocket, session, UInv, UTypeOK
<1>4. ASSUME NEW p \in Peers, RequestArrives(p) PROVE Fresh(r)
  <2>1. requests' \subseteq requests /\ p \in requests /\ UNCHANGED rpc
    BY <1>4 DEF RequestArrives, readers
  <2>2. CASE Deliver(p, RequestOf[p])
    BY <2>1, <2>2, Arrival DEF Fresh
  <2>3. CASE UNCHANGED svars
    BY <2>1, <2>3 DEF Fresh, svars, serverSocket, session
  <2> QED
    BY <1>4, <2>2, <2>3 DEF RequestArrives
<1>5. ASSUME NEW p \in Peers,
             \/ Read(p) \/ ReadFails(p) \/ SigInt(p) \/ DatagramArrives(p)
             \/ IcmpToServer(p) \/ IcmpToReader(p) \/ LoseDatagram(p)
             \/ LoseMessage(p)
      PROVE  Fresh(r)
  <2>1. Shrinks
    BY <1>5, OthersShrink
  <2>2. UNCHANGED <<spc, cliaddr>>
    BY <1>5 DEF Read, ReadFails, SigInt, Leave, DatagramArrives, IcmpToServer,
                Refused, IcmpToReader, LoseDatagram, LoseMessage, svars, session
  <2> QED
    BY <2>1, <2>2 DEF Shrinks, Fresh
<1>6. CASE UNCHANGED uvars
  BY <1>1, <1>6 DEF uvars, svars, serverSocket, session, readers, network
<1> QED
  BY <1>2, <1>3, <1>4, <1>5, <1>6 DEF UNext

\* Every request asks for something, so every turn of a session sends.
LEMMA NothingIsNotWritten ==
    ASSUME FrameInv
    PROVE  ~WriteNothing
<1>1. spc = "writen" => arg_to_server.bufsize \in 1 .. MaxDatagram
  BY SessionAssumption DEF FrameInv, LengthAsked, InSession, SInv, Phases
<1> QED
  BY <1>1, ServerAssumption DEF WriteNothing

LEMMA ServedKept ==
    ASSUME UInv, FrameInv, [UNext]_uvars, ~Connect, ~Send
    PROVE  /\ Serving' => Serving /\ seq_num' = seq_num
           /\ \A r \in Peers : Served(r)' => Served(r)
<1> USE DEF Serving, Served
<1>1. CASE UNCHANGED <<sk, cliaddr, seq_num>>
  BY <1>1
<1>2. CASE Local
  <2>1. CASE SigAlarm
    BY <1>1, <2>1, AlarmRaisesFlag
    DEF UInv, SInv, serverSocket, session, counters
  <2>2. CASE sk' # "connected"
    BY <2>2
  <2>3. CASE \/ RecvRequest \/ NoBuffer \/ SyscallFails \/ OpenSocket
             \/ CloseSocket
    <3>1. spc \notin InSession \/ sk' = "none"
      BY <2>3 DEF RecvRequest, OpenSocket, NoBuffer, SyscallFails, Exit,
                  CloseSocket, InSession
    <3>2. sk' = sk \/ sk' \in {"none", "bound"}
      BY <2>3 DEF RecvRequest, OpenSocket, NoBuffer, SyscallFails, Exit,
                  CloseSocket
    <3> QED
      BY <2>2, <3>1, <3>2 DEF UInv, SInv, Phases
  <2>4. CASE CheckAlarm \/ WriteFails \/ Wait \/ Disarm
    BY <1>1, <2>4 DEF CheckAlarm, WriteFails, Wait, Disarm, serverSocket,
                      session, counters
  <2> QED
    BY <1>2, <2>1, <2>3, <2>4, NothingIsNotWritten DEF Local, LocalStep
<1>3. ASSUME NEW p \in Peers,
             \/ Ask(p) \/ Read(p) \/ ReadFails(p) \/ SigInt(p)
             \/ RequestArrives(p) \/ DatagramArrives(p) \/ IcmpToServer(p)
             \/ IcmpToReader(p) \/ LoseDatagram(p) \/ LoseMessage(p)
      PROVE  UNCHANGED <<sk, cliaddr, seq_num>>
  BY <1>3 DEF Ask, Read, ReadFails, SigInt, Leave, RequestArrives, Deliver,
              DatagramArrives, IcmpToServer, Refused, IcmpToReader,
              LoseDatagram, LoseMessage, svars, serverSocket, session, counters
<1>4. CASE UNCHANGED uvars
  BY <1>1, <1>4 DEF uvars, svars, serverSocket, session, counters
<1> QED
  BY <1>1, <1>2, <1>3, <1>4 DEF UNext

\* A reader nothing happens to.
Untroubled(r) ==
    /\ rq'[r] = rq[r] /\ wire'[r] = wire[r] /\ lost'[r] = lost[r]
    /\ total_read_counter'[r] = total_read_counter[r]
    /\ total_drop_counter'[r] = total_drop_counter[r]

LEMMA UntroubledTraced ==
    ASSUME NEW r \in Peers, Traced(r), Untroubled(r),
           rpc[r] \in Gone => rpc'[r] \in Gone,
           Fresh(r)' => Fresh(r),
           Served(r)' => Served(r) /\ seq_num' = seq_num
    PROVE  Traced(r)'
<1> USE DEF Untroubled, Traced, Known, Coming
<1>1. InOrder(r)' /\ Ahead(r)' /\ Within(r)' /\ CountsLosses(r)'
  BY DEF InOrder, Ahead, Within, CountsLosses
<1>2. NoGap(r)' /\ UpToNow(r)' /\ Untouched(r)'
  BY DEF NoGap, UpToNow, Untouched
<1> QED
  BY <1>1, <1>2

\* The kinds of the values an invariant of one reader is about.
LEMMA Kinds ==
    ASSUME UInv, NEW r \in Peers
    PROVE  /\ rq[r] \in Seq(Datagrams) /\ wire[r] \in Seq(Datagrams)
           /\ Numbers(rq[r]) \subseteq Nat /\ Numbers(wire[r]) \subseteq Nat
           /\ lost[r] \subseteq Nat
           /\ total_read_counter[r] \in Nat
           /\ seq_num \in Nat
           /\ MaxSends \in Nat
<1>1. Word \subseteq Nat
  BY ModulusAssumption DEF Word
<1>2. rq[r] \in Seq(Datagrams) /\ wire[r] \in Seq(Datagrams)
  BY DEF UInv, UTypeOK
<1>3. lost[r] \subseteq Word /\ total_read_counter[r] \in Word
  BY DEF UInv, UTypeOK
<1>4. seq_num \in Word
  BY DEF UInv, UTypeOK, STypeOK
<1> QED
  BY <1>1, <1>2, <1>3, <1>4, NumbersType, SessionAssumption

LEMMA ChosenNotFresh ==
    ASSUME TInv, NEW r \in Peers, Served(r)
    PROVE  ~Fresh(r)
  BY DEF TInv, TokenInv, Token, Served, Serving, Chosen, Fresh, UInv, SInv,
         Phases, InSession

LEMMA SendTraced ==
    ASSUME MaxSends < Modulus, NInv, [UNext]_uvars, Send
    PROVE  /\ \A r \in Peers : Traced(r)'
           /\ Serving' => seq_num' <= MaxSends
<1> DEFINE d == [seq |-> seq_num, len |-> arg_to_server.bufsize]
<1> USE DEF NInv, TInv
<1>1. /\ cliaddr \in Peers /\ Served(cliaddr) /\ seq_num \in Word
      /\ seq_num < MaxSends
      /\ seq_num' = Succ(seq_num)
      /\ UNCHANGED <<cliaddr, sk, rpc, rq, lost, total_read_counter,
                     total_drop_counter>>
      /\ wire' = [wire EXCEPT ![cliaddr] = Append(wire[cliaddr], d)]
      /\ DOMAIN wire = Peers
      /\ d \in Datagrams
  BY DEF Send, WriteDatagram, Counted, Served, Serving, UInv, UTypeOK, SInv,
         STypeOK, Phases, InSession, serverSocket, session, readers, history,
         Datagrams
<1>2. seq_num' = seq_num + 1 /\ seq_num \in Nat /\ MaxSends \in Nat
  BY <1>1, ModulusAssumption, SessionAssumption DEF Word, Succ, Plus
<1>3. seq_num' <= MaxSends
  BY <1>1, <1>2
<1>4. ASSUME NEW r \in Peers, r # cliaddr PROVE Traced(r)'
  <2>1. Untroubled(r)
    BY <1>1, <1>4 DEF Untroubled
  <2>2. ~Served(r)'
    BY <1>1, <1>4 DEF Served
  <2> QED
    BY <1>1, <2>1, <2>2, FreshKept, UntroubledTraced
<1>5. ASSUME NEW r \in Peers, r = cliaddr PROVE Traced(r)'
  <2> DEFINE Q == Numbers(rq[r])  W == Numbers(wire[r])
             L == lost[r]  E == total_read_counter[r]
             n == seq_num
  <2>1. /\ Q \subseteq Nat /\ W \subseteq Nat /\ L \subseteq Nat /\ E \in Nat
        /\ n \in Nat /\ wire[r] \in Seq(Datagrams)
    BY <1>1, <1>5, Kinds
  <2>2. /\ E <= n /\ Q \cup W \cup L \subseteq 0 .. n - 1
        /\ rpc[r] \notin Gone => E .. n - 1 \subseteq Q \cup W \cup L
    BY <1>1, <1>5 DEF Traced, UpToNow, Known
  <2>3. Numbers(wire[r])' = W \cup {n}
    <3>1. wire'[r] = Append(wire[r], d) /\ d.seq = n
      BY <1>1, <1>5
    <3> HIDE DEF d
    <3> QED
      BY <1>1, <1>5, <2>1, <3>1, NumbersAppend
  <2>4. /\ Known(r)' = Q \cup (W \cup {n}) \cup L
        /\ Coming(r)' = Q \cup (W \cup {n})
        /\ Numbers(rq[r])' = Q /\ lost'[r] = L
        /\ total_read_counter'[r] = E
        /\ total_drop_counter'[r] = total_drop_counter[r]
    BY <1>1, <1>5, <2>3 DEF Known, Coming
  <2>5. InOrder(r)'
    <3>1. \A x \in W : x < n
      BY <2>1, <2>2
    <3>2. Increasing(wire'[r])
      <4>1. wire'[r] = Append(wire[r], d) /\ d.seq = n
        BY <1>1, <1>5
      <4>2. Increasing(wire[r])
        BY <1>1, <1>5 DEF Traced, InOrder
      <4> HIDE DEF d
      <4> QED
        BY <1>1, <1>5, <2>1, <3>1, <4>1, <4>2, NumbersAppend
    <3>3. \A x \in Q, y \in W \cup {n} : x < y
      BY <1>1, <1>5, <2>1, <2>2 DEF Traced, InOrder
    <3>4. Increasing(rq'[r])
      BY <1>1, <1>5 DEF Traced, InOrder
    <3> HIDE DEF Q, W, n
    <3> QED
      BY <2>3, <2>4, <3>2, <3>3, <3>4 DEF InOrder
  <2>6. Ahead(r)'
    <3>1. n \notin L
      BY <2>1, <2>2
    <3>2. \A x \in Q \cup W : E <= x /\ x \notin L
      BY <1>1, <1>5 DEF Traced, Ahead, Coming
    <3> HIDE DEF Q, W, L, E, n
    <3> QED
      BY <2>2, <2>4, <3>1, <3>2 DEF Ahead
  <2>7. rpc[r] \notin Gone => E .. n \subseteq Q \cup (W \cup {n}) \cup L
    <3>1. E .. n \subseteq (E .. n - 1) \cup {n}
      BY <2>1
    <3> QED
      BY <2>2, <3>1
  <2>8. NoGap(r)'
    <3>1. ASSUME rpc[r] \notin Gone, NEW x \in Q \cup (W \cup {n})
          PROVE  E .. x \subseteq Q \cup (W \cup {n}) \cup L
      <4>1. CASE x = n
        BY <2>7, <3>1, <4>1
      <4>2. CASE x \in Q \cup W
        <5>1. E .. x \subseteq Q \cup W \cup L
          BY <1>1, <1>5, <3>1, <4>2 DEF Traced, NoGap, Coming, Known
        <5> QED
          BY <5>1
      <4> QED
        BY <3>1, <4>1, <4>2
    <3> HIDE DEF Q, W, L, E, n
    <3> QED
      BY <1>1, <1>5, <2>4, <3>1 DEF NoGap
  <2>9. Q \cup (W \cup {n}) \cup L \subseteq 0 .. n
    BY <2>1, <2>2
  <2>10. UpToNow(r)'
    <3>1. seq_num' - 1 = n /\ E <= seq_num'
      BY <1>2, <2>1, <2>2
    <3> HIDE DEF Q, W, L, E, n
    <3> QED
      BY <1>1, <1>5, <2>4, <2>7, <2>9, <3>1 DEF UpToNow
  <2>11. Untouched(r)'
    BY <1>1, <1>5, FreshKept, ChosenNotFresh DEF Untouched
  <2>12. Within(r)'
    <3>1. 0 .. n \subseteq 0 .. MaxSends - 1
      BY <1>1, <1>5, <1>2
    <3>2. E <= MaxSends
      BY <1>1, <1>5 DEF Traced, Within
    <3> HIDE DEF Q, W, L, E, n
    <3> QED
      BY <2>4, <2>9, <3>1, <3>2 DEF Within
  <2>13. CountsLosses(r)'
    BY <1>1, <1>5 DEF Traced, CountsLosses
  <2> QED
    BY <2>5, <2>6, <2>8, <2>10, <2>11, <2>12, <2>13 DEF Traced
<1> QED
  BY <1>1, <1>3, <1>4, <1>5

LEMMA ConnectTraced ==
    ASSUME NInv, [UNext]_uvars, Connect
    PROVE  /\ \A r \in Peers : Traced(r)'
           /\ Serving' => seq_num' <= MaxSends
<1> USE DEF NInv, TInv
<1>1. /\ spc = "connect" /\ seq_num' = 0 /\ MaxSends \in Nat
      /\ UNCHANGED <<cliaddr, rpc, rq, wire, lost, total_read_counter,
                     total_drop_counter>>
  BY SessionAssumption
  DEF Connect, StartSession, readers, network
<1>2. ASSUME NEW r \in Peers PROVE Traced(r)'
  <2>1. Untroubled(r)
    BY <1>1 DEF Untroubled
  <2>2. CASE r # cliaddr
    <3>1. ~Served(r)'
      BY <1>1, <2>2 DEF Served
    <3> QED
      BY <1>1, <2>1, <3>1, FreshKept, UntroubledTraced
  <2>3. CASE r = cliaddr
    <3>1. Fresh(r)
      BY <1>1, <2>3 DEF Fresh
    <3>2. Known(r) = {} /\ total_read_counter[r] = 0
      BY <3>1 DEF Traced, Untouched
    <3>3. UpToNow(r)'
      <4>1. Known(r)' = {} /\ total_read_counter'[r] = 0
        BY <1>1, <3>2 DEF Known
      <4> QED
        BY <1>1, <4>1 DEF UpToNow
    <3>4. InOrder(r)' /\ Ahead(r)' /\ Within(r)' /\ CountsLosses(r)'
      BY <1>1 DEF Traced, InOrder, Ahead, Within, CountsLosses, Known, Coming
    <3>5. NoGap(r)' /\ Untouched(r)'
      BY <1>1, FreshKept DEF Traced, NoGap, Untouched, Known, Coming
    <3> QED
      BY <3>3, <3>4, <3>5 DEF Traced
  <2> QED
    BY <2>2, <2>3
<1> QED
  BY <1>1, <1>2

LEMMA LeaveTraced ==
    ASSUME NInv, [UNext]_uvars, NEW r \in Peers, ReadFails(r) \/ SigInt(r)
    PROVE  Traced(r)'
<1> USE DEF NInv, TInv
<1>1. /\ rq'[r] = <<>> /\ rpc'[r] \in Gone
      /\ UNCHANGED <<svars, wire, lost, total_read_counter, total_drop_counter>>
  BY DEF ReadFails, SigInt, Leave, Gone, network, history, UInv, UTypeOK
<1>2. UNCHANGED <<sk, cliaddr, seq_num>>
  BY <1>1 DEF svars, serverSocket, session, counters
<1>3. /\ Known(r)' \subseteq Known(r) /\ Coming(r)' \subseteq Coming(r)
      /\ lost' = lost /\ total_read_counter' = total_read_counter
  BY <1>1, NumbersNone DEF Known, Coming
<1>4. InOrder(r)'
  BY <1>1, NumbersNone DEF Traced, InOrder
<1>5. Ahead(r)' /\ Within(r)' /\ NoGap(r)'
  BY <1>1, <1>3 DEF Traced, Ahead, Within, NoGap
<1>6. UpToNow(r)'
  BY <1>1, <1>2, <1>3 DEF Traced, UpToNow, Served, Serving
<1>7. Untouched(r)'
  BY <1>3, FreshKept DEF Traced, Untouched
<1>8. CountsLosses(r)'
  BY <1>1 DEF Traced, CountsLosses
<1> QED
  BY <1>4, <1>5, <1>6, <1>7, <1>8 DEF Traced

LEMMA ReadTraced ==
    ASSUME MaxSends < Modulus, NInv, [UNext]_uvars, NEW r \in Peers, Read(r)
    PROVE  Traced(r)'
<1> DEFINE s == Head(rq[r]).seq  T == Numbers(Tail(rq[r]))
           W == Numbers(wire[r]) L == lost[r]  E == total_read_counter[r]
           c == total_drop_counter[r]
<1> USE DEF NInv, TInv
<1>1. /\ rq[r] # <<>> /\ rq'[r] = Tail(rq[r]) /\ rpc[r] = "reading"
      /\ total_read_counter'[r] = Succ(s)
      /\ total_drop_counter'[r] = Plus(c, Minus(s, E))
      /\ UNCHANGED <<svars, rpc, wire, lost>>
  BY DEF Read, network, history, UInv, UTypeOK
<1>2. UNCHANGED <<sk, cliaddr, seq_num>>
  BY <1>1 DEF svars, serverSocket, session, counters
<1>3. /\ Numbers(rq[r]) = {s} \cup T
      /\ Increasing(Tail(rq[r])) /\ \A x \in T : s < x
      /\ Increasing(wire[r])
  BY <1>1, Kinds, NumbersTail DEF Traced, InOrder
<1>4. /\ s \in Nat /\ T \subseteq Nat /\ W \subseteq Nat /\ L \subseteq Nat
      /\ E \in Nat /\ MaxSends \in Nat /\ seq_num \in Nat
      /\ Modulus \in Nat
  BY <1>3, Kinds, ModulusAssumption
<1>5. \A x \in T, y \in W : s < y /\ x < y
  BY <1>3 DEF Traced, InOrder
<1>6. \A y \in W : s < y
  BY <1>3 DEF Traced, InOrder
<1>7. E <= s /\ s \notin L /\ \A x \in T \cup W : E <= x /\ x \notin L
  BY <1>3 DEF Traced, Ahead, Coming
<1>8. /\ E .. s \subseteq {s} \cup T \cup W \cup L
      /\ \A x \in T \cup W : E .. x \subseteq {s} \cup T \cup W \cup L
  BY <1>1, <1>3 DEF Traced, NoGap, Known, Coming, Gone
<1>9. {s} \cup T \cup W \cup L \subseteq 0 .. MaxSends - 1
  BY <1>3 DEF Traced, Within, Known
<1>10. total_read_counter'[r] = s + 1
  BY <1>1, <1>4, <1>9 DEF Succ, Plus
<1>11. /\ Known(r)' = T \cup W \cup L /\ Coming(r)' = T \cup W
       /\ Numbers(rq'[r]) = T /\ Numbers(wire'[r]) = W /\ lost'[r] = L
  BY <1>1 DEF Known, Coming
<1>12. CountsLosses(r)'
  <2>1. E .. (s - 1) \subseteq L
    <3> SUFFICES ASSUME NEW x \in E .. (s - 1) PROVE x \in L
      OBVIOUS
    <3>1. x \in E .. s /\ x < s
      BY <1>4
    <3> QED
      BY <1>3, <1>4, <1>6, <1>8, <3>1
  <2>2. /\ Cardinality({x \in L : x < s + 1})
              = Cardinality({x \in L : x < E}) + (s - E)
        /\ Cardinality({x \in L : x < E}) \in Nat
        /\ Cardinality({x \in L : x < s + 1}) \in 0 .. s
    <3> HIDE DEF s, L, E
    <3> QED
      BY <1>4, <1>7, <2>1, CountedGap
  <2>3. c = Cardinality({x \in L : x < E})
    BY DEF Traced, CountsLosses
  <2>4. s < Modulus /\ Minus(s, E) = s - E
    BY <1>4, <1>7, <1>9 DEF Minus
  <2>5. Plus(c, Minus(s, E)) = Cardinality({x \in L : x < s + 1})
    <3> HIDE DEF s, L, E, c
    <3> QED
      BY <1>4, <2>2, <2>3, <2>4 DEF Plus
  <2> HIDE DEF s, L, E, c
  <2> QED
    BY <1>1, <1>10, <1>11, <2>5 DEF CountsLosses
<1>13. InOrder(r)'
  BY <1>1, <1>3, <1>5, <1>11 DEF InOrder
<1>14. Ahead(r)'
  <2>1. \A x \in T \cup W : s + 1 <= x
    BY <1>3, <1>4, <1>6
  <2> HIDE DEF s, T, W, L, E
  <2> QED
    BY <1>7, <1>10, <1>11, <2>1 DEF Ahead
<1>15. NoGap(r)'
  <2>1. ASSUME NEW x \in T \cup W
        PROVE  (s + 1) .. x \subseteq T \cup W \cup L
    <3> SUFFICES ASSUME NEW z \in (s + 1) .. x PROVE z \in T \cup W \cup L
      OBVIOUS
    <3>1. z \in E .. x /\ z # s
      BY <1>4, <1>7
    <3> HIDE DEF s, T, W, L, E
    <3> QED
      BY <1>8, <3>1
  <2> HIDE DEF s, T, W, L, E
  <2> QED
    BY <1>10, <1>11, <2>1 DEF NoGap
<1>16. UpToNow(r)'
  <2> SUFFICES ASSUME Served(r)
               PROVE  /\ s + 1 <= seq_num
                      /\ T \cup W \cup L \subseteq 0 .. seq_num - 1
                      /\ (s + 1) .. seq_num - 1 \subseteq T \cup W \cup L
    <3> HIDE DEF s, T, W, L, E
    <3> QED
      BY <1>2, <1>10, <1>11 DEF UpToNow, Served, Serving
  <2>1. /\ {s} \cup T \cup W \cup L \subseteq 0 .. seq_num - 1
        /\ E .. seq_num - 1 \subseteq {s} \cup T \cup W \cup L
    BY <1>1, <1>3 DEF Traced, UpToNow, Known, Gone
  <2>2. (s + 1) .. seq_num - 1 \subseteq T \cup W \cup L
    <3> SUFFICES ASSUME NEW z \in (s + 1) .. seq_num - 1
                 PROVE  z \in T \cup W \cup L
      OBVIOUS
    <3>1. z \in E .. seq_num - 1 /\ z # s
      BY <1>4, <1>7
    <3> HIDE DEF s, T, W, L, E
    <3> QED
      BY <2>1, <3>1
  <2>3. s + 1 <= seq_num
    BY <1>4, <2>1
  <2> QED
    BY <2>1, <2>2, <2>3
<1>17. Untouched(r)'
  <2>1. s \in Known(r)
    BY <1>3 DEF Known
  <2> QED
    BY <2>1, FreshKept DEF Traced, Untouched
<1>18. Within(r)'
  <2>1. s + 1 <= MaxSends
    BY <1>4, <1>9
  <2> HIDE DEF s, T, W, L, E
  <2> QED
    BY <1>9, <1>10, <1>11, <2>1 DEF Within
<1> QED
  BY <1>12, <1>13, <1>14, <1>15, <1>16, <1>17, <1>18 DEF Traced

\* The next datagram of a reader leaves the network: it is queued, or lost, or
\* finds nobody.
LEMMA HeadTraced ==
    ASSUME NInv, [UNext]_uvars, NEW r \in Peers, wire[r] # <<>>,
           wire'[r] = Tail(wire[r]),
           UNCHANGED <<svars, rpc, total_read_counter, total_drop_counter>>,
           \/ rq'[r] = Append(rq[r], Head(wire[r])) /\ lost'[r] = lost[r]
           \/ rq'[r] = rq[r] /\ lost'[r] = lost[r] \cup {Head(wire[r]).seq}
           \/ rq'[r] = rq[r] /\ lost'[r] = lost[r] /\ rpc[r] \in Gone
    PROVE  Traced(r)'
<1> DEFINE h == Head(wire[r]).seq  V == Numbers(Tail(wire[r]))
           Q == Numbers(rq[r])  L == lost[r]  E == total_read_counter[r]
           Q1 == Numbers(rq'[r])  L1 == lost'[r]
<1> USE DEF NInv, TInv
<1>1. UNCHANGED <<sk, cliaddr, seq_num>>
  BY DEF svars, serverSocket, session, counters
<1>2. /\ Numbers(wire[r]) = {h} \cup V
      /\ Increasing(Tail(wire[r])) /\ \A x \in V : h < x
      /\ Increasing(rq[r])
  BY Kinds, NumbersTail DEF Traced, InOrder
<1>3. /\ h \in Nat /\ V \subseteq Nat /\ Q \subseteq Nat /\ L \subseteq Nat
      /\ E \in Nat
  BY <1>2, Kinds
<1>4. \A x \in Q : x < h /\ \A y \in V : x < y
  BY <1>2 DEF Traced, InOrder
<1>5. E <= h /\ h \notin L /\ \A x \in Q \cup V : E <= x /\ x \notin L
  BY <1>2 DEF Traced, Ahead, Coming
<1>6. /\ Known(r) = Q \cup ({h} \cup V) \cup L
      /\ Coming(r) = Q \cup ({h} \cup V)
      /\ Known(r)' = Q1 \cup V \cup L1
      /\ Coming(r)' = Q1 \cup V
      /\ total_read_counter'[r] = E /\ lost'[r] = L1
  BY <1>2 DEF Known, Coming
<1>7. \/ Q1 = Q \cup {h} /\ L1 = L
      \/ Q1 = Q /\ L1 = L \cup {h}
      \/ Q1 = Q /\ L1 = L /\ rpc[r] \in Gone
  <2>1. CASE rq'[r] = Append(rq[r], Head(wire[r])) /\ lost'[r] = lost[r]
    <3>1. Head(wire[r]) \in Datagrams /\ rq[r] \in Seq(Datagrams)
      BY Kinds
    <3>2. Numbers(Append(rq[r], Head(wire[r]))) = Q \cup {h}
      BY <3>1, NumbersAppend
    <3> QED
      BY <2>1, <3>2
  <2> QED
    BY <2>1
<1>8. InOrder(r)'
  <2>1. Increasing(rq'[r])
    <3>1. Head(wire[r]) \in Datagrams /\ rq[r] \in Seq(Datagrams)
      BY Kinds
    <3>2. Increasing(Append(rq[r], Head(wire[r])))
      BY <1>2, <1>4, <3>1, NumbersAppend
    <3> QED
      BY <1>2, <3>2
  <2>2. \A x \in Q1, y \in V : x < y
    BY <1>2, <1>4, <1>7
  <2> HIDE DEF V, Q1
  <2>3. Numbers(rq'[r]) = Q1 /\ Numbers(wire'[r]) = V
    BY DEF V, Q1
  <2> QED
    BY <1>2, <2>1, <2>2, <2>3 DEF InOrder
<1> HIDE DEF h, V, Q, L, E, Q1, L1
<1>9. \A x \in Q \cup V : x # h
  BY <1>2, <1>3, <1>4
<1>10. Known(r)' \subseteq Known(r) /\ Coming(r)' \subseteq Coming(r)
  BY <1>6, <1>7
<1>11. rpc[r] \notin Gone => Known(r)' = Known(r)
  BY <1>6, <1>7
<1>12. Ahead(r)'
  BY <1>5, <1>6, <1>7, <1>9 DEF Ahead
<1>13. NoGap(r)'
  BY <1>6, <1>10, <1>11 DEF Traced, NoGap, E
<1>14. UpToNow(r)'
  BY <1>1, <1>6, <1>10, <1>11 DEF Traced, UpToNow, Served, Serving, E
<1>15. Untouched(r)'
  BY <1>6, <1>10, FreshKept DEF Traced, Untouched, E
<1>16. Within(r)'
  BY <1>6, <1>10 DEF Traced, Within, E
<1>17. CountsLosses(r)'
  <2>1. {x \in L1 : x < E} = {x \in L : x < E}
    BY <1>3, <1>5, <1>7
  <2>2. total_drop_counter[r] = Cardinality({x \in L : x < E})
    BY DEF Traced, CountsLosses, L, E
  <2> QED
    BY <1>6, <2>1, <2>2 DEF CountsLosses
<1> QED
  BY <1>8, <1>12, <1>13, <1>14, <1>15, <1>16, <1>17 DEF Traced

LEMMA ArrivalTraced ==
    ASSUME "reorder" \notin Network, "dup" \notin Network,
           NInv, [UNext]_uvars, NEW r \in Peers, DatagramArrives(r)
    PROVE  Traced(r)'
<1> USE DEF NInv, TInv
<1>1. /\ wire[r] # <<>> /\ wire' = [wire EXCEPT ![r] = RemoveAt(wire[r], 1)]
      /\ UNCHANGED <<svars, rpc, total_read_counter, total_drop_counter>>
      /\ \/ /\ rq' = [rq EXCEPT ![r] = Append(rq[r], wire[r][1])]
            /\ lost' = lost
         \/ /\ lost' = [lost EXCEPT ![r] = lost[r] \cup {wire[r][1].seq}]
            /\ rq' = rq
         \/ rpc[r] \in Gone /\ rq' = rq /\ lost' = lost
  BY Kinds DEF DatagramArrives
<1>2. wire[r][1] = Head(wire[r])
  BY <1>1, Kinds
<1>3. wire'[r] = Tail(wire[r])
  BY <1>1, Kinds, HeadRemoved DEF UInv, UTypeOK
<1>4. \/ rq'[r] = Append(rq[r], Head(wire[r])) /\ lost'[r] = lost[r]
      \/ rq'[r] = rq[r] /\ lost'[r] = lost[r] \cup {Head(wire[r]).seq}
      \/ rq'[r] = rq[r] /\ lost'[r] = lost[r] /\ rpc[r] \in Gone
  BY <1>1, <1>2 DEF UInv, UTypeOK
<1> QED
  BY <1>1, <1>3, <1>4, HeadTraced

LEMMA LossTraced ==
    ASSUME NInv, [UNext]_uvars, NEW r \in Peers, LoseDatagram(r)
    PROVE  Traced(r)'
<1>1. /\ wire[r] # <<>> /\ wire'[r] = Tail(wire[r])
      /\ UNCHANGED <<svars, rpc, total_read_counter, total_drop_counter>>
      /\ rq'[r] = rq[r] /\ lost'[r] = lost[r] \cup {Head(wire[r]).seq}
  BY DEF LoseDatagram, readers, NInv, TInv, UInv, UTypeOK
<1> QED
  BY <1>1, HeadTraced

LEMMA NumbersInit == UInit => NInv
<1> SUFFICES ASSUME UInit PROVE NInv
  OBVIOUS
<1>1. TInv /\ FrameInv /\ ~Serving
  BY UInvInit, TokenInit, FrameInit DEF TInv, UInit, SInit, Serving
<1>2. ASSUME NEW r \in Peers PROVE Traced(r)
  <2>1. /\ rq[r] = <<>> /\ wire[r] = <<>> /\ lost[r] = {}
        /\ total_read_counter[r] = 0 /\ total_drop_counter[r] = 0
    BY DEF UInit
  <2>2. Known(r) = {} /\ Coming(r) = {}
    BY <2>1, NumbersNone DEF Known, Coming
  <2>3. InOrder(r)
    BY <2>1, NumbersNone DEF InOrder
  <2>4. Ahead(r) /\ NoGap(r) /\ UpToNow(r) /\ Untouched(r)
    BY <1>1, <2>1, <2>2 DEF Ahead, NoGap, UpToNow, Served, Untouched
  <2>5. Within(r)
    BY <2>1, <2>2, SessionAssumption DEF Within
  <2>6. CountsLosses(r)
    <3>1. {s \in lost[r] : s < total_read_counter[r]} = {}
      BY <2>1
    <3> QED
      BY <2>1, <3>1, FS_EmptySet DEF CountsLosses
  <2> QED
    BY <2>3, <2>4, <2>5, <2>6 DEF Traced
<1> QED
  BY <1>1, <1>2 DEF NInv

LEMMA NumbersNext ==
    ASSUME "reorder" \notin Network, "dup" \notin Network, MaxSends < Modulus,
           NInv, [UNext]_uvars
    PROVE  NInv'
<1> USE DEF NInv, TInv
<1>1. TInv' /\ FrameInv'
  BY UInvNext, TokenNext, FrameNext
<1> SUFFICES /\ \A r \in Peers : Traced(r)'
             /\ Serving' => seq_num' <= MaxSends
  BY <1>1
<1>2. CASE Send
  BY <1>2, SendTraced
<1>3. CASE Connect
  BY <1>3, ConnectTraced
<1>4. CASE ~Send /\ ~Connect
  <2>1. Serving' => seq_num' <= MaxSends
    BY <1>4, ServedKept
  <2>2. ASSUME NEW r \in Peers, Untroubled(r) PROVE Traced(r)'
    <3>1. rpc[r] \in Gone => rpc'[r] \in Gone
      BY GoneForGood DEF UInv, UTypeOK, ReaderTypes
    <3>2. Served(r)' => Served(r) /\ seq_num' = seq_num
      BY <1>4, ServedKept DEF Served
    <3> QED
      BY <2>2, <3>1, <3>2, FreshKept, UntroubledTraced
  <2>3. ASSUME NEW p \in Peers,
               \/ Read(p) \/ ReadFails(p) \/ SigInt(p)
               \/ DatagramArrives(p) \/ LoseDatagram(p)
        PROVE  \A r \in Peers : Traced(r)'
    <3>1. Traced(p)'
      BY <2>3, ReadTraced, LeaveTraced, ArrivalTraced, LossTraced
    <3>2. ASSUME NEW r \in Peers, r # p PROVE Untroubled(r)
      BY <2>3, <3>2
      DEF Read, ReadFails, SigInt, Leave, DatagramArrives, LoseDatagram,
          readers, network, history, Untroubled, UInv, UTypeOK
    <3> QED
      BY <2>2, <3>1, <3>2
  <2>4. ASSUME NEW p \in Peers,
               \/ Ask(p) \/ RequestArrives(p) \/ IcmpToServer(p)
               \/ IcmpToReader(p) \/ LoseMessage(p)
        PROVE  \A r \in Peers : Untroubled(r)
    BY <2>4 DEF Ask, RequestArrives, IcmpToServer, IcmpToReader, LoseMessage,
                readers, history, Untroubled
  <2>5. CASE Local \/ UNCHANGED uvars
    <3>1. \A r \in Peers : Untroubled(r)
      BY <2>5 DEF Local, uvars, readers, network, history, Untroubled
    <3> QED
      BY <2>1, <2>2, <3>1
  <2> QED
    BY <1>4, <2>1, <2>2, <2>3, <2>4, <2>5 DEF UNext
<1> QED
  BY <1>2, <1>3, <1>4

\* On a network that may lose anything, but neither reorders nor repeats, and
\* in sessions that do not wrap their numbers, the drop counter of every reader
\* is at every moment the number of losses it has passed: it neither misses one
\* nor blames one on a datagram that is merely late.
THEOREM LossesCounted ==
    ASSUME "reorder" \notin Network, "dup" \notin Network, MaxSends < Modulus
    PROVE  USpec => []DropsAreLosses
<1>1. NInv => DropsAreLosses
  BY DEF NInv, Traced, CountsLosses, DropsAreLosses
<1>2. NInv /\ [UNext]_uvars => NInv'
  BY NumbersNext
<1> QED
  BY <1>1, <1>2, NumbersInit, PTL DEF USpec

-----------------------------------------------------------------------------
(***************************************************************************)
(* Each reader of the composition is a drop meter, which is what           *)
(* TrendReader implements: the datagrams it has counted are the numbers up *)
(* to the next expected less those it reports as dropped.                  *)
(***************************************************************************)
Meter(r) == INSTANCE DropMeter WITH
    expected <- total_read_counter[r],
    dropped  <- total_drop_counter[r],
    counted  <- Minus(total_read_counter[r], total_drop_counter[r]),
    running  <- rpc[r] \notin Gone

\* One turn of the loop, in words: whatever number is read, one more datagram
\* is counted, and the counter is the difference again.
LEMMA MeterTurn ==
    ASSUME NEW E \in Word, NEW c \in Word, NEW s \in Word
    PROVE  LET c1 == Plus(c, Minus(s, E)) IN
           /\ Minus(Succ(s), c1) = Succ(Minus(E, c))
           /\ c1 = Minus(Succ(s), Minus(Succ(s), c1))
  BY ModulusAssumption DEF Word, Plus, Minus, Succ

LEMMA MeterStep ==
    ASSUME UInv, [UNext]_uvars, NEW r \in Peers
    PROVE  [Meter(r)!MeterNext]_(Meter(r)!meterVars)
<1> USE DEF Meter!MeterNext, Meter!meterVars
<1>1. CASE Read(r)
  <2> DEFINE s == Head(rq[r]).seq  E == total_read_counter[r]
             c == total_drop_counter[r]
  <2>1. /\ rpc[r] = "reading" /\ UNCHANGED rpc
        /\ total_read_counter'[r] = Succ(s)
        /\ total_drop_counter'[r] = Plus(c, Minus(s, E))
    BY <1>1 DEF Read, UInv, UTypeOK
  <2>2. s \in Word /\ E \in Word /\ c \in Word
    <3>1. Head(rq[r]) \in Datagrams
      BY <1>1 DEF Read, UInv, UTypeOK
    <3> QED
      BY <3>1 DEF Datagrams, UInv, UTypeOK
  <2>3. Meter(r)!Count(s)
    <3>0. /\ \A a : Meter(r)!Succ(a) = Succ(a)
          /\ \A a, b : Meter(r)!Minus(a, b) = Minus(a, b)
      BY DEF Meter!Succ, Meter!Plus, Meter!Minus, Succ, Plus, Minus
    <3> HIDE DEF s, E, c
    <3>1. /\ Minus(Succ(s), total_drop_counter'[r]) = Succ(Minus(E, c))
          /\ total_drop_counter'[r] =
                Minus(Succ(s), Minus(Succ(s), total_drop_counter'[r]))
      BY <2>1, <2>2, MeterTurn
    <3> QED
      BY <2>1, <3>0, <3>1 DEF Meter!Count, Gone, E, c
  <2> QED
    BY <2>2, <2>3 DEF Meter!Word, Word
<1>2. CASE UNCHANGED <<total_read_counter[r], total_drop_counter[r],
                       rpc[r] \notin Gone>>
  BY <1>2
<1>3. CASE ReadFails(r) \/ SigInt(r)
  BY <1>3 DEF ReadFails, SigInt, Leave, Meter!Stop, Gone, UInv, UTypeOK
<1>4. ASSUME NEW p \in Peers, p # r, Read(p) \/ ReadFails(p) \/ SigInt(p)
      PROVE  UNCHANGED <<total_read_counter[r], total_drop_counter[r], rpc[r]>>
  BY <1>4 DEF Read, ReadFails, SigInt, Leave, UInv, UTypeOK
<1>5. ASSUME NEW p \in Peers, Ask(p)
      PROVE  UNCHANGED <<total_read_counter[r], total_drop_counter[r],
                         rpc[r] \notin Gone>>
  BY <1>5 DEF Ask, Gone, UInv, UTypeOK
<1>6. ASSUME NEW p \in Peers,
             \/ RequestArrives(p) \/ DatagramArrives(p) \/ IcmpToServer(p)
             \/ IcmpToReader(p) \/ LoseDatagram(p) \/ LoseMessage(p)
      PROVE  UNCHANGED <<total_read_counter[r], total_drop_counter[r], rpc[r]>>
  BY <1>6 DEF RequestArrives, DatagramArrives, IcmpToServer, IcmpToReader,
              LoseDatagram, LoseMessage, readers
<1>7. CASE Local \/ Connect \/ Send \/ UNCHANGED uvars
  BY <1>2, <1>7 DEF Local, Connect, Send, uvars, readers
<1> QED
  BY <1>1, <1>2, <1>3, <1>4, <1>5, <1>6, <1>7 DEF UNext

\* Every reader implements the abstract meter, whatever the network does and
\* whatever the others do.
THEOREM ReadersAreMeters ==
    ASSUME NEW r \in Peers
    PROVE  USpec => Meter(r)!MeterSpec
<1>1. UInit => Meter(r)!MeterInit
  BY ModulusAssumption DEF UInit, Meter!MeterInit, Gone, Minus
<1> QED
  BY <1>1, UInvInit, UInvNext, MeterStep, PTL DEF USpec, Meter!MeterSpec

\* So what the server promises alone it promises among its readers.
THEOREM ServerPromisesInSession ==
    USpec => /\ [](STypeOK /\ NotKilledByOwnTimer /\ LinesAddUp)
             /\ ImplementsIterative
<1>1. SInv => STypeOK /\ NotKilledByOwnTimer /\ LinesAddUp
  BY DEF SInv
<1> QED
  BY <1>1, SInitInv, SNextInv, ServerInSession, IterativeRefinement, PTL
  DEF SSpec
=============================================================================
