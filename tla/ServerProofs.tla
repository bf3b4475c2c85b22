---------------------------- MODULE ServerProofs ----------------------------
(***************************************************************************)
(* The server, for every set of peers and requests, every word size and    *)
(* every bound of the model.                                               *)
(***************************************************************************)
EXTENDS Server, TLAPS

-----------------------------------------------------------------------------
(***************************************************************************)
(* Words and requests.                                                     *)
(***************************************************************************)
LEMMA WordFacts ==
    ASSUME NEW x \in Word, NEW y \in Word
    PROVE  /\ 0 \in Word
           /\ Plus(x, y) \in Word
           /\ Succ(x) \in Word
           /\ Plus(x, 0) = x
           /\ Plus(x, Succ(y)) = Succ(Plus(x, y))
  BY ModulusAssumption DEF Word, Plus, Succ

\* What the global holds after a request of any length is still a structure.
LEMMA ReceivedType ==
    ASSUME STypeOK, NEW req \in Requests
    PROVE  Received(req) \in [Fields -> Int]
<1>1. PICK F \in SUBSET Fields : req \in [F -> Int]
  BY ServerAssumption
<1>2. ASSUME NEW k \in Fields
      PROVE  (IF k \in DOMAIN req THEN req[k] ELSE arg_to_server[k]) \in Int
  BY <1>1, <1>2 DEF STypeOK
<1> QED
  BY <1>2 DEF Received

-----------------------------------------------------------------------------
(***************************************************************************)
(* Types.                                                                  *)
(***************************************************************************)
LEMMA SInitType == SInit => STypeOK
<1> SUFFICES ASSUME SInit PROVE STypeOK
  OBVIOUS
<1>1. 0 \in Word /\ 0 \in 0 .. HeapBuffers
  BY ModulusAssumption, ServerAssumption DEF Word
<1>2. arg_to_server \in [Fields -> Int]
  BY DEF SInit
<1>3. sk_q \in Seq(Queued)
  BY DEF SInit
<1> QED
  BY <1>1, <1>2, <1>3 DEF SInit, STypeOK

LEMMA ExitType ==
    ASSUME STypeOK, NEW why \in {"EINTR", "malloc", "fault"}, Exit(why)
    PROVE  STypeOK'
<1>1. sk_q' \in Seq(Queued)
  BY DEF Exit
<1> QED
  BY <1>1 DEF STypeOK, Exit, session, counters

LEMMA SNextType == STypeOK /\ [SNext]_svars => STypeOK'
<1> SUFFICES ASSUME STypeOK, [SNext]_svars PROVE STypeOK'
  OBVIOUS
<1> USE DEF STypeOK
<1>1. CASE OpenSocket
  BY <1>1 DEF OpenSocket, session, counters
<1>2. CASE RecvRequest
  <2>1. /\ Head(sk_q) \in Queued
        /\ Tail(sk_q) \in Seq(Queued)
    BY <1>2 DEF RecvRequest
  <2>2. Head(sk_q).peer \in Peers /\ Head(sk_q).req \in Requests
    BY <2>1 DEF Queued
  <2>3. arg_to_server' \in [Fields -> Int]
    BY <1>2, <2>2, ReceivedType DEF RecvRequest
  <2> QED
    BY <1>2, <2>1, <2>2, <2>3 DEF RecvRequest, counters
<1>3. CASE NoBuffer
  BY <1>3, ExitType DEF NoBuffer
<1>4. CASE StartSession
  <2>1. 0 \in Word
    BY ModulusAssumption DEF Word
  <2>2. heap' \in 0 .. HeapBuffers
    BY <1>4, ServerAssumption DEF StartSession, BufferFits
  <2> QED
    BY <1>4, <2>1, <2>2 DEF StartSession
<1>5. CASE CheckAlarm
  BY <1>5, WordFacts DEF CheckAlarm, serverSocket, session
<1>6. CASE WriteNothing \/ WriteDatagram
  BY <1>6, WordFacts
  DEF WriteNothing, WriteDatagram, Counted, serverSocket, session
<1>7. CASE WriteFails
  BY <1>7 DEF WriteFails, session, counters
<1>8. CASE Wait
  BY <1>8 DEF Wait, serverSocket, session, counters
<1>9. CASE CloseSocket
  <2>1. sk_q' \in Seq(Queued)
    BY <1>9 DEF CloseSocket
  <2> QED
    BY <1>9, <2>1 DEF CloseSocket, session, counters
<1>10. CASE Disarm
  BY <1>10 DEF Disarm, serverSocket, session, counters
<1>11. CASE SyscallFails
  BY <1>11, ExitType DEF SyscallFails
<1>12. CASE SigAlarm /\ Exit("EINTR")
  BY <1>12, ExitType
<1>13. CASE SigAlarm /\ ~Exit("EINTR")
  BY <1>13 DEF SigAlarm, serverSocket, session, counters
<1>14. ASSUME NEW p \in Peers, Refused(p) PROVE STypeOK'
  BY <1>14 DEF Refused, session, counters
<1>15. ASSUME NEW p \in Peers, NEW req \in Requests, Deliver(p, req)
       PROVE  STypeOK'
  <2>1. [peer |-> p, req |-> req] \in Queued
    BY DEF Queued
  <2>2. sk_q' \in Seq(Queued)
    BY <1>15, <2>1 DEF Deliver
  <2> QED
    BY <1>15, <2>2 DEF Deliver, session, counters
<1>16. CASE UNCHANGED svars
  BY <1>16 DEF svars, serverSocket, session, counters
<1> QED
  BY <1>1, <1>2, <1>3, <1>4, <1>5, <1>6, <1>7, <1>8, <1>9, <1>10, <1>11, <1>12,
     <1>13, <1>14, <1>15, <1>16 DEF SNext, ServerStep, LocalStep, Environment

\* Every variable of the server keeps its type; above all a request of any
\* length leaves a whole structure, and memory is never over-allocated.
THEOREM STypeCorrect == SSpec => []STypeOK
  BY SInitType, SNextType, PTL DEF SSpec

-----------------------------------------------------------------------------
(***************************************************************************)
(* Where the server is, what its socket is and whether its timer runs go   *)
(* together.  The timer is the one that is out of step: it outlives the    *)
(* socket by one step, and that is why it must not outlive the next one.   *)
(***************************************************************************)
InSession == {"top", "writen", "wait", "close"}

Phases ==
    /\ sk = "connected" <=> spc \in InSession
    /\ sk = "bound" <=> spc \in {"recvfrom", "connect"}
    /\ sk_err => sk = "connected"
    /\ timer => spc \in InSession \cup {"disarm"}
    /\ spc \in InSession \cup {"connect"} => cliaddr \in Peers

SInv == STypeOK /\ Phases /\ NotKilledByOwnTimer /\ LinesAddUp

LEMMA SInitInv == SInit => SInv
<1> SUFFICES ASSUME SInit PROVE SInv
  OBVIOUS
<1>1. Plus(0, 0) = 0
  BY ModulusAssumption DEF Plus
<1> QED
  BY <1>1, SInitType DEF SInit, SInv, Phases, InSession, NotKilledByOwnTimer,
                         LinesAddUp

\* The timer is quiet in recvfrom, so an alarm raises the flag and no more.
LEMMA AlarmRaisesFlag ==
    ASSUME Phases, SigAlarm
    PROVE  /\ has_alarm' = TRUE
           /\ UNCHANGED <<spc, cause, serverSocket, session, timer, counters>>
  BY DEF Phases, InSession, SigAlarm

LEMMA PhasesKept == STypeOK /\ Phases /\ [SNext]_svars => Phases'
<1> SUFFICES ASSUME STypeOK, Phases, [SNext]_svars PROVE Phases'
  OBVIOUS
<1> USE DEF Phases, InSession
<1>1. CASE RecvRequest
  <2>1. Head(sk_q) \in Queued
    BY <1>1 DEF RecvRequest, STypeOK
  <2>2. cliaddr' \in Peers
    BY <1>1, <2>1 DEF RecvRequest, Queued
  <2> QED
    BY <1>1, <2>2 DEF RecvRequest
<1>2. CASE OpenSocket \/ StartSession \/ CloseSocket \/ Disarm
  BY <1>2 DEF OpenSocket, StartSession, CloseSocket, Disarm, session,
              serverSocket
<1>3. CASE NoBuffer \/ SyscallFails
  BY <1>3 DEF NoBuffer, SyscallFails, Exit
<1>4. CASE CheckAlarm \/ WriteNothing \/ WriteDatagram \/ WriteFails \/ Wait
  BY <1>4 DEF CheckAlarm, WriteNothing, WriteDatagram, Counted, WriteFails, Wait,
              serverSocket, session
<1>5. CASE SigAlarm \/ Environment \/ UNCHANGED svars
  <2>1. UNCHANGED <<spc, sk, timer, cliaddr>>
    BY <1>5 DEF SigAlarm, Environment, Refused, Deliver, svars, serverSocket,
                session
  <2>2. sk_err' => sk_err \/ sk = "connected"
    BY <1>5 DEF SigAlarm, Environment, Refused, Deliver, svars, serverSocket
  <2> QED
    BY <2>1, <2>2
<1> QED
  BY <1>1, <1>2, <1>3, <1>4, <1>5 DEF SNext, ServerStep, LocalStep

LEMMA LinesKept ==
    STypeOK /\ LinesAddUp /\ [SNext]_svars => LinesAddUp'
<1> SUFFICES ASSUME STypeOK, LinesAddUp, [SNext]_svars PROVE LinesAddUp'
  OBVIOUS
<1> USE DEF LinesAddUp
<1>1. /\ written \in Word /\ interval_write_count \in Word
      /\ Plus(written, interval_write_count) \in Word
  BY WordFacts DEF STypeOK
<1>2. CASE StartSession
  <2>1. Plus(0, 0) = 0
    BY ModulusAssumption DEF Plus
  <2> QED
    BY <1>2, <2>1 DEF StartSession
<1>3. CASE CheckAlarm
  BY <1>1, <1>3, WordFacts DEF CheckAlarm
<1>4. CASE WriteNothing \/ WriteDatagram
  BY <1>1, <1>4, WordFacts DEF WriteNothing, WriteDatagram, Counted
<1>5. CASE UNCHANGED counters
  BY <1>5 DEF counters
<1>6. CASE \/ OpenSocket \/ RecvRequest \/ NoBuffer \/ WriteFails \/ Wait
           \/ CloseSocket \/ Disarm \/ SyscallFails \/ SigAlarm
           \/ Environment \/ UNCHANGED svars
  <2>1. UNCHANGED counters
    BY <1>6 DEF OpenSocket, RecvRequest, NoBuffer, WriteFails, Wait, CloseSocket,
                Disarm, SyscallFails, SigAlarm, Exit,
                Environment, Refused, Deliver, svars
  <2> QED
    BY <1>5, <2>1
<1> QED
  BY <1>2, <1>3, <1>4, <1>6 DEF SNext, ServerStep, LocalStep

LEMMA SNextInv == SInv /\ [SNext]_svars => SInv'
<1> SUFFICES ASSUME SInv, [SNext]_svars PROVE SInv'
  OBVIOUS
<1>1. STypeOK' /\ Phases' /\ LinesAddUp'
  BY SNextType, PhasesKept, LinesKept DEF SInv
<1>2. NotKilledByOwnTimer'
  <2>1. SigAlarm => UNCHANGED cause
    BY AlarmRaisesFlag DEF SInv
  <2> QED
    BY <2>1 DEF SInv, NotKilledByOwnTimer, SNext, ServerStep, LocalStep,
         OpenSocket, RecvRequest, NoBuffer, StartSession, CheckAlarm,
         WriteNothing, WriteDatagram, Counted, WriteFails, Wait, CloseSocket,
         Disarm, SyscallFails, SigAlarm, Exit, Environment, Refused, Deliver,
         svars
<1> QED
  BY <1>1, <1>2 DEF SInv

LEMMA SInvariance == SSpec => []SInv
  BY SInitInv, SNextInv, PTL DEF SSpec

\* The server's own timer never interrupts the recvfrom it waits in.
THEOREM TimerHarmless == SSpec => []NotKilledByOwnTimer
<1>1. SInv => NotKilledByOwnTimer
  BY DEF SInv
<1> QED
  BY <1>1, SInvariance, PTL

\* Report lines and current interval add up to the datagrams of the session.
THEOREM LinesCorrect == SSpec => []LinesAddUp
<1>1. SInv => LinesAddUp
  BY DEF SInv
<1> QED
  BY <1>1, SInvariance, PTL

-----------------------------------------------------------------------------
(***************************************************************************)
(* The refinement: connect starts a session, writen numbers a datagram,    *)
(* close or exit ends it, and everything else stutters.                    *)
(***************************************************************************)
LEMMA IterInitRefines == SInit => Iterative!IterInit
  BY DEF SInit, Serving, Iterative!IterInit

LEMMA IterStepRefines ==
    SInv /\ [SNext]_svars => [Iterative!IterNext]_(Iterative!streamVars)
<1> SUFFICES ASSUME SInv, [SNext]_svars
             PROVE  [Iterative!IterNext]_(Iterative!streamVars)
  OBVIOUS
<1> USE DEF SInv, Phases, InSession, Serving
<1>0. cliaddr \in Peers => cliaddr # Nobody
  BY ServerAssumption
<1>1. CASE StartSession
  <2>1. Iterative!Accept(cliaddr)
    BY <1>1 DEF StartSession, Iterative!Accept
  <2>2. cliaddr \in Peers
    BY <1>1 DEF StartSession
  <2> QED
    BY <2>1, <2>2 DEF Iterative!IterNext
<1>2. CASE WriteNothing \/ WriteDatagram
  <2>1. sk = "connected" /\ cliaddr \in Peers
    BY <1>2 DEF WriteNothing, WriteDatagram
  <2>2. /\ UNCHANGED <<sk, cliaddr>>
        /\ seq_num' = Succ(seq_num)
    BY <1>2 DEF WriteNothing, WriteDatagram, Counted, serverSocket, session
  <2> QED
    BY <1>0, <2>1, <2>2
    DEF Iterative!IterNext, Iterative!SendNext, Iterative!Succ, Succ,
        Iterative!Plus, Plus
<1>3. CASE CloseSocket \/ NoBuffer \/ SyscallFails
  <2>1. sk' = "none"
    BY <1>3 DEF CloseSocket, NoBuffer, SyscallFails, Exit
  <2>2. CASE sk = "connected"
    BY <1>0, <2>1, <2>2 DEF Iterative!IterNext, Iterative!End
  <2>3. CASE sk # "connected"
    BY <2>1, <2>3 DEF Iterative!streamVars
  <2> QED
    BY <2>2, <2>3
<1>4. CASE OpenSocket \/ RecvRequest
  <2>1. sk # "connected" /\ sk' # "connected"
    BY <1>4 DEF OpenSocket, RecvRequest
  <2> QED
    BY <2>1 DEF Iterative!streamVars
<1>5. CASE \/ CheckAlarm \/ WriteFails \/ Wait \/ Disarm \/ SigAlarm
           \/ Environment \/ UNCHANGED svars
  <2>1. UNCHANGED <<sk, cliaddr, seq_num>>
    BY <1>5 DEF CheckAlarm, WriteFails, Wait, Disarm, SigAlarm, Environment,
                Refused, Deliver, svars, serverSocket, session, counters
  <2> QED
    BY <2>1 DEF Iterative!streamVars
<1> QED
  BY <1>1, <1>2, <1>3, <1>4, <1>5 DEF SNext, ServerStep, LocalStep

\* The server serves one peer at a time and numbers the datagrams of each
\* session from 0, whatever arrives, expires or fails meanwhile.
THEOREM IterativeRefinement == SSpec => ImplementsIterative
  BY IterInitRefines, IterStepRefines, SInvariance, PTL
  DEF SSpec, ImplementsIterative, Iterative!IterSpec
=============================================================================
