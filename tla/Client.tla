------------------------------- MODULE Client -------------------------------
(***************************************************************************)
(* client: reads max_read_counter datagrams that carry 0, 1, 2, ... and    *)
(* ends, or ends at the first number it does not expect unless -G told it  *)
(* to go on from there.  With -f an alarm makes it send an Ethernet pause  *)
(* frame (flow_ctrl_pause) at the top of the next turn.                    *)
(*                                                                         *)
(* Three widths meet here.  Numbers and the maximum are unsigned long, the *)
(* counter is unsigned int, and the maximum is also the first packet,      *)
(* whose low int the server takes for the length of its datagrams.  A      *)
(* short datagram overwrites only the low bytes of the number that the     *)
(* read buffer holds.                                                      *)
(*                                                                         *)
(* The server and the network are the environment: the numbers come in     *)
(* order, any of them may be lost, and so may the first packet.            *)
(***************************************************************************)
EXTENDS Words, Sequences

CONSTANTS
    Narrow,       \* number of values of an int and of an unsigned int
    NumLen,       \* bytes of an unsigned long
    Octet,        \* number of values of a byte
    MaxDatagram,  \* longest datagram UDP carries
    Maxes,        \* what -c may ask for
    PauseTimes,   \* what -F may ask for, before it becomes an int
    QueueLen,     \* datagrams the kernel queues on the socket
    MaxLost,      \* bound: datagrams the network loses
    MaxRaw        \* raw sockets the process may have open

ASSUME ClientAssumption ==
    /\ Narrow \in Nat /\ Narrow >= 2 /\ Narrow <= Modulus
    /\ NumLen \in Nat /\ Octet \in Nat \ {0}
    /\ MaxDatagram \in Nat
    /\ Maxes \subseteq Word /\ PauseTimes \subseteq Word
    /\ QueueLen \in Nat /\ MaxLost \in Nat /\ MaxRaw \in Nat

\* The low bytes of an unsigned long take a whole part of its values.
ASSUME OctetAssumption ==
    \A k \in 0 .. NumLen :
        Octet^k \in Nat \ {0} /\ Modulus % (Octet^k) = 0

VARIABLES
    max_read_counter, ignore_seq_num_error, do_flow_ctrl, flow_ctrl_value,
    cpc,                \* where the process is
    read_counter,       \* an unsigned int
    read_buf,           \* first unsigned long of the buffer
    has_alarm,          \* raised by sig_alarm
    raw,                \* raw sockets open
    frame,              \* pause time in the frame being built
    frames,             \* history: pause times of the frames sent
    broken,             \* history: calls that failed on an open raw socket
    serving, to_send,   \* the server answers; its next number
    arrived,            \* the socket's queue
    lost,               \* history: datagrams lost
    received            \* history: datagrams read without -G, up to Narrow

options == <<max_read_counter, ignore_seq_num_error, do_flow_ctrl,
             flow_ctrl_value>>
pause   == <<raw, frame, frames, broken>>
network == <<serving, to_send, arrived, lost>>
cvars   == <<options, cpc, read_counter, read_buf, has_alarm, pause, network,
             received>>

CEnded    == {"done", "mismatch", "failed"}
PauseStep == {"hwaddr", "broadcast", "sendto", "close"}

\* A value that does not fit is cut to the low bits of an int.
ToInt(v) == LET low == v % Narrow
            IN IF low < Narrow \div 2 THEN low ELSE low - Narrow
ToUnsigned(v) == v % Narrow

\* The length the server takes from the first packet.
AskedLength == ToInt(max_read_counter)

\* It serves a length it can send; 0 makes it send nothing, for ever.
Serves == AskedLength \in 1 .. MaxDatagram

-----------------------------------------------------------------------------
(***************************************************************************)
(* Options and start-up.                                                   *)
(***************************************************************************)

\* -F is checked after it has become an int.
ValueAllowed(v) == ToInt(v) \in 0 .. Octet * Octet - 1

CInit ==
    /\ max_read_counter \in Maxes
    /\ ignore_seq_num_error \in BOOLEAN
    /\ do_flow_ctrl \in BOOLEAN
    /\ flow_ctrl_value \in PauseTimes
    /\ cpc = IF ValueAllowed(flow_ctrl_value) THEN "setup" ELSE "failed"
    /\ read_counter = 0
    /\ read_buf \in Word            \* never initialised
    /\ has_alarm = FALSE
    /\ raw = 0
    /\ frame = 0
    /\ frames = {}
    /\ broken = 0
    /\ serving = FALSE
    /\ to_send = 0
    /\ arrived = <<>>
    /\ lost = 0
    /\ received = 0

\* Socket, connect, buffer and first packet; a call that fails ends it.
ClientSetup ==
    /\ cpc = "setup"
    /\ cpc' \in {"top", "failed"}
    /\ UNCHANGED <<options, read_counter, read_buf, has_alarm, pause, network,
                   received>>

-----------------------------------------------------------------------------
(***************************************************************************)
(* The loop.                                                               *)
(***************************************************************************)

\* The end test compares the unsigned int with the unsigned long.
EndTest ==
    /\ cpc = "top" /\ read_counter = max_read_counter
    /\ cpc' = "done"
    /\ UNCHANGED <<options, read_counter, read_buf, has_alarm, pause, network,
                   received>>

\* A mistake: a frame that cannot be sent is tried again before the next
\* read().
StartPauseAgain ==
    /\ cpc = "top" /\ read_counter # max_read_counter
    /\ do_flow_ctrl /\ has_alarm
    /\ has_alarm' = FALSE
    /\ \/ raw < MaxRaw /\ raw' = raw + 1 /\ cpc' = "hwaddr"
       \/ raw' = raw /\ cpc' = "top"
    /\ UNCHANGED <<options, read_counter, read_buf, frame, frames, broken,
                   network, received>>

\* A mistake: the flag is tested and left up.
StartPauseKeepsAlarm ==
    /\ cpc = "top" /\ read_counter # max_read_counter
    /\ do_flow_ctrl /\ has_alarm
    /\ \/ raw < MaxRaw /\ raw' = raw + 1 /\ cpc' = "hwaddr"
       \/ raw' = raw /\ cpc' = "read"
    /\ UNCHANGED <<options, read_counter, read_buf, has_alarm, frame, frames,
                   broken, network, received>>

\* An alarm came: flow_ctrl_pause opens a raw socket, which fails without
\* privilege or when too many are open.
StartPause ==
    /\ cpc = "top" /\ read_counter # max_read_counter
    /\ do_flow_ctrl /\ has_alarm
    /\ has_alarm' = FALSE
    /\ \/ raw < MaxRaw /\ raw' = raw + 1 /\ cpc' = "hwaddr"
       \/ raw' = raw /\ cpc' = "read"
    /\ UNCHANGED <<options, read_counter, read_buf, frame, frames, broken,
                   network, received>>

\* No alarm, or no -f: straight to read().
StartRead ==
    /\ cpc = "top" /\ read_counter # max_read_counter
    /\ ~(do_flow_ctrl /\ has_alarm)
    /\ cpc' = "read"
    /\ UNCHANGED <<options, read_counter, read_buf, has_alarm, pause, network,
                   received>>

\* A call of flow_ctrl_pause that fails returns at once, and its socket stays
\* open.
NextCall(next) ==
    \/ cpc' = next /\ broken' = broken
    \/ cpc' = "read" /\ broken' = broken + 1

\* get_fill stores the time as two bytes, high one first.
Filled(time) == (((time \div Octet) % Octet) * Octet) + (time % Octet)

\* get_fill, then SIOCGIFHWADDR.  The address is a fixed one, so get_fill's
\* own errors do not happen.
AskHwAddr ==
    /\ cpc = "hwaddr"
    /\ frame' = Filled(ToInt(flow_ctrl_value))
    /\ NextCall("broadcast")
    /\ UNCHANGED <<options, read_counter, read_buf, has_alarm, raw, frames,
                   network, received>>

AllowBroadcast ==
    /\ cpc = "broadcast"
    /\ NextCall("sendto")
    /\ UNCHANGED <<options, read_counter, read_buf, has_alarm, raw, frame,
                   frames, network, received>>

SendFrame ==
    /\ cpc = "sendto"
    /\ NextCall("close")
    /\ frames' = IF cpc' = "close" THEN frames \cup {frame} ELSE frames
    /\ UNCHANGED <<options, read_counter, read_buf, has_alarm, raw, frame,
                   network, received>>

\* A mistake: the socket is kept.
CloseRawNever ==
    /\ cpc = "close"
    /\ cpc' = "read"
    /\ UNCHANGED <<options, read_counter, read_buf, has_alarm, pause, network,
                   received>>

\* Only a frame that was sent gives its socket back.
CloseRaw ==
    /\ cpc = "close"
    /\ raw' = raw - 1
    /\ cpc' = "read"
    /\ UNCHANGED <<options, read_counter, read_buf, has_alarm, frame, frames,
                   broken, network, received>>

\* What read_buf holds after a datagram of len bytes: a short one changes the
\* low bytes only.
Overlaid(seq, len) ==
    IF len >= NumLen THEN seq
    ELSE (read_buf - (read_buf % (Octet^len))) + (seq % (Octet^len))

\* A mistake: the counter is as wide as the numbers.
CountWide(s) ==
    \/ /\ read_counter = s \/ ignore_seq_num_error
       /\ read_counter' = Succ(s)
       /\ cpc' = "top"
    \/ /\ read_counter # s /\ ~ignore_seq_num_error
       /\ read_counter' = read_counter
       /\ cpc' = "mismatch"

\* A mistake: the counter is moved to the number without -G, too.
CountAnyway(s) ==
    /\ read_counter' = ToUnsigned(ToUnsigned(s) + 1)
    /\ cpc' = "top"

\* The number is compared with the counter, which -G moves to it.
Count(s) ==
    \/ /\ read_counter = s \/ ignore_seq_num_error
       /\ read_counter' = ToUnsigned(ToUnsigned(s) + 1)
       /\ cpc' = "top"
    \/ /\ read_counter # s /\ ~ignore_seq_num_error
       /\ read_counter' = read_counter
       /\ cpc' = "mismatch"

\* read() returns a datagram.  EINTR goes back to AGAIN and leaves the process
\* where it was, so a pause waits until here.
ReadDatagram ==
    /\ cpc = "read" /\ arrived # <<>>
    /\ read_buf' = Overlaid(Head(arrived), AskedLength)
    /\ Count(read_buf')
    /\ arrived' = Tail(arrived)
    /\ received' = IF received < Narrow /\ ~ignore_seq_num_error
                   THEN received + 1 ELSE received
    /\ UNCHANGED <<options, has_alarm, pause, serving, to_send, lost>>

\* Another error, such as the ICMP error of a server that is not there.
ReadFails ==
    /\ cpc = "read" /\ ~serving
    /\ cpc' = "failed"
    /\ UNCHANGED <<options, read_counter, read_buf, has_alarm, pause, network,
                   received>>

\* SIGALRM; the timer runs from before the start-up calls on.
ClientAlarm ==
    /\ do_flow_ctrl /\ cpc \notin CEnded
    /\ has_alarm' = TRUE
    /\ UNCHANGED <<options, cpc, read_counter, read_buf, pause, network,
                   received>>

-----------------------------------------------------------------------------
(***************************************************************************)
(* The server and the network.                                             *)
(***************************************************************************)

\* The first packet reaches the server.
ServerAnswers ==
    /\ cpc \notin CEnded \cup {"setup"}
    /\ ~serving /\ Serves
    /\ serving' = TRUE
    /\ UNCHANGED <<options, cpc, read_counter, read_buf, has_alarm, pause,
                   to_send, arrived, lost, received>>

DatagramComes ==
    /\ cpc \notin CEnded /\ serving
    /\ Len(arrived) < QueueLen
    /\ arrived' = Append(arrived, to_send)
    /\ to_send' = Succ(to_send)
    /\ UNCHANGED <<options, cpc, read_counter, read_buf, has_alarm, pause,
                   serving, lost, received>>

DatagramLost ==
    /\ cpc \notin CEnded /\ serving
    /\ lost < MaxLost
    /\ to_send' = Succ(to_send)
    /\ lost' = lost + 1
    /\ UNCHANGED <<options, cpc, read_counter, read_buf, has_alarm, pause,
                   serving, arrived, received>>

-----------------------------------------------------------------------------
ClientStep ==
    \/ ClientSetup \/ EndTest \/ StartPause \/ StartRead \/ AskHwAddr
    \/ AllowBroadcast \/ SendFrame \/ CloseRaw \/ ReadDatagram

ClientEnv == ClientAlarm \/ ServerAnswers \/ DatagramComes \/ DatagramLost

CNext == ClientStep \/ ReadFails \/ ClientEnv

CSpec == CInit /\ [][CNext]_cvars

\* The process runs, the first packet arrives, and the server keeps sending.
CTraffic ==
    WF_cvars(ClientStep) /\ WF_cvars(ServerAnswers) /\ WF_cvars(DatagramComes)

-----------------------------------------------------------------------------
(***************************************************************************)
(* Properties.                                                             *)
(***************************************************************************)
CTypeOK ==
    /\ max_read_counter \in Maxes
    /\ ignore_seq_num_error \in BOOLEAN
    /\ do_flow_ctrl \in BOOLEAN
    /\ flow_ctrl_value \in PauseTimes
    /\ cpc \in {"setup", "top", "read"} \cup PauseStep \cup CEnded
    /\ read_counter \in 0 .. (Narrow - 1)
    /\ read_buf \in Word
    /\ has_alarm \in BOOLEAN
    /\ raw \in 0 .. MaxRaw
    /\ frame \in 0 .. (Octet * Octet - 1)
    /\ broken \in Nat
    /\ frames \subseteq 0 .. (Octet * Octet - 1)
    /\ serving \in BOOLEAN
    /\ to_send \in Word
    /\ arrived \in Seq(Word)
    /\ lost \in 0 .. MaxLost
    /\ received \in 0 .. Narrow

\* Without -G, and when datagrams carry whole numbers, a normal end means
\* that as many were read as were asked for; and a "seq_num error" means a
\* loss, datagrams too short to carry a number, or numbers that have outgrown
\* the counter.
VerdictRight ==
    /\ (cpc = "done" /\ ~ignore_seq_num_error) => received = max_read_counter
    /\ cpc = "mismatch" =>
          lost > 0 \/ AskedLength < NumLen \/ received = Narrow

\* However many alarms come, every frame carries the pause time asked for, as
\* an int, and a raw socket is open for the frame being sent and for every
\* call that failed on one, and for nothing else.
PausesRight ==
    /\ \A t \in frames : t = ToInt(flow_ctrl_value)
    /\ raw = broken + (IF cpc \in PauseStep THEN 1 ELSE 0)

\* The server keeps sending.
Works == AskedLength >= NumLen /\ Serves

\* While datagrams keep coming, an alarm leads to the attempt of a frame,
\* although an interrupted read() is called again without a look at the flag.
AlarmPauses ==
    Works => (has_alarm ~> (~has_alarm \/ cpc \in CEnded))

\* With nothing lost and a maximum that the 32-bit counter can reach, the
\* client ends.
EndsIfNothingLost ==
    (Works /\ max_read_counter < Narrow /\ [](lost = 0)) => <>(cpc \in CEnded)
=============================================================================
