---------------------------- MODULE ClientProofs ----------------------------
(***************************************************************************)
(* client's counter, verdict and pause frames, for every width of the      *)
(* integers, every maximum and pause time, and any number of losses.       *)
(***************************************************************************)
EXTENDS Client, WordFacts

-----------------------------------------------------------------------------
(***************************************************************************)
(* Integers cut to fewer bytes.                                            *)
(***************************************************************************)

\* Division splits a number into a multiple and a rest.
LEMMA DivideWithRest ==
    ASSUME NEW x \in Nat, NEW d \in Nat, d > 0
    PROVE  /\ x = d * (x \div d) + (x % d)
           /\ x \div d \in Nat /\ x % d \in 0 .. d - 1
  OBVIOUS

\* A larger multiple is larger by at least the divisor.
LEMMA NextMultiple ==
    ASSUME NEW a \in Nat, NEW b \in Nat, NEW d \in Nat, d * a < d * b
    PROVE  d * a + d <= d * b
<1>1. a < b
  <2> SUFFICES ASSUME b <= a PROVE FALSE
    OBVIOUS
  <2>1. d * b <= d * a
    OBVIOUS
  <2> QED
    BY <2>1
<1>2. d * (a + 1) <= d * b
  BY <1>1
<1> QED
  BY <1>2

\* A word with its low bytes replaced is a word.
LEMMA LowBytes ==
    ASSUME NEW x \in Word, NEW s \in Word, NEW p \in Nat \ {0},
           Modulus % p = 0
    PROVE  (x - (x % p)) + (s % p) \in Word
<1> DEFINE q == x \div p
           m == Modulus \div p
<1>1. x \in Nat /\ s \in Nat /\ Modulus \in Nat /\ x < Modulus /\ p > 0
  BY ModulusAssumption DEF Word
<1>2. x = p * q + (x % p) /\ q \in Nat /\ x % p \in 0 .. p - 1
  BY <1>1, DivideWithRest, Zenon
<1>3. Modulus = p * m + (Modulus % p) /\ m \in Nat
  BY <1>1, DivideWithRest, Zenon
<1>4. s % p \in 0 .. p - 1
  BY <1>1
<1> HIDE DEF q, m
<1>5. p * q \in Nat /\ p * m \in Nat
  BY <1>2, <1>3
<1>6. p * m = Modulus
  BY <1>3, <1>5
<1>7. p * q < p * m
  BY <1>1, <1>2, <1>5, <1>6
<1>8. p * q + p <= p * m
  BY <1>2, <1>3, <1>7, NextMultiple
<1> DEFINE y == p * q
<1>9. y \in Nat /\ x = y + (x % p) /\ y + p <= Modulus
  BY <1>2, <1>5, <1>6, <1>8
<1> HIDE DEF y
<1>10. (x - (x % p)) + (s % p) = y + (s % p)
  BY <1>1, <1>2, <1>9
<1> QED
  BY <1>1, <1>4, <1>9, <1>10 DEF Word

\* What the read buffer holds is a word whatever the length of a datagram the
\* server serves.
LEMMA OverlaidType ==
    ASSUME NEW s \in Word, read_buf \in Word, Serves
    PROVE  Overlaid(s, AskedLength) \in Word
<1>1. CASE AskedLength >= NumLen
  BY <1>1 DEF Overlaid
<1>2. CASE ~(AskedLength >= NumLen)
  <2>1. AskedLength \in 0 .. NumLen
    BY <1>2, ClientAssumption DEF Serves
  <2>2. /\ Octet^AskedLength \in Nat \ {0}
        /\ Modulus % (Octet^AskedLength) = 0
    BY <2>1, OctetAssumption
  <2>3. (read_buf - (read_buf % (Octet^AskedLength)))
            + (s % (Octet^AskedLength)) \in Word
    BY <2>2, LowBytes
  <2> QED
    BY <1>2, <2>3 DEF Overlaid
<1> QED
  BY <1>1, <1>2

\* Two bytes hold every pause time that -F lets through.
LEMMA FilledKeeps ==
    ASSUME NEW x \in 0 .. Octet * Octet - 1
    PROVE  Filled(x) = x
<1> DEFINE q == x \div Octet
<1>1. x \in Nat /\ Octet \in Nat /\ Octet > 0 /\ Octet * Octet \in Nat
  BY ClientAssumption
<1>2. x = Octet * q + (x % Octet) /\ q \in Nat /\ x % Octet \in 0 .. Octet - 1
  BY <1>1, DivideWithRest, Zenon
<1> HIDE DEF q
<1>3. q < Octet
  <2> SUFFICES ASSUME Octet <= q PROVE FALSE
    BY <1>1, <1>2
  <2>1. Octet * Octet <= Octet * q
    BY <1>1, <1>2
  <2>2. Octet * q \in Nat
    BY <1>1, <1>2
  <2> QED
    BY <1>1, <1>2, <2>1, <2>2
<1>4. q % Octet = q
  BY <1>1, <1>2, <1>3
<1>5. q * Octet = Octet * q
  BY <1>1, <1>2
<1> QED
  BY <1>2, <1>4, <1>5 DEF Filled, q

\* The counter's increment stays within an unsigned int.
LEMMA CounterStep ==
    ASSUME NEW s \in Word
    PROVE  /\ ToUnsigned(ToUnsigned(s) + 1) \in 0 .. Narrow - 1
           /\ s + 1 < Narrow => ToUnsigned(ToUnsigned(s) + 1) = s + 1
<1>1. Narrow \in Nat /\ Narrow >= 2 /\ s \in Nat
  BY ClientAssumption, ModulusAssumption DEF Word
<1> QED
  BY <1>1 DEF ToUnsigned

-----------------------------------------------------------------------------
(***************************************************************************)
(* The inductive invariant, in parts.                                      *)
(***************************************************************************)
\* The server answers only what it can serve, and only then datagrams arrive.
NetworkInv ==
    /\ serving => Serves
    /\ arrived # <<>> => serving

\* A process that runs has a pause time in range; the frame under way carries
\* it, and the raw sockets are those of the frame and of failed calls.
PauseInv ==
    /\ cpc \notin CEnded => ValueAllowed(flow_ctrl_value)
    /\ cpc \in {"broadcast", "sendto", "close"} =>
          frame = ToInt(flow_ctrl_value)
    /\ PausesRight

\* Until the counter has been outgrown it is the number of datagrams read, and
\* the process does not read on when it has reached the maximum.
CountInv ==
    ~ignore_seq_num_error /\ cpc # "mismatch" =>
        /\ received < Narrow => read_counter = received
        /\ max_read_counter < Narrow =>
              /\ received <= max_read_counter
              /\ cpc \in {"read"} \cup PauseStep =>
                    received < max_read_counter
        /\ cpc = "done" => read_counter = max_read_counter

\* With nothing lost, the numbers queued follow the ones read without a gap.
Chain ==
    /\ arrived = <<>> => to_send = received
    /\ arrived # <<>> => /\ arrived[1] = received
                         /\ to_send = Succ(arrived[Len(arrived)])
    /\ \A k \in 1 .. Len(arrived) - 1 : arrived[k + 1] = Succ(arrived[k])

ChainInv ==
    (/\ lost = 0 /\ received < Narrow
     /\ ~ignore_seq_num_error /\ cpc # "mismatch") => Chain

ClientInv == CTypeOK /\ NetworkInv /\ PauseInv

\* The number read is a word.
LEMMA ReadBufType ==
    ASSUME CTypeOK, NetworkInv, ReadDatagram
    PROVE  read_buf' \in Word /\ Head(arrived) \in Word
<1>1. arrived \in Seq(Word) /\ arrived # <<>> /\ Serves
  BY DEF CTypeOK, NetworkInv, ReadDatagram
<1>2. Head(arrived) \in Word
  BY <1>1
<1> QED
  BY <1>1, <1>2, OverlaidType DEF CTypeOK, ReadDatagram

\* The invariant holds at the start.
LEMMA ClientInvInit == CInit => ClientInv
<1> SUFFICES ASSUME CInit PROVE ClientInv
  OBVIOUS
<1>1. CTypeOK
  <2>1. /\ read_counter \in 0 .. (Narrow - 1)
        /\ frame \in 0 .. (Octet * Octet - 1)
        /\ received \in 0 .. Narrow
    <3>1. Octet * Octet \in Nat \ {0}
      BY ClientAssumption
    <3> QED
      BY <3>1, ClientAssumption DEF CInit
  <2>2. raw \in 0 .. MaxRaw /\ lost \in 0 .. MaxLost /\ to_send \in Word
    BY ClientAssumption, ZeroIsWord DEF CInit
  <2>3. /\ cpc \in {"setup", "top", "read"} \cup PauseStep \cup CEnded
        /\ arrived \in Seq(Word) /\ frames \subseteq 0 .. (Octet * Octet - 1)
    BY DEF CInit, CEnded
  <2> QED
    BY <2>1, <2>2, <2>3 DEF CInit, CTypeOK
<1>2. NetworkInv /\ PauseInv
  BY DEF CInit, NetworkInv, PauseInv, PausesRight, CEnded, PauseStep
<1> QED
  BY <1>1, <1>2 DEF ClientInv

\* The options stay as they were given.
LEMMA OptionsKept == [CNext]_cvars => UNCHANGED options
  BY DEF CNext, ClientStep, ClientEnv, cvars, ClientSetup, EndTest, StartPause,
     StartRead, AskHwAddr, AllowBroadcast, SendFrame, CloseRaw, ReadDatagram,
     ReadFails, ClientAlarm, ServerAnswers, DatagramComes, DatagramLost

\* Every step keeps the types, the network's and the pause's part.
LEMMA ClientInvNext == ClientInv /\ [CNext]_cvars => ClientInv'
<1> SUFFICES ASSUME ClientInv, [CNext]_cvars PROVE ClientInv'
  OBVIOUS
<1> USE DEF ClientInv
<1>0. UNCHANGED options
  BY OptionsKept
<1>1. CASE ClientSetup \/ EndTest \/ StartRead \/ ReadFails \/ ClientAlarm
  <2>1. /\ UNCHANGED <<read_counter, read_buf, pause, network, received>>
        /\ has_alarm' \in BOOLEAN
    BY <1>1
       DEF CTypeOK, ClientSetup, EndTest, StartRead, ReadFails, ClientAlarm
  <2>2. \/ cpc' = cpc
        \/ /\ cpc \in {"setup", "top", "read"}
           /\ cpc' \in {"top", "read"} \cup CEnded
    BY <1>1 DEF ClientSetup, EndTest, StartRead, ReadFails, ClientAlarm, CEnded
  <2> QED
    BY <1>0, <2>1, <2>2
       DEF CTypeOK, NetworkInv, PauseInv, PausesRight, ValueAllowed, Serves,
       AskedLength, options, pause, network, CEnded, PauseStep
<1>2. CASE StartPause
  <2>1. /\ UNCHANGED <<read_counter, read_buf, network, received>>
        /\ UNCHANGED <<frame, frames, broken>>
        /\ has_alarm' = FALSE /\ cpc = "top"
    BY <1>2 DEF StartPause
  <2>2. \/ raw' \in 0 .. MaxRaw /\ raw' = raw + 1 /\ cpc' = "hwaddr"
        \/ raw' = raw /\ cpc' = "read"
    BY <1>2, ClientAssumption DEF StartPause, CTypeOK
  <2>3. CTypeOK'
    BY <1>0, <2>1, <2>2 DEF CTypeOK, options, network, CEnded, PauseStep
  <2>4. NetworkInv'
    BY <1>0, <2>1
       DEF NetworkInv, Serves, AskedLength, options, network
  <2>5. PauseInv'
    BY <1>0, <2>1, <2>2
       DEF CTypeOK, PauseInv, PausesRight, ValueAllowed, options, CEnded,
       PauseStep
  <2> QED
    BY <2>3, <2>4, <2>5
<1>3. CASE AskHwAddr
  <2>1. ToInt(flow_ctrl_value) \in 0 .. Octet * Octet - 1
    BY <1>3 DEF AskHwAddr, PauseInv, ValueAllowed, CEnded
  <2>2. Filled(ToInt(flow_ctrl_value)) = ToInt(flow_ctrl_value)
    BY <2>1, FilledKeeps
  <2>3. frame' = ToInt(flow_ctrl_value) /\ frame' \in 0 .. Octet * Octet - 1
    BY <1>3, <2>1, <2>2 DEF AskHwAddr
  <2> QED
    BY <1>3, <2>3
       DEF CTypeOK, NetworkInv, PauseInv, PausesRight, ValueAllowed, Serves,
       AskedLength, options, network, CEnded, PauseStep, AskHwAddr, NextCall
<1>4. CASE AllowBroadcast
  BY <1>4
     DEF CTypeOK, NetworkInv, PauseInv, PausesRight, ValueAllowed, Serves,
     AskedLength, options, network, CEnded, PauseStep, AllowBroadcast, NextCall
<1>5. CASE SendFrame
  BY <1>5
     DEF CTypeOK, NetworkInv, PauseInv, PausesRight, ValueAllowed, Serves,
     AskedLength, options, network, CEnded, PauseStep, SendFrame, NextCall
<1>6. CASE CloseRaw
  BY <1>6, ClientAssumption
     DEF CTypeOK, NetworkInv, PauseInv, PausesRight, ValueAllowed, Serves,
     AskedLength, options, network, CEnded, PauseStep, CloseRaw
<1>7. CASE ReadDatagram
  <2>1. arrived \in Seq(Word) /\ arrived # <<>> /\ Serves
    BY <1>7 DEF CTypeOK, NetworkInv, ReadDatagram
  <2>2. Head(arrived) \in Word /\ Tail(arrived) \in Seq(Word)
    BY <2>1
  <2>3. read_buf' \in Word
    BY <1>7, <2>1, <2>2, OverlaidType DEF CTypeOK, ReadDatagram
  <2>4. read_counter' \in 0 .. (Narrow - 1)
    BY <1>7, <2>3, CounterStep DEF CTypeOK, ReadDatagram, Count
  <2>5. received' \in 0 .. Narrow
    BY <1>7, ClientAssumption DEF CTypeOK, ReadDatagram
  <2>6. cpc' \in {"top", "mismatch"} /\ cpc = "read"
    BY <1>7 DEF ReadDatagram, Count
  <2>7. /\ arrived' \in Seq(Word)
        /\ UNCHANGED <<has_alarm, pause, serving, to_send, lost>>
    BY <1>7, <2>2 DEF ReadDatagram
  <2> QED
    BY <1>0, <2>1, <2>3, <2>4, <2>5, <2>6, <2>7
       DEF CTypeOK, NetworkInv, PauseInv, PausesRight, ValueAllowed, Serves,
       AskedLength, options, pause, CEnded, PauseStep
<1>8. CASE ServerAnswers
  BY <1>8
     DEF CTypeOK, NetworkInv, PauseInv, PausesRight, ValueAllowed, Serves,
     AskedLength, options, pause, CEnded, PauseStep, ServerAnswers
<1>9. CASE DatagramComes \/ DatagramLost
  <2>1. to_send' \in Word
    BY <1>9, WordClosed DEF CTypeOK, DatagramComes, DatagramLost
  <2>2. arrived' \in Seq(Word)
    BY <1>9 DEF CTypeOK, DatagramComes, DatagramLost
  <2>3. lost' \in 0 .. MaxLost
    BY <1>9, ClientAssumption DEF CTypeOK, DatagramComes, DatagramLost
  <2> QED
    BY <1>9, <2>1, <2>2, <2>3
       DEF CTypeOK, NetworkInv, PauseInv, PausesRight, ValueAllowed, Serves,
       AskedLength, options, pause, CEnded, PauseStep, DatagramComes,
       DatagramLost
<1>10. CASE UNCHANGED cvars
  BY <1>10
     DEF CTypeOK, NetworkInv, PauseInv, PausesRight, ValueAllowed, Serves,
     AskedLength, cvars, options, pause, network
<1> QED
  BY <1>1, <1>2, <1>3, <1>4, <1>5, <1>6, <1>7, <1>8, <1>9, <1>10
     DEF CNext, ClientStep, ClientEnv

-----------------------------------------------------------------------------
(***************************************************************************)
(* The verdict.                                                            *)
(***************************************************************************)
VerdictInv == CountInv /\ ChainInv /\ VerdictRight

\* The verdict's invariant holds at the start.
LEMMA VerdictInvInit == CInit => VerdictInv
<1> SUFFICES ASSUME CInit PROVE VerdictInv
  OBVIOUS
<1>1. CountInv
  BY ClientAssumption, ModulusAssumption
     DEF CInit, CountInv, CEnded, PauseStep, Word
<1> QED
  BY <1>1 DEF CInit, VerdictInv, ChainInv, Chain, VerdictRight, CEnded

\* A counter that ends the loop has counted every datagram: a maximum it cannot
\* reach never ends it.
LEMMA DoneRightNext ==
    ASSUME CTypeOK', CountInv', cpc' = "done", ~ignore_seq_num_error'
    PROVE  received' = max_read_counter'
<1>1. /\ read_counter' = max_read_counter'
      /\ read_counter' \in 0 .. (Narrow - 1)
  BY DEF CTypeOK, CountInv
<1>2. /\ Narrow \in Nat /\ received' \in 0 .. Narrow
      /\ max_read_counter' \in Nat
  BY ClientAssumption, ModulusAssumption DEF CTypeOK, Word
<1>3. max_read_counter' < Narrow /\ received' <= max_read_counter'
  BY <1>1, <1>2 DEF CountInv
<1>4. received' < Narrow
  BY <1>2, <1>3
<1> QED
  BY <1>1, <1>4 DEF CountInv

\* The counter after a datagram, and the end test's distance from it.
LEMMA ReadKeepsCount ==
    ASSUME CTypeOK, NetworkInv, CountInv, ReadDatagram
    PROVE  CountInv'
<1> SUFFICES ASSUME ~ignore_seq_num_error', cpc' # "mismatch"
             PROVE  /\ received' < Narrow => read_counter' = received'
                    /\ max_read_counter' < Narrow =>
                          received' <= max_read_counter'
                    /\ cpc' = "top"
  BY DEF CountInv, PauseStep
<1>1. /\ ~ignore_seq_num_error /\ cpc = "read"
      /\ max_read_counter' = max_read_counter
      /\ arrived # <<>> /\ arrived \in Seq(Word)
  BY DEF ReadDatagram, options, CTypeOK
<1>2. read_counter = read_buf' /\ cpc' = "top"
      /\ read_counter' = ToUnsigned(ToUnsigned(read_buf') + 1)
  BY <1>1 DEF ReadDatagram, Count
<1>3. received' = IF received < Narrow THEN received + 1 ELSE received
  BY <1>1 DEF ReadDatagram
<1>4. read_counter \in Word
  BY <1>2, <1>1, ReadBufType
<1>5. /\ Narrow \in Nat /\ received \in 0 .. Narrow
      /\ max_read_counter \in Nat
  BY ClientAssumption, ModulusAssumption DEF CTypeOK, Word
<1>6. received < Narrow => read_counter = received
  BY <1>1 DEF CountInv
<1>7. max_read_counter < Narrow => received < max_read_counter
  BY <1>1 DEF CountInv
<1>8. read_counter + 1 < Narrow => read_counter' = read_counter + 1
  BY <1>2, <1>4, CounterStep
<1> QED
  BY <1>1, <1>2, <1>3, <1>5, <1>6, <1>7, <1>8

\* The process's other steps leave counter and numbers alone and go on to
\* read() only after the end test.
LEMMA OthersKeepCount ==
    ASSUME CTypeOK, CountInv,
           UNCHANGED <<options, read_counter, received>>,
           cpc' # cpc =>
              \/ cpc = "setup" /\ cpc' \in {"top", "failed"}
              \/ cpc = "read" /\ cpc' = "failed"
              \/ /\ cpc = "top" /\ read_counter = max_read_counter
                 /\ cpc' = "done"
              \/ /\ cpc = "top" /\ read_counter # max_read_counter
                 /\ cpc' \in {"read"} \cup PauseStep
              \/ cpc \in PauseStep /\ cpc' \in {"read"} \cup PauseStep
    PROVE  CountInv'
<1>1. /\ Narrow \in Nat /\ received \in 0 .. Narrow
      /\ max_read_counter \in Nat
  BY ClientAssumption, ModulusAssumption DEF CTypeOK, Word
<1>2. SUFFICES ASSUME ~ignore_seq_num_error', cpc' # "mismatch"
               PROVE  /\ received' < Narrow => read_counter' = received'
                      /\ max_read_counter' < Narrow =>
                            /\ received' <= max_read_counter'
                            /\ cpc' \in {"read"} \cup PauseStep =>
                                  received' < max_read_counter'
                      /\ cpc' = "done" => read_counter' = max_read_counter'
  BY DEF CountInv
<1>3. ~ignore_seq_num_error /\ cpc # "mismatch"
  BY <1>2 DEF options, PauseStep
<1>4. /\ received < Narrow => read_counter = received
      /\ max_read_counter < Narrow => received <= max_read_counter
      /\ (max_read_counter < Narrow /\ cpc \in {"read"} \cup PauseStep) =>
            received < max_read_counter
      /\ cpc = "done" => read_counter = max_read_counter
  BY <1>3 DEF CountInv
<1> QED
  BY <1>1, <1>4 DEF options, PauseStep

\* A queue is empty when its length is 0.
LEMMA OnlyEmptyHasNone ==
    ASSUME NEW S, NEW q \in Seq(S)
    PROVE  q = <<>> <=> Len(q) = 0
  OBVIOUS

\* With nothing lost the queue stays a run of numbers.
LEMMA ReadKeepsChain ==
    ASSUME CTypeOK, NetworkInv, Chain, received < Narrow, ReadDatagram,
           ~ignore_seq_num_error, received' < Narrow
    PROVE  Chain'
<1>1. arrived \in Seq(Word) /\ arrived # <<>>
  BY DEF CTypeOK, ReadDatagram
<1>2. /\ arrived' = Tail(arrived) /\ to_send' = to_send
      /\ received' = received + 1
  BY DEF ReadDatagram
<1>3. /\ Narrow \in Nat /\ received \in Nat /\ Modulus \in Nat
      /\ received + 1 < Modulus
  BY <1>2, ClientAssumption, ModulusAssumption DEF CTypeOK
<1>4. Succ(arrived[1]) = received + 1
  BY <1>1, <1>3 DEF Chain, Succ, Plus
<1>5. /\ Len(arrived) \in Nat \ {0}
      /\ Len(arrived') = Len(arrived) - 1
      /\ \A k \in 1 .. Len(arrived) - 1 : arrived'[k] = arrived[k + 1]
      /\ (arrived' = <<>> <=> Len(arrived) = 1)
  <2>1. /\ Len(arrived) \in Nat \ {0}
        /\ Len(Tail(arrived)) = Len(arrived) - 1
        /\ \A k \in 1 .. Len(arrived) - 1 : Tail(arrived)[k] = arrived[k + 1]
    BY <1>1
  <2>2. Tail(arrived) \in Seq(Word)
    BY <1>1
  <2>3. Tail(arrived) = <<>> <=> Len(Tail(arrived)) = 0
    BY <2>2, OnlyEmptyHasNone
  <2> QED
    BY <1>2, <2>1, <2>3
<1>6. \A k \in 1 .. Len(arrived) - 1 : arrived[k + 1] = Succ(arrived[k])
  BY DEF Chain
<1>7. CASE Len(arrived) = 1
  BY <1>1, <1>2, <1>4, <1>5, <1>7 DEF Chain
<1>8. CASE Len(arrived) # 1
  <2>1. arrived'[1] = arrived[2] /\ arrived[2] = Succ(arrived[1])
    BY <1>5, <1>6, <1>8
  <2>2. arrived'[Len(arrived')] = arrived[Len(arrived)]
    BY <1>5, <1>8
  <2>3. \A k \in 1 .. Len(arrived') - 1 :
           arrived'[k + 1] = Succ(arrived'[k])
    <3> SUFFICES ASSUME NEW k \in 1 .. Len(arrived') - 1
                 PROVE  arrived'[k + 1] = Succ(arrived'[k])
      OBVIOUS
    <3>1. k \in 1 .. Len(arrived) - 1 /\ k + 1 \in 1 .. Len(arrived) - 1
      BY <1>5
    <3>2. arrived'[k + 1] = arrived[(k + 1) + 1] /\ arrived'[k] = arrived[k + 1]
      BY <1>5, <3>1
    <3> QED
      BY <1>6, <3>1, <3>2
  <2>4. to_send' = Succ(arrived'[Len(arrived')])
    BY <1>1, <1>2, <2>2 DEF Chain
  <2> QED
    BY <1>2, <1>4, <1>5, <1>8, <2>1, <2>3, <2>4 DEF Chain
<1> QED
  BY <1>7, <1>8

\* A number that arrives is the next one of the run.
LEMMA ComesKeepsChain ==
    ASSUME CTypeOK, Chain, DatagramComes
    PROVE  Chain'
<1>1. arrived \in Seq(Word) /\ to_send \in Word
  BY DEF CTypeOK
<1>2. /\ arrived' = Append(arrived, to_send) /\ to_send' = Succ(to_send)
      /\ received' = received
  BY DEF DatagramComes
<1>3. /\ Len(arrived) \in Nat
      /\ Len(arrived') = Len(arrived) + 1 /\ arrived' # <<>>
      /\ \A k \in 1 .. Len(arrived) : arrived'[k] = arrived[k]
      /\ arrived'[Len(arrived) + 1] = to_send
      /\ arrived = <<>> <=> Len(arrived) = 0
  BY <1>1, <1>2
<1>4. arrived'[1] = received
  BY <1>3 DEF Chain
<1>5. \A k \in 1 .. Len(arrived') - 1 : arrived'[k + 1] = Succ(arrived'[k])
  <2> SUFFICES ASSUME NEW k \in 1 .. Len(arrived') - 1
               PROVE  arrived'[k + 1] = Succ(arrived'[k])
    OBVIOUS
  <2>1. k \in 1 .. Len(arrived) /\ arrived'[k] = arrived[k]
    BY <1>3
  <2>2. CASE k = Len(arrived)
    BY <1>3, <2>1, <2>2 DEF Chain
  <2>3. CASE k # Len(arrived)
    <3>1. k \in 1 .. Len(arrived) - 1 /\ k + 1 \in 1 .. Len(arrived)
      BY <1>3, <2>1, <2>3
    <3> QED
      BY <1>3, <2>1, <3>1 DEF Chain
  <2> QED
    BY <2>2, <2>3
<1> QED
  BY <1>2, <1>3, <1>4, <1>5 DEF Chain

\* A number that does not match comes after a loss, in a datagram too short
\* for it, or when the counter has been outgrown.
LEMMA MismatchExplained ==
    ASSUME ClientInv, CountInv, ChainInv, ReadDatagram, cpc' = "mismatch"
    PROVE  lost > 0 \/ AskedLength < NumLen \/ received' = Narrow
<1> SUFFICES ASSUME ~(lost > 0), ~(AskedLength < NumLen)
             PROVE  received' = Narrow
  OBVIOUS
<1>1. /\ ~ignore_seq_num_error /\ cpc = "read" /\ arrived # <<>>
      /\ read_counter # read_buf'
      /\ received' = IF received < Narrow THEN received + 1 ELSE received
  BY DEF ReadDatagram, Count
<1>2. /\ AskedLength \in Int /\ NumLen \in Int /\ lost \in Nat
      /\ Narrow \in Nat /\ received \in 0 .. Narrow
  BY ClientAssumption DEF ClientInv, CTypeOK, NetworkInv, Serves, ReadDatagram
<1>3. read_buf' = Head(arrived)
  BY <1>2 DEF ReadDatagram, Overlaid
<1>4. Head(arrived) = arrived[1]
  BY <1>1 DEF ClientInv, CTypeOK
<1>5. CASE received < Narrow
  <2>1. Chain
    BY <1>1, <1>2, <1>5 DEF ChainInv
  <2>2. arrived[1] = received /\ read_counter = received
    BY <1>1, <1>5, <2>1 DEF Chain, CountInv
  <2> QED
    BY <1>1, <1>3, <1>4, <2>2
<1>6. CASE ~(received < Narrow)
  BY <1>1, <1>2, <1>6
<1> QED
  BY <1>5, <1>6

\* Every step keeps it.
LEMMA VerdictInvNext ==
    ClientInv /\ VerdictInv /\ [CNext]_cvars => VerdictInv'
<1> SUFFICES ASSUME ClientInv, VerdictInv, [CNext]_cvars
             PROVE  VerdictInv'
  OBVIOUS
<1>1. ClientInv' /\ CTypeOK' /\ CTypeOK /\ NetworkInv
  BY ClientInvNext DEF ClientInv
<1>2. UNCHANGED options /\ AskedLength' = AskedLength
  BY OptionsKept DEF options, AskedLength
<1>3. SUFFICES CountInv' /\ ChainInv'
                /\ (cpc' = "mismatch" =>
                       lost' > 0 \/ AskedLength < NumLen
                       \/ received' = Narrow)
  BY <1>1, <1>2, DoneRightNext DEF VerdictInv, VerdictRight
<1>4. CASE ReadDatagram
  <2>1. CountInv'
    BY <1>1, <1>4, ReadKeepsCount DEF VerdictInv
  <2>2. lost' = lost
    BY <1>4 DEF ReadDatagram
  <2>3. ChainInv'
    <3> SUFFICES ASSUME lost = 0, received' < Narrow, ~ignore_seq_num_error
                 PROVE  Chain'
      BY <1>2, <2>2 DEF ChainInv, options
    <3>1. received < Narrow /\ cpc = "read"
      BY <1>1, <1>4, ClientAssumption DEF ReadDatagram, CTypeOK
    <3>2. Chain
      BY <3>1 DEF VerdictInv, ChainInv
    <3> QED
      BY <1>1, <1>4, <3>1, <3>2, ReadKeepsChain
  <2> QED
    BY <1>4, <2>1, <2>2, <2>3, MismatchExplained DEF VerdictInv
<1>5. CASE ClientSetup \/ EndTest \/ StartPause \/ StartRead \/ AskHwAddr
              \/ AllowBroadcast \/ SendFrame \/ CloseRaw \/ ReadFails
              \/ ClientAlarm \/ UNCHANGED cvars
  <2>1. UNCHANGED <<read_counter, received, network>>
    BY <1>5 DEF ClientSetup, EndTest, StartPause, StartRead, AskHwAddr,
       AllowBroadcast, SendFrame, CloseRaw, ReadFails, ClientAlarm, cvars
  <2>2. cpc' # cpc =>
              \/ cpc = "setup" /\ cpc' \in {"top", "failed"}
              \/ cpc = "read" /\ cpc' = "failed"
              \/ /\ cpc = "top" /\ read_counter = max_read_counter
                 /\ cpc' = "done"
              \/ /\ cpc = "top" /\ read_counter # max_read_counter
                 /\ cpc' \in {"read"} \cup PauseStep
              \/ cpc \in PauseStep /\ cpc' \in {"read"} \cup PauseStep
    BY <1>5 DEF ClientSetup, EndTest, StartPause, StartRead, AskHwAddr,
       AllowBroadcast, SendFrame, CloseRaw, ReadFails, ClientAlarm, cvars,
       NextCall, PauseStep
  <2>3. CountInv'
    BY <1>1, <1>2, <2>1, <2>2, OthersKeepCount DEF VerdictInv
  <2>4. cpc' = "mismatch" => cpc = "mismatch"
    BY <2>2 DEF PauseStep
  <2>5. cpc = "mismatch" => cpc' = "mismatch"
    BY <2>2 DEF PauseStep
  <2>6. ChainInv'
    BY <1>2, <2>1, <2>5 DEF VerdictInv, ChainInv, Chain, network, options
  <2> QED
    BY <2>1, <2>3, <2>4, <2>6 DEF VerdictInv, VerdictRight, network
<1>6. CASE ServerAnswers \/ DatagramComes \/ DatagramLost
  <2>1. UNCHANGED <<cpc, read_counter, received>>
    BY <1>6 DEF ServerAnswers, DatagramComes, DatagramLost
  <2>2. CountInv'
    BY <1>2, <2>1 DEF VerdictInv, CountInv, options
  <2>3. lost' = lost \/ lost' > 0
    BY <1>1, <1>6
       DEF ServerAnswers, DatagramComes, DatagramLost, CTypeOK
  <2>4. CASE ServerAnswers
    BY <1>2, <2>1, <2>2, <2>4
       DEF VerdictInv, VerdictRight, ChainInv, Chain, ServerAnswers, options
  <2>5. CASE DatagramComes
    <3>1. lost' = lost
      BY <2>5 DEF DatagramComes
    <3>2. ChainInv'
      BY <1>1, <1>2, <2>1, <2>5, <3>1, ComesKeepsChain
         DEF VerdictInv, ChainInv, options
    <3> QED
      BY <2>1, <2>2, <3>1, <3>2 DEF VerdictInv, VerdictRight
  <2>6. CASE DatagramLost
    <3>1. lost' > 0 /\ lost' # 0
      BY <1>1, <2>6 DEF DatagramLost, CTypeOK
    <3> QED
      BY <2>2, <3>1 DEF ChainInv
  <2> QED
    BY <1>6, <2>4, <2>5, <2>6
<1> QED
  BY <1>4, <1>5, <1>6 DEF CNext, ClientStep, ClientEnv

\* The variables of client keep their types: the counter stays an unsigned int
\* and the number in the buffer a word, whatever lengths the server sends.
THEOREM CTypeCorrect == CSpec => []CTypeOK
  BY ClientInvInit, ClientInvNext, PTL DEF CSpec, ClientInv

\* Every pause frame carries the time asked for and raw sockets are accounted
\* for, however many alarms come and whichever calls fail.
THEOREM PausesCorrect == CSpec => []PausesRight
<1>1. ClientInv => PausesRight
  BY DEF ClientInv, PauseInv
<1> QED
  BY <1>1, ClientInvInit, ClientInvNext, PTL DEF CSpec

\* A normal end means that as many datagrams were read as asked for, and a
\* seq_num error means a loss, datagrams too short to carry a number, or
\* numbers that have outgrown the unsigned int they are counted in.
THEOREM VerdictCorrect == CSpec => []VerdictRight
<1>1. VerdictInv => VerdictRight
  BY DEF VerdictInv
<1> QED
  BY <1>1, ClientInvInit, ClientInvNext, VerdictInvInit, VerdictInvNext, PTL
     DEF CSpec
=============================================================================
