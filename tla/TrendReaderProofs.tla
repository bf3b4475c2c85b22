------------------------- MODULE TrendReaderProofs -------------------------
(***************************************************************************)
(* udp-read-trend's counters, for every word size, buffer size and set of  *)
(* datagram lengths.                                                       *)
(***************************************************************************)
EXTENDS TrendReader, WordFacts

-----------------------------------------------------------------------------
(***************************************************************************)
(* The program reads and counts with values of the right type.             *)
(***************************************************************************)

\* What readn returns is a word: it returns at most BufSize.
LEMMA ReadLength ==
    ASSUME TypeOK
    PROVE  n \in Word
  BY ReaderAssumption, ModulusAssumption DEF TypeOK, n, Word

LEMMA InitType == Init => TypeOK
<1> SUFFICES ASSUME Init PROVE TypeOK
  OBVIOUS
<1>1. 0 \in 0 .. BufSize
  BY ReaderAssumption DEF Word
<1>2. reported \in [bytes : Word, drop : Word, count : Word]
  BY ZeroIsWord DEF Init
<1>3. rcvq \in Seq(Datagrams)
  BY DEF Init
<1> QED
  BY <1>1, <1>2, <1>3, ZeroIsWord DEF Init, TypeOK, Ended, Globals

LEMMA NextType == TypeOK /\ [Next]_vars => TypeOK'
<1> SUFFICES ASSUME TypeOK, [Next]_vars PROVE TypeOK'
  OBVIOUS
<1> USE DEF TypeOK, Ended
<1>1. CASE Setup
  BY <1>1 DEF Setup, socket, locals, totals, intervals, history
<1>2. CASE StartTurn
  <2>1. nleft' \in 0 .. BufSize
    BY <1>2, ReaderAssumption, ModulusAssumption DEF StartTurn, Word
  <2>2. reported' \in [bytes : Word, drop : Word, count : Word]
    <3>1. /\ Plus(reported.bytes, interval_read_bytes) \in Word
          /\ Plus(reported.drop, interval_drop_counter) \in Word
          /\ Plus(reported.count, interval_read_counter) \in Word
      BY WordClosed
    <3> QED
      BY <1>2, <3>1 DEF StartTurn, Report
  <2>3. /\ has_alarm' \in BOOLEAN
        /\ interval_read_bytes' \in Word
        /\ interval_drop_counter' \in Word
        /\ interval_read_counter' \in Word
    BY <1>2, ZeroIsWord DEF StartTurn, Report, intervals
  <2> QED
    BY <1>2, <2>1, <2>2, <2>3 DEF StartTurn, socket, totals
<1>3. ASSUME BeginCount, rcvq' \in Seq(Datagrams), so_error' = so_error
      PROVE  TypeOK'
  <2> USE <1>3 DEF BeginCount
  <2>1. Minus(read_buf, total_read_counter) \in Word
    BY WordClosed
  <2>2. /\ interval_read_bytes' \in Word
        /\ interval_drop_counter' \in Word
        /\ interval_read_counter' \in Word
        /\ counted' \in Word
    BY <2>1, WordClosed, ReadLength
  <2> QED
    BY <2>1, <2>2 DEF totals, Globals
<1>4. CASE ReadData
  <2>1. Head(rcvq) \in Datagrams /\ Tail(rcvq) \in Seq(Datagrams)
    BY <1>4 DEF ReadData
  <2>2. Head(rcvq).seq \in Word /\ Head(rcvq).len \in Nat
    BY <2>1, ReaderAssumption DEF Datagrams
  <2>3. nleft' \in 0 .. BufSize
    <3> DEFINE l == Head(rcvq).len
    <3>1. nleft' = IF l < nleft THEN nleft - l ELSE 0
      BY <1>4 DEF ReadData
    <3>2. l \in Nat /\ BufSize \in Nat
      BY <2>2, ReaderAssumption, ModulusAssumption DEF Word
    <3> HIDE DEF l
    <3> QED
      BY <3>1, <3>2
  <2> QED
    BY <1>4, <2>1, <2>2, <2>3 DEF ReadData, totals, intervals, history
<1>5. CASE ReadNothing
  BY <1>3, <1>5 DEF ReadNothing
<1>6. CASE ReadFull
  BY <1>3, <1>6 DEF ReadFull, socket
<1>7. CASE ReadError
  BY <1>7 DEF ReadError, socket, locals, totals, intervals, history
<1>8. ASSUME NEW x, Stored(x), gap' \in Word,
             total_read_bytes' \in Word,
             total_drop_counter' \in Word,
             total_read_counter' \in Word
      PROVE  TypeOK'
  BY <1>8 DEF Stored, socket, intervals, history
<1>9. CASE StoreBytes
  BY <1>8, <1>9, WordClosed, ReadLength DEF StoreBytes
<1>10. CASE StoreDrop
  BY <1>8, <1>10, WordClosed, ZeroIsWord DEF StoreDrop
<1>11. CASE StoreCounter
  BY <1>8, <1>11, WordClosed DEF StoreCounter
<1>12. CASE SigAlarm
  BY <1>12 DEF SigAlarm, socket, locals, totals, intervals, history
<1>13. CASE SigInt
  BY <1>13 DEF SigInt, socket, locals, totals, intervals, history
<1>14. CASE Arrive
  <2>1. PICK d \in Datagrams : rcvq' = Append(rcvq, d)
    BY <1>14 DEF Arrive
  <2>2. rcvq' \in Seq(Datagrams)
    BY <2>1
  <2> QED
    BY <1>14, <2>2 DEF Arrive, locals, totals, intervals, history
<1>15. CASE Unreachable
  BY <1>15 DEF Unreachable, locals, totals, intervals, history
<1>16. CASE UNCHANGED vars
  BY <1>16 DEF vars, socket, locals, totals, intervals, history
<1> QED
  BY <1>1, <1>2, <1>4, <1>5, <1>6, <1>7, <1>9, <1>10, <1>11, <1>12, <1>13,
     <1>14, <1>15, <1>16 DEF Next, Loop

\* Every variable of udp-read-trend keeps its type: counters stay words and
\* readn never has more room left than the length it was asked for.
THEOREM TypeCorrect == Spec => []TypeOK
  BY InitType, NextType, PTL DEF Spec

-----------------------------------------------------------------------------
(***************************************************************************)
(* The counters.  Accounting and ReportsAddUp speak of the totals once the *)
(* stores of the turn have landed; they are inductive together with the    *)
(* fact that outside a turn nothing is left to store.                      *)
(***************************************************************************)
Quiet == pc \in {"setup", "top", "readn"} => pend = {}

IInv == TypeOK /\ Quiet /\ Accounting /\ ReportsAddUp

SettledSame == /\ SettledBytes' = SettledBytes
               /\ SettledDrop' = SettledDrop
               /\ SettledCounter' = SettledCounter

LEMMA InitInv == Init => IInv
<1> SUFFICES ASSUME Init PROVE IInv
  OBVIOUS
<1>1. TypeOK
  BY InitType
<1>2. Plus(0, 0) = 0 /\ Minus(0, 0) = 0
  BY ModulusAssumption DEF Plus, Minus
<1> QED
  BY <1>1, <1>2 DEF Init, IInv, Quiet, Accounting, ReportsAddUp, SettledBytes,
                    SettledDrop, SettledCounter

\* A step that leaves the totals and this turn's values alone, or that runs
\* while nothing is pending, settles nothing.
LEMMA NothingSettles ==
    ASSUME UNCHANGED <<totals, pend>>,
           pend = {} \/ UNCHANGED <<read_buf, nleft, gap>>
    PROVE  SettledSame
  BY DEF SettledSame, totals, SettledBytes, SettledDrop, SettledCounter, n

\* A store moves a value from pending to memory.
LEMMA StoreSettles ==
    ASSUME StoreBytes \/ StoreDrop \/ StoreCounter
    PROVE  SettledSame /\ UNCHANGED <<intervals, history>>
<1>1. CASE StoreBytes
  BY <1>1 DEF StoreBytes, Stored, SettledSame, SettledBytes, SettledDrop,
              SettledCounter, n
<1>2. CASE StoreDrop
  BY <1>2 DEF StoreDrop, Stored, SettledSame, SettledBytes, SettledDrop,
              SettledCounter, n
<1>3. CASE StoreCounter
  BY <1>3 DEF StoreCounter, Stored, SettledSame, SettledBytes, SettledDrop,
              SettledCounter, n
<1> QED
  BY <1>1, <1>2, <1>3

\* When nothing settles and no counter of the loop moves, the sums stay.
LEMMA SumsStay ==
    ASSUME IInv, SettledSame, UNCHANGED <<intervals, history>>
    PROVE  Accounting' /\ ReportsAddUp'
  BY DEF IInv, Accounting, ReportsAddUp, SettledSame, intervals, history

\* A report moves an interval into the lines printed.
LEMMA ReportKeepsSums ==
    ASSUME IInv, StartTurn
    PROVE  Accounting' /\ ReportsAddUp'
<1>1. SettledSame
  BY NothingSettles DEF IInv, Quiet, StartTurn
<1>2. CASE ~has_alarm
  BY <1>1, <1>2, SumsStay DEF StartTurn, history
<1>3. CASE has_alarm
  <2>1. /\ Plus(reported.bytes, interval_read_bytes) \in Word
        /\ Plus(reported.drop, interval_drop_counter) \in Word
        /\ Plus(reported.count, interval_read_counter) \in Word
    BY WordClosed DEF IInv, TypeOK
  <2>2. /\ Plus(Plus(reported.bytes, interval_read_bytes), 0)
             = Plus(reported.bytes, interval_read_bytes)
        /\ Plus(Plus(reported.drop, interval_drop_counter), 0)
             = Plus(reported.drop, interval_drop_counter)
        /\ Plus(Plus(reported.count, interval_read_counter), 0)
             = Plus(reported.count, interval_read_counter)
    BY <2>1, PlusZero
  <2>3. counted' = counted
    BY DEF StartTurn
  <2> QED
    BY <1>1, <1>3, <2>2, <2>3
    DEF IInv, Accounting, ReportsAddUp, SettledSame, StartTurn, Report
<1> QED
  BY <1>2, <1>3

\* One turn: the gap and the datagram are counted in the interval and in the
\* totals alike, and the gap keeps the drop count equal to the difference.
LEMMA CountKeepsSums ==
    ASSUME IInv, pc = "readn", BeginCount
    PROVE  /\ Accounting' /\ ReportsAddUp'
           /\ SettledCounter' = Succ(read_buf)
<1> DEFINE g == Minus(read_buf, total_read_counter)
<1>1. pend = {}
  BY DEF IInv, Quiet
<1>2. /\ SettledBytes = total_read_bytes
      /\ SettledDrop = total_drop_counter
      /\ SettledCounter = total_read_counter
  BY <1>1 DEF SettledBytes, SettledDrop, SettledCounter
<1>3. /\ SettledBytes' = Plus(total_read_bytes, n)
      /\ SettledDrop' = Plus(total_drop_counter, g)
      /\ SettledCounter' = Succ(read_buf)
  BY DEF BeginCount, SettledBytes, SettledDrop, SettledCounter, n, totals,
         Globals
<1>4. g \in Word /\ n \in Word /\ 1 \in Word
  <2>1. g \in Word
    BY WordClosed DEF IInv, TypeOK
  <2>2. n \in Word
    BY ReadLength DEF IInv
  <2>3. 1 \in Word
    BY ModulusAssumption DEF Word
  <2> QED
    BY <2>1, <2>2, <2>3
<1>5. Accounting'
  <2>1. total_drop_counter = Minus(total_read_counter, counted)
    BY <1>2 DEF IInv, Accounting
  <2>2. Plus(Minus(total_read_counter, counted), g)
          = Minus(Succ(read_buf), Succ(counted))
    BY GapStep DEF IInv, TypeOK
  <2> QED
    BY <1>3, <2>1, <2>2 DEF BeginCount, Accounting
<1>6. ReportsAddUp'
  <2>1. /\ Plus(reported.bytes, Plus(interval_read_bytes, n))
             = Plus(total_read_bytes, n)
        /\ Plus(reported.drop, Plus(interval_drop_counter, g))
             = Plus(total_drop_counter, g)
        /\ Plus(reported.count, Plus(interval_read_counter, 1))
             = Plus(counted, 1)
    <3> HIDE DEF g
    <3>1. /\ reported.bytes \in Word
          /\ reported.drop \in Word
          /\ reported.count \in Word
      BY DEF IInv, TypeOK
    <3> QED
      BY <1>2, <1>4, <3>1, PlusMoves DEF IInv, TypeOK, ReportsAddUp
  <2> QED
    BY <1>3, <2>1 DEF BeginCount, ReportsAddUp, Succ
<1> QED
  BY <1>3, <1>5, <1>6

LEMMA NextInv == IInv /\ [Next]_vars => IInv'
<1> SUFFICES ASSUME IInv, [Next]_vars PROVE IInv'
  OBVIOUS
<1>1. TypeOK'
  BY NextType DEF IInv
<1>2. Quiet'
  BY DEF IInv, TypeOK, Quiet, Ended, Next, Loop, Setup, StartTurn, ReadData,
         ReadNothing, ReadFull, BeginCount, ReadError, StoreBytes, StoreDrop,
         StoreCounter, Stored, SigAlarm, SigInt, Arrive, Unreachable, vars,
         locals
<1>3. Accounting' /\ ReportsAddUp'
  <2>1. CASE StartTurn
    BY <2>1, ReportKeepsSums
  <2>2. CASE ReadNothing \/ ReadFull
    BY <2>2, CountKeepsSums DEF ReadNothing, ReadFull
  <2>3. CASE StoreBytes \/ StoreDrop \/ StoreCounter
    BY <2>3, StoreSettles, SumsStay
  <2>4. CASE ReadData
    BY <2>4, NothingSettles, SumsStay DEF IInv, Quiet, ReadData
  <2>5. CASE \/ Setup \/ ReadError \/ SigAlarm \/ SigInt \/ Arrive
             \/ Unreachable \/ UNCHANGED vars
    <3>1. UNCHANGED <<totals, pend, read_buf, nleft, gap, intervals, history>>
      BY <2>5 DEF Setup, ReadError, SigAlarm, SigInt, Arrive, Unreachable,
                  vars, locals
    <3> QED
      BY <3>1, NothingSettles, SumsStay
  <2> QED
    BY <2>1, <2>2, <2>3, <2>4, <2>5 DEF Next, Loop
<1> QED
  BY <1>1, <1>2, <1>3 DEF IInv

LEMMA Invariance == Spec => []IInv
  BY InitInv, NextInv, PTL DEF Spec

\* Whatever the network does to the datagrams, the drop counter is the last
\* number counted plus one, less the datagrams counted.
THEOREM AccountingHolds == Spec => []Accounting
<1>1. IInv => Accounting
  BY DEF IInv
<1> QED
  BY <1>1, Invariance, PTL

\* The printed intervals and the current one add up to the totals.
THEOREM ReportsAddUpHolds == Spec => []ReportsAddUp
<1>1. IInv => ReportsAddUp
  BY DEF IInv
<1> QED
  BY <1>1, Invariance, PTL

-----------------------------------------------------------------------------
(***************************************************************************)
(* The refinement.  A turn of the loop is one Count of the meter, taken    *)
(* when readn returns; the stores that follow settle nothing and stutter.  *)
(***************************************************************************)
LEMMA InitRefines == Init => Meter!MeterInit
  BY DEF Init, Meter!MeterInit, SettledCounter, SettledDrop, Ended

LEMMA MeterWords ==
    /\ \A a, b \in Word : Meter!Minus(a, b) = Minus(a, b)
    /\ \A a \in Word : Meter!Succ(a) = Succ(a)
    /\ Meter!Word = Word
  BY DEF Meter!Minus, Minus, Meter!Succ, Succ, Meter!Plus, Plus, Meter!Word,
         Word

LEMMA TurnIsCount ==
    ASSUME IInv, pc = "readn", BeginCount
    PROVE  Meter!Count(read_buf)
<1>1. /\ read_buf \in Word /\ counted \in Word
      /\ counted' \in Word /\ SettledCounter' \in Word
  BY WordClosed, CountKeepsSums DEF IInv, TypeOK, BeginCount
<1>2. /\ SettledCounter' = Meter!Succ(read_buf)
      /\ counted' = Meter!Succ(counted)
  BY <1>1, CountKeepsSums, MeterWords DEF BeginCount
<1>3. SettledDrop' = Meter!Minus(SettledCounter', counted')
  BY <1>1, CountKeepsSums, MeterWords DEF Accounting
<1>4. pc \notin Ended /\ (pc \notin Ended)' = (pc \notin Ended)
  BY DEF BeginCount, Ended
<1> QED
  BY <1>2, <1>3, <1>4 DEF Meter!Count

LEMMA StepRefines ==
    IInv /\ [Next]_vars => [Meter!MeterNext]_(Meter!meterVars)
<1> SUFFICES ASSUME IInv, [Next]_vars
             PROVE  [Meter!MeterNext]_(Meter!meterVars)
  OBVIOUS
<1>1. CASE ReadNothing \/ ReadFull
  <2>1. Meter!Count(read_buf)
    BY <1>1, TurnIsCount DEF ReadNothing, ReadFull
  <2>2. read_buf \in Meter!Word
    BY MeterWords DEF IInv, TypeOK
  <2> QED
    BY <2>1, <2>2 DEF Meter!MeterNext
<1>2. CASE StoreBytes \/ StoreDrop \/ StoreCounter
  <2>1. SettledSame /\ counted' = counted
    BY <1>2, StoreSettles DEF history
  <2>2. (pc \notin Ended)' = (pc \notin Ended)
    BY <1>2 DEF StoreBytes, StoreDrop, StoreCounter, Stored, Ended
  <2> QED
    BY <2>1, <2>2 DEF SettledSame, Meter!meterVars
<1>3. CASE Setup \/ ReadError \/ SigInt
  <2>1. SettledSame
    BY <1>3, NothingSettles DEF Setup, ReadError, SigInt, locals
  <2>2. counted' = counted /\ pc \notin Ended
    BY <1>3 DEF Setup, ReadError, SigInt, history, Ended
  <2> QED
    BY <2>1, <2>2 DEF SettledSame, Meter!meterVars, Meter!MeterNext, Meter!Stop
<1>4. CASE StartTurn \/ ReadData
  <2>1. SettledSame
    BY <1>4, NothingSettles DEF IInv, Quiet, StartTurn, ReadData
  <2>2. counted' = counted /\ (pc \notin Ended)' = (pc \notin Ended)
    BY <1>4 DEF StartTurn, ReadData, history, Ended
  <2> QED
    BY <2>1, <2>2 DEF SettledSame, Meter!meterVars
<1>5. CASE SigAlarm \/ Arrive \/ Unreachable \/ UNCHANGED vars
  <2>1. SettledSame
    BY <1>5, NothingSettles DEF SigAlarm, Arrive, Unreachable, vars, locals
  <2>2. counted' = counted /\ pc' = pc
    BY <1>5 DEF SigAlarm, Arrive, Unreachable, vars, history
  <2> QED
    BY <2>1, <2>2 DEF SettledSame, Meter!meterVars
<1> QED
  BY <1>1, <1>2, <1>3, <1>4, <1>5 DEF Next, Loop

\* udp-read-trend with its signals and its stores in any order implements the
\* one-step meter.
THEOREM Refinement == Spec => ImplementsMeter
  BY InitRefines, StepRefines, Invariance, PTL
  DEF Spec, ImplementsMeter, Meter!MeterSpec
=============================================================================
